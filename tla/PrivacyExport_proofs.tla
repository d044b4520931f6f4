------------------------- MODULE PrivacyExport_proofs -------------------------
(***************************************************************************)
(* Proofs about PrivacyExport, for every number of users, requests,        *)
(* exports and faults: the type invariant, and that no committed row is    *)
(* ever left in processing, for any number of polls and erasures; what a   *)
(* committed ready row and its file have, with one poll at a time; and, of *)
(* the exports whose subject does not leave, that polls and requests       *)
(* implement the lifecycle, keep a file as long as it may be downloaded,   *)
(* leave none behind, and log the end of an export when they close it.     *)
(***************************************************************************)
EXTENDS PrivacyExport, TLAPS, FiniteSetTheorems

\* A row and its pending version stay the row they are.
Ids == \A e \in Exports : rows[e].id = e /\ work[e].id = e

\* A task that is in the middle of something holds the snapshot it works on,
\* and inside save() also the request it was given.
Busy ==
    \A a \in Actors :
        /\ pc[a] \in {"drop", "get", "flush", "open", "write", "probe",
                      "authorise", "stream"} => cur[a] \in Row
        /\ pc[a] \in {"drop", "get", "flush"} => want[a] \in Row
        /\ pc[a] = "flush" => seen[a] \in Row

Typed == TypeOK /\ Ids /\ Busy

\* Why processing cannot be committed: whoever wrote it still owns the row and
\* is on the way to overwriting it, or to rolling back.
InHand(a, e) ==
    \/ pc[a] = "rollback"
    \/ /\ cur[a].id = e
       /\ \/ pc[a] \in {"open", "write"}
          \/ pc[a] \in {"get", "flush"} /\ want[a].status # "processing"

ProcessingIsInHand ==
    \A e \in Exports : work[e].status = "processing" =>
        \E a \in Actors : lock[e] = a /\ InHand(a, e)

\* The save that overwrites processing has read processing, so its UPDATE sets
\* the status.
ProcessingIsSeen ==
    \A a \in Actors, e \in Exports :
        pc[a] = "flush" /\ cur[a].id = e /\ lock[e] = a /\ work[e].status = "processing"
            => seen[a].status = "processing"

Owned == NoCommittedProcessing /\ ProcessingIsInHand /\ ProcessingIsSeen

IInv == Typed /\ Owned
-------------------------------------------------------------------------------
(* The operators on rows.                                                    *)

\* A request that expire_request, fail_request or _process_one builds is a row,
\* and so is what the UPDATE of a save leaves.
LEMMA RowsMade ==
    ASSUME NEW r \in Row
    PROVE  /\ Expired(r) \in Row
           /\ Failed(r) \in Row
           /\ Failed(r).status = "failed"
           /\ \A s \in Status, k \in Exports \cup {None}, x \in Nat \cup {None} :
                 [r EXCEPT !.status = s, !.key = k, !.exp = x] \in Row
<1>1. r = [id |-> r.id, subject |-> r.subject, status |-> r.status,
           key |-> r.key, exp |-> r.exp]
  BY DEF Row
<1> QED
  BY <1>1 DEF Row, Expired, Failed, Status

\* The flush keeps the row's id, and its status is the one asked for, or the
\* row's own where the save saw no change.
LEMMA RowsMerged ==
    ASSUME NEW base \in Row, NEW old \in Row, NEW new \in Row
    PROVE  /\ Merge(base, old, new) \in Row
           /\ Merge(base, old, new).id = base.id
           /\ Merge(base, old, new).status =
                 IF new.status # old.status THEN new.status ELSE base.status
<1>1. PICK s : s = IF new.status # old.status THEN new.status ELSE base.status
  OBVIOUS
<1>2. PICK k : k = IF new.key # old.key THEN new.key ELSE base.key
  OBVIOUS
<1>3. PICK x : x = IF new.exp # old.exp THEN new.exp ELSE base.exp
  OBVIOUS
<1>4. s \in Status /\ k \in Exports \cup {None} /\ x \in Nat \cup {None}
  BY <1>1, <1>2, <1>3 DEF Row
<1>5. base = [id |-> base.id, subject |-> base.subject, status |-> base.status,
              key |-> base.key, exp |-> base.exp]
  BY DEF Row
<1>6. Merge(base, old, new) = [base EXCEPT !.status = s, !.key = k, !.exp = x]
  BY <1>1, <1>2, <1>3, <1>5 DEF Merge
<1>7. PICK r : r = [base EXCEPT !.status = s, !.key = k, !.exp = x]
  OBVIOUS
<1>8. r.id = base.id /\ r.subject = base.subject /\ r.status = s /\ r.key = k /\ r.exp = x
  BY <1>5, <1>7
<1>9. r \in Row
  BY <1>4, <1>7 DEF Row
<1> QED
  BY <1>1, <1>6, <1>7, <1>8, <1>9

\* The rows before any request are rows.
LEMMA RowsAbsent == \A e \in Exports : AbsentRow(e) \in Row /\ AbsentRow(e).id = e
  BY DEF AbsentRow, Row, Status
-------------------------------------------------------------------------------
(* The parts that actions share.                                             *)

\* Taking a row from the batch.
LEMMA TypedTake ==
    ASSUME Typed, NEW a \in Actors, NEW r \in batch[a], NEW w \in Row \cup {NoRow},
           NEW phase \in Phase, Take(a, r, w, phase), phase \in {"drop", "get"} => w \in Row,
           phase # "flush"
    PROVE  /\ pc' \in [Actors -> Phase]
           /\ batch' \in [Actors -> SUBSET Row]
           /\ cur' \in [Actors -> Row \cup {NoRow}]
           /\ want' \in [Actors -> Row \cup {NoRow}]
           /\ seen' = seen => Busy'
<1> r \in Row
  BY DEF Typed, TypeOK
<1> QED
  BY DEF Typed, TypeOK, Take, Goto, Busy

\* The end of a transaction.
LEMMA TypedClose ==
    ASSUME Typed, NEW a \in Actors, Close(a)
    PROVE  /\ pc' \in [Actors -> Phase] /\ job' \in [Actors -> Job]
           /\ batch' \in [Actors -> SUBSET Row]
           /\ cur' \in [Actors -> Row \cup {NoRow}]
           /\ want' \in [Actors -> Row \cup {NoRow}]
           /\ seen' \in [Actors -> Row \cup {NoRow}]
           /\ drafts' \in [Actors -> SUBSET (Exports \X EventType)]
           /\ lock' \in [Exports -> Actors \cup {None}]
           /\ Busy'
<1>1. lock' \in [Exports -> Actors \cup {None}]
  BY DEF Close, ReleaseLocks
<1>2. Busy'
  BY DEF Typed, TypeOK, Close, Goto, Busy
<1> QED
  BY <1>1, <1>2 DEF Typed, TypeOK, Close, Goto, Phase, Job

\* A step on the disk, with the same snapshot in hand and perhaps a request to save.
LEMMA TypedOnDisk ==
    ASSUME Typed, NEW a \in Actors, NEW w \in Row \cup {NoRow}, NEW phase \in Phase,
           Goto(a, phase), want' = [want EXCEPT ![a] = w], cur[a] \in Row,
           phase \in {"drop", "get"} => w \in Row, phase # "flush",
           disk' \in [Exports -> File],
           UNCHANGED <<now, minted, aborts, job, batch, cur, seen, store>>
    PROVE  Typed'
<1>1. TypeOK'
  BY DEF Typed, TypeOK, Goto, store
<1>2. Ids' /\ Busy'
  BY DEF Typed, TypeOK, Ids, Busy, Goto, store
<1> QED
  BY <1>1, <1>2 DEF Typed

\* A commit copies rows that are typed ...
LEMMA TypedCommitTx ==
    ASSUME Typed, NEW a \in Actors, CommitTx(a), UNCHANGED <<disk, now, minted>>,
           aborts' \in Nat
    PROVE  Typed'
<1> USE DEF Typed
<1>1. rows' \in [Exports -> Row] /\ Ids'
  BY DEF CommitTx, Visible, TypeOK, Ids
<1>2. events' \in [Exports -> [EventType -> Nat]]
  BY DEF CommitTx, TypeOK
<1>3. Close(a) /\ work' = work
  BY DEF CommitTx
<1> QED
  BY <1>1, <1>2, <1>3, TypedClose DEF TypeOK

\* ... and so does a rollback.
LEMMA TypedRollbackTx ==
    ASSUME Typed, NEW a \in Actors, RollbackTx(a), UNCHANGED <<now, minted>>,
           disk' \in [Exports -> File], aborts' \in Nat
    PROVE  Typed'
<1> USE DEF Typed
<1>1. work' \in [Exports -> Row] /\ Ids'
  BY DEF RollbackTx, TypeOK, Ids
<1>2. Close(a) /\ UNCHANGED <<rows, events>>
  BY DEF RollbackTx
<1> QED
  BY <1>1, <1>2, TypedClose DEF TypeOK

\* A write puts one row of the right type into the table.
LEMMA TypedWrite ==
    ASSUME Typed, NEW a \in Actors, NEW r \in Row, NEW ts \in SUBSET EventType,
           Write(a, r, ts)
    PROVE  /\ rows' \in [Exports -> Row] /\ work' \in [Exports -> Row]
           /\ events' \in [Exports -> [EventType -> Nat]]
           /\ lock' \in [Exports -> Actors \cup {None}]
           /\ drafts' \in [Actors -> SUBSET (Exports \X EventType)]
           /\ Ids'
<1>1. r.id \in Exports
  BY DEF Row
<1> QED
  BY <1>1 DEF Typed, TypeOK, Ids, Write

\* The tables and all tasks are empty at first.
LEMMA TypedInit == Init => Typed
<1> SUFFICES ASSUME Init PROVE Typed
  OBVIOUS
<1>1. TypeOK
  <2>1. rows \in [Exports -> Row] /\ work \in [Exports -> Row]
    BY RowsAbsent DEF Init
  <2> QED
    BY <2>1, BoundsAssumption DEF Init, TypeOK, File, EventType, Phase, Job
<1>2. Ids
  BY RowsAbsent DEF Init, Ids
<1>3. Busy
  BY DEF Init, Busy
<1> QED
  BY <1>1, <1>2, <1>3 DEF Typed
-------------------------------------------------------------------------------
(* The type invariant is inductive.                                          *)

\* A task starts with snapshots of committed rows.
LEMMA TypedStarts ==
    ASSUME Typed, NEW a \in Actors,
           \/ \E u \in Users : CreateDataExport(a, u) \/ StartErase(a, u)
           \/ \E u \in Users, e \in Exports, route \in Routes : LookUp(a, u, e, route)
           \/ StartPoll(a)
    PROVE  Typed'
<1> USE DEF Typed
<1>1. ASSUME NEW u \in Users, CreateDataExport(a, u) PROVE Typed'
  <2> DEFINE f == minted + 1
             p == [id |-> f, subject |-> u, status |-> "pending",
                   key |-> None, exp |-> None]
  <2>1. f \in Exports /\ f \in 0 .. MaxExports
    BY <1>1, BoundsAssumption DEF CreateDataExport, TypeOK, Exports
  <2>2. p \in Row /\ [p EXCEPT !.status = "processing"] \in Row
    BY <2>1 DEF Row, Status
  <2>3. {"created"} \in SUBSET EventType /\ {"created", "started"} \in SUBSET EventType
    BY DEF EventType
  <2>4. /\ UNCHANGED <<disk, now, aborts, batch, want, seen>>
        /\ minted' = f /\ job' = [job EXCEPT ![a] = "create"]
    BY <1>1 DEF CreateDataExport
  <2>5. PICK q \in {p, [p EXCEPT !.status = "processing"]}, ts \in SUBSET EventType,
             phase \in {"commit", "open"} :
          /\ Write(a, q, ts) /\ Goto(a, phase)
          /\ \/ phase = "commit" /\ UNCHANGED cur
             \/ cur' = [cur EXCEPT ![a] = p]
    BY <1>1, <2>3 DEF CreateDataExport
  <2>6. Ids' /\ rows' \in [Exports -> Row] /\ work' \in [Exports -> Row]
        /\ events' \in [Exports -> [EventType -> Nat]]
        /\ lock' \in [Exports -> Actors \cup {None}]
        /\ drafts' \in [Actors -> SUBSET (Exports \X EventType)]
    BY <2>2, <2>5, TypedWrite
  <2>7. pc' \in [Actors -> Phase] /\ job' \in [Actors -> Job]
        /\ cur' \in [Actors -> Row \cup {NoRow}]
    <3>1. pc' \in [Actors -> Phase]
      BY <2>5 DEF TypeOK, Goto, Phase
    <3>2. job' \in [Actors -> Job]
      BY <2>4 DEF TypeOK, Job
    <3>3. cur' \in [Actors -> Row \cup {NoRow}]
      BY <2>2, <2>5 DEF TypeOK
    <3> QED
      BY <3>1, <3>2, <3>3
  <2>8. TypeOK'
    BY <2>1, <2>4, <2>6, <2>7 DEF TypeOK
  <2>9. Busy'
    BY <2>2, <2>4, <2>5 DEF TypeOK, Goto, Busy
  <2> QED
    BY <2>6, <2>8, <2>9
<1>2. ASSUME NEW u \in Users, NEW e \in Exports, NEW route \in Routes,
             LookUp(a, u, e, route)
      PROVE  Typed'
  <2>1. route \in Job
    BY BoundsAssumption DEF Job
  <2> QED
    BY <1>2, <2>1 DEF LookUp, TypeOK, Ids, Busy, Goto, Phase, store
<1>3. CASE StartPoll(a)
  <2>1. PICK page : page \subseteq {rows[f] : f \in Exports}
                    /\ batch' = [batch EXCEPT ![a] = page]
    BY <1>3 DEF StartPoll
  <2>2. page \in SUBSET Row
    BY <2>1 DEF TypeOK
  <2> QED
    BY <1>3, <2>1, <2>2 DEF StartPoll, TypeOK, Ids, Busy, Goto, Phase, store
<1>4. ASSUME NEW u \in Users, StartErase(a, u) PROVE Typed'
  <2>1. {r \in {rows[f] : f \in Exports} : r.subject = u} \in SUBSET Row
    BY DEF TypeOK
  <2> QED
    BY <1>4, <2>1 DEF StartErase, TypeOK, Ids, Busy, Goto, Phase, store
<1> QED
  BY <1>1, <1>2, <1>3, <1>4

\* The steps that read the lists and the disk: rows stay as they are.
LEMMA TypedReads ==
    ASSUME Typed, NEW a \in Actors,
           \/ ReconcileReadyRequest(a) \/ ProbeArtifact(a) \/ ListPending(a)
           \/ ProcessOne(a) \/ EraseForUser(a) \/ DropArtifact(a)
           \/ AuthoriseDownload(a) \/ StreamArtifact(a)
    PROVE  Typed'
<1> USE DEF Typed
<1>1. CASE ReconcileReadyRequest(a)
  <2>1. PICK r \in batch[a] :
          CASE r.status # "ready"    -> Take(a, r, NoRow, AfterReconcile(a, r.status))
            [] IsRequestExpired(r)   -> Take(a, r, Expired(r), "drop")
            [] OTHER                 -> Take(a, r, NoRow, "probe")
    BY <1>1 DEF ReconcileReadyRequest
  <2>2. r \in Row /\ Expired(r) \in Row
    BY RowsMade DEF TypeOK
  <2>3. AfterReconcile(a, r.status) \in {"reconcile", "commit", "authorise", "rollback"}
    BY DEF AfterReconcile
  <2>4. \E w \in Row \cup {NoRow}, phase \in Phase :
          /\ Take(a, r, w, phase) /\ phase # "flush"
          /\ phase \in {"drop", "get"} => w \in Row
    BY <2>1, <2>2, <2>3 DEF Phase
  <2> QED
    BY <1>1, <2>4, TypedTake DEF ReconcileReadyRequest, TypeOK, Ids, store
<1>2. CASE ProbeArtifact(a)
  <2>1. cur[a] \in Row /\ Failed(cur[a]) \in Row
    BY <1>2, RowsMade DEF ProbeArtifact, Busy
  <2>2. AfterReconcile(a, "ready") \in {"reconcile", "commit", "authorise", "rollback"}
    BY DEF AfterReconcile
  <2>3. want = [want EXCEPT ![a] = want[a]] /\ want[a] \in Row \cup {NoRow}
    BY DEF TypeOK
  <2>4. UNCHANGED <<disk, now, minted, aborts, job, batch, cur, seen, store>>
    BY <1>2 DEF ProbeArtifact
  <2>5. CASE Goto(a, AfterReconcile(a, "ready")) /\ UNCHANGED want
    BY <2>1, <2>2, <2>3, <2>4, <2>5, TypedOnDisk DEF Phase, TypeOK
  <2>6. CASE want' = [want EXCEPT ![a] = Failed(cur[a])] /\ Goto(a, "drop")
    BY <2>1, <2>4, <2>6, TypedOnDisk DEF Phase, TypeOK
  <2> QED
    BY <1>2, <2>5, <2>6 DEF ProbeArtifact
<1>3. CASE ListPending(a)
  <2>1. PICK page : page \subseteq {Visible(a, e) : e \in Exports}
                    /\ batch' = [batch EXCEPT ![a] = page]
    BY <1>3 DEF ListPending
  <2>2. \A e \in Exports : Visible(a, e) \in Row
    BY DEF TypeOK, Visible
  <2>3. page \in SUBSET Row
    BY <2>1, <2>2
  <2> QED
    BY <1>3, <2>1, <2>3 DEF ListPending, TypeOK, Ids, Busy, Goto, Phase, store
<1>4. CASE ProcessOne(a)
  <2>1. CASE batch[a] = {} /\ Goto(a, "commit") /\ UNCHANGED <<cur, want, batch>>
    BY <1>4, <2>1 DEF ProcessOne, TypeOK, Ids, Busy, Goto, Phase, store
  <2>2. ASSUME NEW r \in batch[a],
               Take(a, r, [r EXCEPT !.status = "processing", !.key = None,
                                    !.exp = None], "get")
        PROVE  Typed'
    <3>1. [r EXCEPT !.status = "processing", !.key = None, !.exp = None] \in Row
      BY RowsMade DEF TypeOK, Status
    <3> QED
      BY <1>4, <2>2, <3>1, TypedTake DEF ProcessOne, TypeOK, Ids, Phase, store
  <2> QED
    BY <1>4, <2>1, <2>2 DEF ProcessOne
<1>5. CASE EraseForUser(a)
  <2>1. CASE batch[a] = {} /\ Goto(a, "commit") /\ UNCHANGED <<cur, want, batch>>
    BY <1>5, <2>1 DEF EraseForUser, TypeOK, Ids, Busy, Goto, Phase, store
  <2>2. ASSUME NEW r \in batch[a],
               Take(a, r, [r EXCEPT !.status = "expired", !.key = None,
                                    !.exp = None], "drop")
        PROVE  Typed'
    <3>1. [r EXCEPT !.status = "expired", !.key = None, !.exp = None] \in Row
      BY RowsMade DEF TypeOK, Status
    <3> QED
      BY <1>5, <2>2, <3>1, TypedTake DEF EraseForUser, TypeOK, Ids, Phase, store
  <2> QED
    BY <1>5, <2>1, <2>2 DEF EraseForUser
<1>6. CASE DropArtifact(a)
  <2>1. disk' \in [Exports -> File]
    BY <1>6 DEF DropArtifact, TypeOK, File
  <2> QED
    BY <1>6, <2>1 DEF DropArtifact, TypeOK, Ids, Busy, Goto, Phase, local, store
<1>7. CASE AuthoriseDownload(a)
  <2>1. cur[a] \in Row /\ Failed(cur[a]) \in Row
    BY <1>7, RowsMade DEF AuthoriseDownload, Busy
  <2>2. want = [want EXCEPT ![a] = want[a]] /\ want[a] \in Row \cup {NoRow}
    BY DEF TypeOK
  <2> QED
    BY <1>7, <2>1, <2>2, TypedOnDisk DEF AuthoriseDownload, Phase, TypeOK
<1>8. CASE StreamArtifact(a)
  BY <1>8 DEF StreamArtifact, TypeOK, Ids, Busy, Goto, Phase, local, store
<1> QED
  BY <1>1, <1>2, <1>3, <1>4, <1>5, <1>6, <1>7, <1>8

\* The steps of save() and of the artifact's writer.
LEMMA TypedWrites ==
    ASSUME Typed, NEW a \in Actors,
           \/ SaveGet(a) \/ SaveFlush(a) \/ OpenArtifact(a) \/ WriteArtifact(a)
    PROVE  Typed'
<1> USE DEF Typed
<1>1. CASE SaveGet(a)
  <2>1. cur[a] \in Row /\ want[a] \in Row
    BY <1>1 DEF SaveGet, Busy
  <2>2. Visible(a, cur[a].id) \in Row
    BY <2>1 DEF Visible, TypeOK, Row
  <2> QED
    BY <1>1, <2>1, <2>2 DEF SaveGet, TypeOK, Ids, Busy, Goto, Phase, store
<1>2. CASE SaveFlush(a)
  <2> DEFINE e == cur[a].id
             r == Merge(work[e], seen[a], want[a])
             ts == LifecycleEvents(seen[a].status, want[a].status)
  <2>1. cur[a] \in Row /\ want[a] \in Row /\ seen[a] \in Row /\ e \in Exports
    BY <1>2 DEF SaveFlush, Busy, Row
  <2>2. r \in Row
    BY <2>1, RowsMerged DEF TypeOK
  <2>3. ts \in SUBSET EventType
    BY DEF LifecycleEvents, EventType
  <2>4. Write(a, r, ts)
    BY <1>2 DEF SaveFlush
  <2>5. AfterSave(a) \in Phase /\ AfterSave(a) \notin {"drop", "get", "flush", "write",
                                                       "probe", "authorise", "stream"}
        /\ (AfterSave(a) = "open" => want[a].status = "processing")
    BY DEF AfterSave, Phase
  <2>6. TypeOK' /\ Ids'
    BY <1>2, <2>1, <2>2, <2>3, <2>4, <2>5, TypedWrite DEF SaveFlush, TypeOK, Goto
  <2>7. Busy'
    BY <1>2, <2>1, <2>5 DEF SaveFlush, TypeOK, Busy, Goto
  <2> QED
    BY <2>6, <2>7
<1> DEFINE ready == [cur[a] EXCEPT !.status = "ready", !.key = cur[a].id,
                                   !.exp = now + ExpiryHours]
<1>3. ASSUME pc[a] \in {"open", "write"}
      PROVE  /\ cur[a] \in Row /\ cur[a].id \in Exports
             /\ Failed(cur[a]) \in Row /\ ready \in Row
             /\ want = [want EXCEPT ![a] = want[a]] /\ want[a] \in Row \cup {NoRow}
             /\ \A file \in File : [disk EXCEPT ![cur[a].id] = file] \in [Exports -> File]
  <2>1. cur[a] \in Row /\ cur[a].id \in Exports
    BY <1>3 DEF Busy, Row
  <2>2. now + ExpiryHours \in Nat
    BY BoundsAssumption DEF TypeOK
  <2> QED
    BY <2>1, <2>2, RowsMade DEF TypeOK, Status
<1>4. CASE OpenArtifact(a)
  <2>1. CASE ExportFails(a) /\ UNCHANGED disk
    BY <1>3, <1>4, <2>1, TypedOnDisk DEF OpenArtifact, ExportFails, Phase, TypeOK
  <2>2. CASE /\ disk' = [disk EXCEPT ![cur[a].id] = "partial"]
             /\ Goto(a, "write") /\ UNCHANGED want
    BY <1>3, <1>4, <2>2, TypedOnDisk DEF OpenArtifact, Phase, File
  <2> QED
    BY <1>4, <2>1, <2>2 DEF OpenArtifact
<1>5. CASE WriteArtifact(a)
  <2>1. CASE ExportFails(a) /\ UNCHANGED disk
    BY <1>3, <1>5, <2>1, TypedOnDisk DEF WriteArtifact, ExportFails, Phase, TypeOK
  <2>2. CASE /\ disk' = [disk EXCEPT ![cur[a].id] = "whole"]
             /\ want' = [want EXCEPT ![a] = ready] /\ Goto(a, "get")
    BY <1>3, <1>5, <2>2, TypedOnDisk DEF WriteArtifact, Phase, File
  <2> QED
    BY <1>5, <2>1, <2>2 DEF WriteArtifact
<1> QED
  BY <1>1, <1>2, <1>4, <1>5

\* A task ends with nothing in hand.
LEMMA TypedEnds ==
    ASSUME Typed, NEW a \in Actors,
           Commit(a) \/ Rollback(a) \/ Abort(a) \/ DeadlockVictim(a)
    PROVE  Typed'
<1>1. CASE Commit(a)
  BY <1>1, TypedCommitTx DEF Commit, Typed, TypeOK
<1>2. CASE Rollback(a)
  BY <1>2, TypedRollbackTx DEF Rollback, Typed, TypeOK
<1>3. CASE Abort(a)
  <2>1. disk' \in [Exports -> File]
    BY <1>3 DEF Abort, Typed, TypeOK, File
  <2> QED
    BY <1>3, <2>1, TypedRollbackTx DEF Abort, Typed, TypeOK
<1>4. CASE DeadlockVictim(a)
  BY <1>4, TypedRollbackTx DEF DeadlockVictim, Typed, TypeOK
<1> QED
  BY <1>1, <1>2, <1>3, <1>4

\* Next is one of the groups of steps above, or time passes.
LEMMA NextGroups ==
    ASSUME Next
    PROVE  \/ \E a \in Actors, u \in Users : CreateDataExport(a, u) \/ StartErase(a, u)
           \/ \E a \in Actors, u \in Users, e \in Exports, route \in Routes :
                 LookUp(a, u, e, route)
           \/ \E a \in Actors : StartPoll(a)
           \/ \E a \in Actors :
                 \/ ReconcileReadyRequest(a) \/ ProbeArtifact(a) \/ ListPending(a)
                 \/ ProcessOne(a) \/ EraseForUser(a) \/ DropArtifact(a)
                 \/ AuthoriseDownload(a) \/ StreamArtifact(a)
           \/ \E a \in Actors :
                 SaveGet(a) \/ SaveFlush(a) \/ OpenArtifact(a) \/ WriteArtifact(a)
           \/ \E a \in Actors :
                 Commit(a) \/ Rollback(a) \/ Abort(a) \/ DeadlockVictim(a)
           \/ Tick
  BY DEF Next, Step

\* Every step keeps the types.
LEMMA TypedNext == Typed /\ [Next]_vars => Typed'
<1> SUFFICES ASSUME Typed, [Next]_vars PROVE Typed'
  OBVIOUS
<1>1. CASE UNCHANGED vars
  BY <1>1 DEF Typed, TypeOK, Ids, Busy, vars
<1>2. CASE Tick
  BY <1>2, BoundsAssumption DEF Tick, Typed, TypeOK, Ids, Busy, local, store
<1>3. CASE Next
  BY <1>2, <1>3, NextGroups, TypedStarts, TypedReads, TypedWrites, TypedEnds
<1> QED
  BY <1>1, <1>3

\* Every variable keeps its type, whatever requests, polls, erasures and faults
\* there are and in whatever order they take their steps: the code never puts
\* into a row, a list or a local variable what the next statement cannot handle.
THEOREM TypeCorrect == Spec => []TypeOK
<1>1. Typed => TypeOK
  BY DEF Typed
<1> QED
  BY <1>1, TypedInit, TypedNext, PTL DEF Spec
-------------------------------------------------------------------------------
(* No committed processing.                                                  *)

\* A step of a leaves the other tasks where they are.
OthersStay(a) ==
    \A b \in Actors \ {a} :
        pc'[b] = pc[b] /\ cur'[b] = cur[b] /\ want'[b] = want[b] /\ seen'[b] = seen[b]

\* A task that has no processing row in hand may do anything but write.
LEMMA OwnedElsewhere ==
    ASSUME IInv, NEW a \in Actors, OthersStay(a), UNCHANGED store,
           pc[a] \notin {"open", "write", "get", "flush", "rollback"}, pc'[a] # "flush"
    PROVE  Owned'
<1> USE DEF IInv, Owned
<1>1. NoCommittedProcessing'
  BY DEF NoCommittedProcessing, store
<1>2. ProcessingIsInHand'
  <2> SUFFICES ASSUME NEW e \in Exports, work[e].status = "processing"
               PROVE  \E b \in Actors : lock[e] = b /\ InHand(b, e)'
    BY DEF ProcessingIsInHand, store
  <2>1. PICK b \in Actors : lock[e] = b /\ InHand(b, e)
    BY DEF ProcessingIsInHand
  <2>2. b # a
    BY <2>1 DEF InHand
  <2> QED
    BY <2>1, <2>2 DEF InHand, OthersStay
<1>3. ProcessingIsSeen'
  BY DEF ProcessingIsSeen, OthersStay, store
<1> QED
  BY <1>1, <1>2, <1>3

\* The end of a transaction does not move the others.
LEMMA OthersStayAtClose ==
    ASSUME Typed, NEW a \in Actors, Close(a)
    PROVE  /\ OthersStay(a) /\ pc'[a] = "idle"
           /\ \A e \in Exports : lock[e] # a => lock'[e] = lock[e]
           /\ \A e \in Exports : lock[e] = a => lock'[e] # a
<1>1. OthersStay(a) /\ pc'[a] = "idle"
  BY DEF Typed, TypeOK, Close, Goto, OthersStay
<1>2. \A e \in Exports : lock[e] # a => lock'[e] = lock[e]
  BY DEF Close, ReleaseLocks
<1>3. \A e \in Exports : lock[e] = a => lock'[e] # a
  BY NoneAssumption DEF Close, ReleaseLocks, Waiters
<1> QED
  BY <1>1, <1>2, <1>3

\* No owner of a processing row can commit, ...
LEMMA OwnedAtCommit ==
    ASSUME IInv, NEW a \in Actors, Commit(a)
    PROVE  Owned'
<1> USE DEF IInv, Owned
<1>1. pc[a] = "commit" /\ Close(a) /\ work' = work
      /\ rows' = [e \in Exports |-> Visible(a, e)]
  BY DEF Commit, CommitTx
<1>2. \A e \in Exports : lock[e] = a => work[e].status # "processing"
  BY <1>1 DEF ProcessingIsInHand, InHand
<1>3. NoCommittedProcessing'
  BY <1>1, <1>2 DEF NoCommittedProcessing, Visible
<1>4. ProcessingIsInHand'
  <2> SUFFICES ASSUME NEW e \in Exports, work[e].status = "processing"
               PROVE  \E b \in Actors : lock'[e] = b /\ InHand(b, e)'
    BY <1>1 DEF ProcessingIsInHand
  <2>1. PICK b \in Actors : lock[e] = b /\ InHand(b, e)
    BY DEF ProcessingIsInHand
  <2>2. b # a
    BY <1>1, <2>1 DEF InHand
  <2> QED
    BY <1>1, <2>1, <2>2, OthersStayAtClose DEF InHand, OthersStay
<1>5. ProcessingIsSeen'
  <2> SUFFICES ASSUME NEW b \in Actors, NEW e \in Exports, pc'[b] = "flush",
                      cur'[b].id = e, lock'[e] = b, work[e].status = "processing"
               PROVE  seen'[b].status = "processing"
    BY <1>1 DEF ProcessingIsSeen
  <2>1. b # a /\ lock[e] # a
    BY <1>1, <1>2, OthersStayAtClose
  <2> QED
    BY <1>1, <2>1, OthersStayAtClose DEF ProcessingIsSeen, OthersStay
<1> QED
  BY <1>3, <1>4, <1>5

\* ... a rollback puts back a row that is not in processing, ...
LEMMA OwnedAtRollback ==
    ASSUME IInv, NEW a \in Actors, RollbackTx(a)
    PROVE  Owned'
<1> USE DEF IInv, Owned
<1>1. Close(a) /\ rows' = rows
      /\ work' = [e \in Exports |-> IF lock[e] = a THEN rows[e] ELSE work[e]]
  BY DEF RollbackTx
<1>2. NoCommittedProcessing'
  BY <1>1 DEF NoCommittedProcessing
<1>3. \A e \in Exports : work'[e].status = "processing" =>
                            lock[e] # a /\ work'[e] = work[e]
  BY <1>1 DEF NoCommittedProcessing
<1>4. ProcessingIsInHand'
  <2> SUFFICES ASSUME NEW e \in Exports, work'[e].status = "processing"
               PROVE  \E b \in Actors : lock'[e] = b /\ InHand(b, e)'
    BY DEF ProcessingIsInHand
  <2>1. PICK b \in Actors : lock[e] = b /\ InHand(b, e)
    BY <1>3 DEF ProcessingIsInHand
  <2> QED
    BY <1>1, <1>3, <2>1, OthersStayAtClose DEF InHand, OthersStay
<1>5. ProcessingIsSeen'
  <2> SUFFICES ASSUME NEW b \in Actors, NEW e \in Exports, pc'[b] = "flush",
                      cur'[b].id = e, lock'[e] = b, work'[e].status = "processing"
               PROVE  seen'[b].status = "processing"
    BY DEF ProcessingIsSeen
  <2>1. b # a /\ lock[e] # a /\ work'[e] = work[e]
    BY <1>1, <1>3, OthersStayAtClose
  <2> QED
    BY <1>1, <2>1, OthersStayAtClose DEF ProcessingIsSeen, OthersStay
<1> QED
  BY <1>2, <1>4, <1>5

\* Between the statements of a save, and of the artifact's writer, the row that
\* is in hand stays in hand.
LEMMA OwnedStillInHand ==
    ASSUME IInv, NEW a \in Actors, OthersStay(a), UNCHANGED store,
           \A e \in Exports : InHand(a, e) => InHand(a, e)',
           pc'[a] = "flush" =>
              \A e \in Exports : cur'[a].id = e /\ lock[e] = a => seen'[a] = work[e]
    PROVE  Owned'
<1> USE DEF IInv, Owned
<1>1. NoCommittedProcessing'
  BY DEF NoCommittedProcessing, store
<1>2. ProcessingIsInHand'
  <2> SUFFICES ASSUME NEW e \in Exports, work[e].status = "processing"
               PROVE  \E b \in Actors : lock[e] = b /\ InHand(b, e)'
    BY DEF ProcessingIsInHand, store
  <2>1. PICK b \in Actors : lock[e] = b /\ InHand(b, e)
    BY DEF ProcessingIsInHand
  <2>2. InHand(b, e)'
    BY <2>1 DEF InHand, OthersStay
  <2> QED
    BY <2>1, <2>2
<1>3. ProcessingIsSeen'
  BY DEF ProcessingIsSeen, OthersStay, store
<1> QED
  BY <1>1, <1>2, <1>3

\* ... save() reads the processing that its own transaction wrote, ...
LEMMA OwnedAtSaveGet ==
    ASSUME IInv, NEW a \in Actors, SaveGet(a)
    PROVE  Owned'
<1>1. OthersStay(a) /\ pc'[a] = "flush" /\ UNCHANGED <<cur, want, store>>
  BY DEF IInv, Typed, TypeOK, SaveGet, Goto, OthersStay
<1>2. \A e \in Exports : InHand(a, e) => InHand(a, e)'
  BY <1>1 DEF SaveGet, InHand
<1>3. seen'[a] = Visible(a, cur[a].id)
  BY DEF IInv, Typed, TypeOK, SaveGet
<1> QED
  BY <1>1, <1>2, <1>3, OwnedStillInHand DEF Visible

\* ... and while the file is written the row stays in hand.
LEMMA OwnedWhileWriting ==
    ASSUME IInv, NEW a \in Actors, OpenArtifact(a) \/ WriteArtifact(a)
    PROVE  Owned'
<1>1. OthersStay(a) /\ pc'[a] # "flush" /\ UNCHANGED <<cur, store>>
  BY DEF IInv, Typed, TypeOK, OpenArtifact, WriteArtifact, ExportFails, Goto, OthersStay
<1>2. \/ pc'[a] \in {"write", "rollback"}
      \/ pc'[a] = "get" /\ want'[a].status \in {"ready", "failed"}
  <2>1. cur[a] \in Row /\ pc \in [Actors -> Phase] /\ want \in [Actors -> Row \cup {NoRow}]
    BY DEF IInv, Typed, TypeOK, Busy, OpenArtifact, WriteArtifact
  <2>2. /\ Failed(cur[a]).status = "failed"
        /\ [cur[a] EXCEPT !.status = "ready", !.key = cur[a].id,
                          !.exp = now + ExpiryHours].status = "ready"
    BY <2>1, RowsMade DEF Row
  <2> QED
    BY <2>1, <2>2 DEF OpenArtifact, WriteArtifact, ExportFails, Goto
<1>3. \A e \in Exports : InHand(a, e) => InHand(a, e)'
  BY <1>1, <1>2 DEF InHand, OpenArtifact, WriteArtifact
<1> QED
  BY <1>1, <1>3, OwnedStillInHand

\* A write to a row that is the writer's to write.
LEMMA OwnedAtWrite ==
    ASSUME IInv, NEW a \in Actors, NEW r \in Row, NEW ts \in SUBSET EventType,
           Write(a, r, ts), OthersStay(a), pc'[a] # "flush",
           r.status = "processing" => InHand(a, r.id)',
           \A e \in Exports \ {r.id} : ~ InHand(a, e)
    PROVE  Owned'
<1> USE DEF IInv, Owned
<1>1. /\ r.id \in Exports /\ rows' = rows
      /\ work'[r.id] = r /\ lock'[r.id] = a
      /\ \A e \in Exports \ {r.id} : work'[e] = work[e] /\ lock'[e] = lock[e]
  BY DEF Write, Row, Typed, TypeOK
<1>2. NoCommittedProcessing'
  BY <1>1 DEF NoCommittedProcessing
<1>3. ProcessingIsInHand'
  <2> SUFFICES ASSUME NEW e \in Exports, work'[e].status = "processing"
               PROVE  \E b \in Actors : lock'[e] = b /\ InHand(b, e)'
    BY DEF ProcessingIsInHand
  <2>1. CASE e = r.id
    BY <1>1, <2>1
  <2>2. CASE e # r.id
    <3>1. PICK b \in Actors : lock[e] = b /\ InHand(b, e)
      BY <1>1, <2>2 DEF ProcessingIsInHand
    <3> QED
      BY <1>1, <2>2, <3>1 DEF InHand, OthersStay
  <2> QED
    BY <2>1, <2>2
<1>4. ProcessingIsSeen'
  BY <1>1 DEF ProcessingIsSeen, OthersStay
<1> QED
  BY <1>2, <1>3, <1>4

\* A direct export writes processing and has it in hand at once.
LEMMA OwnedAtCreate ==
    ASSUME IInv, NEW a \in Actors, NEW u \in Users, CreateDataExport(a, u)
    PROVE  Owned'
<1>1. minted + 1 \in Exports
  BY BoundsAssumption DEF IInv, Typed, TypeOK, CreateDataExport, Exports
<1>2. PICK f \in Exports : f = minted + 1
  BY <1>1
<1> DEFINE p == [id |-> f, subject |-> u, status |-> "pending",
                 key |-> None, exp |-> None]
           q == [p EXCEPT !.status = "processing"]
<1>3. /\ pc[a] = "idle" /\ UNCHANGED <<want, seen>>
      /\ \/ Write(a, p, {"created"}) /\ Goto(a, "commit") /\ UNCHANGED cur
         \/ /\ Write(a, q, {"created", "started"})
            /\ cur' = [cur EXCEPT ![a] = p] /\ Goto(a, "open")
  BY <1>2 DEF CreateDataExport
<1>4. p \in Row /\ q \in Row /\ p.id = f /\ q.id = f /\ p.status = "pending"
  BY DEF Row, Status
<1>5. \A e \in Exports : ~ InHand(a, e)
  BY <1>3 DEF InHand
<1>6. {"created"} \in SUBSET EventType /\ {"created", "started"} \in SUBSET EventType
  BY DEF EventType
<1>7. CASE Write(a, p, {"created"}) /\ Goto(a, "commit") /\ UNCHANGED cur
  <2>1. OthersStay(a) /\ pc'[a] # "flush"
    BY <1>3, <1>7 DEF IInv, Typed, TypeOK, Goto, OthersStay
  <2> HIDE DEF p
  <2> QED
    BY <1>4, <1>5, <1>6, <1>7, <2>1, OwnedAtWrite
<1>8. CASE /\ Write(a, q, {"created", "started"})
           /\ cur' = [cur EXCEPT ![a] = p] /\ Goto(a, "open")
  <2>1. OthersStay(a) /\ pc'[a] = "open" /\ cur'[a] = p
    BY <1>3, <1>8 DEF IInv, Typed, TypeOK, Goto, OthersStay
  <2>2. InHand(a, f)'
    BY <1>4, <2>1 DEF InHand
  <2> HIDE DEF q
  <2> QED
    BY <1>4, <1>5, <1>6, <1>8, <2>1, <2>2, OwnedAtWrite
<1> QED
  BY <1>3, <1>7, <1>8

\* The one save that may find processing in the row is the one that ends it.
LEMMA OwnedAtSaveFlush ==
    ASSUME IInv, NEW a \in Actors, SaveFlush(a)
    PROVE  Owned'
<1>0. PICK e \in Exports : e = cur[a].id
  BY DEF IInv, Typed, Busy, SaveFlush, Row
<1>1. /\ want[a] \in Row /\ seen[a] \in Row
      /\ work[e] \in Row /\ work[e].id = e
  BY DEF IInv, Typed, TypeOK, Ids, Busy, SaveFlush
<1>2. PICK r \in Row :
        /\ r = Merge(work[e], seen[a], want[a]) /\ r.id = e
        /\ r.status = IF want[a].status # seen[a].status THEN want[a].status
                                                        ELSE work[e].status
  BY <1>1, RowsMerged
<1>3. PICK ts \in SUBSET EventType : ts = LifecycleEvents(seen[a].status, want[a].status)
  BY DEF LifecycleEvents, EventType
<1>4. Write(a, r, ts) /\ pc[a] = "flush" /\ lock[e] \in {None, a}
  BY <1>0, <1>2, <1>3 DEF SaveFlush
<1>5. \A f \in Exports \ {e} : ~ InHand(a, f)
  BY <1>0, <1>4 DEF InHand
<1>6. OthersStay(a) /\ pc'[a] = AfterSave(a) /\ pc'[a] # "flush"
      /\ (want[a].status = "processing" => pc'[a] = "open" /\ cur'[a] = cur[a])
  <2>1. /\ pc' = [pc EXCEPT ![a] = AfterSave(a)]
        /\ \E w : cur' = [cur EXCEPT ![a] = w]
        /\ want[a].status = "processing" => cur' = [cur EXCEPT ![a] = cur[a]]
        /\ want' = [want EXCEPT ![a] = NoRow]
        /\ seen' = [seen EXCEPT ![a] = NoRow]
    BY DEF SaveFlush, Goto
  <2>2. AfterSave(a) # "flush" /\ (want[a].status = "processing" => AfterSave(a) = "open")
    BY DEF AfterSave
  <2> QED
    <3>1. pc'[a] = AfterSave(a) /\ (want[a].status = "processing" => cur'[a] = cur[a])
      BY <2>1 DEF IInv, Typed, TypeOK
    <3>2. OthersStay(a)
      BY <2>1 DEF IInv, Typed, TypeOK, OthersStay
    <3> QED
      BY <2>2, <3>1, <3>2
<1>7. ASSUME want[a].status # "processing"
      PROVE  r.status # "processing"
  <2>1. work[e].status = "processing" => lock[e] = a
    BY <1>1, <1>4, NoneAssumption DEF IInv, Owned, ProcessingIsInHand
  <2>2. work[e].status = "processing" => seen[a].status = "processing"
    BY <1>0, <1>4, <2>1 DEF IInv, Owned, ProcessingIsSeen
  <2> QED
    BY <1>2, <1>7, <2>2
<1>8. r.status = "processing" => InHand(a, r.id)'
  BY <1>0, <1>2, <1>6, <1>7 DEF InHand
<1> QED
  BY <1>2, <1>3, <1>4, <1>5, <1>6, <1>8, OwnedAtWrite

\* Steps that write no row leave the processing ones in the hands they are in.
LEMMA OwnedAtReads ==
    ASSUME IInv, NEW a \in Actors,
           \/ \E u \in Users : StartErase(a, u)
           \/ \E u \in Users, e \in Exports, route \in Routes : LookUp(a, u, e, route)
           \/ StartPoll(a)
           \/ ReconcileReadyRequest(a) \/ ProbeArtifact(a) \/ ListPending(a)
           \/ ProcessOne(a) \/ EraseForUser(a) \/ DropArtifact(a)
           \/ AuthoriseDownload(a) \/ StreamArtifact(a)
    PROVE  Owned'
<1>1. CASE \/ \E u \in Users : StartErase(a, u)
           \/ \E u \in Users, e \in Exports, route \in Routes : LookUp(a, u, e, route)
           \/ StartPoll(a) \/ ListPending(a) \/ StreamArtifact(a) \/ DropArtifact(a)
  <2>1. /\ UNCHANGED <<cur, want, seen, store>>
        /\ pc[a] \in {"idle", "reconcile", "stream", "drop"}
        /\ \E phase \in {"erase", "reconcile", "process", "commit", "get"} : Goto(a, phase)
    BY <1>1 DEF StartErase, LookUp, StartPoll, ListPending, StreamArtifact, DropArtifact,
                local
  <2>2. OthersStay(a) /\ pc'[a] # "flush"
    BY <2>1 DEF OthersStay, Goto, IInv, Typed, TypeOK
  <2> QED
    BY <2>1, <2>2, OwnedElsewhere
<1>2. ASSUME NEW r, NEW w, NEW phase, phase # "flush", Take(a, r, w, phase),
             UNCHANGED <<seen, store>>,
             pc[a] \in {"reconcile", "process", "erase"}
      PROVE  Owned'
  <2>1. OthersStay(a) /\ pc'[a] # "flush"
    BY <1>2 DEF OthersStay, Take, Goto, IInv, Typed, TypeOK
  <2> QED
    BY <1>2, <2>1, OwnedElsewhere
<1>3. CASE ReconcileReadyRequest(a)
  <2>1. UNCHANGED <<seen, store>> /\ pc[a] = "reconcile"
    BY <1>3 DEF ReconcileReadyRequest
  <2>2. \E r, w, phase : Take(a, r, w, phase) /\ phase # "flush"
    BY <1>3 DEF ReconcileReadyRequest, AfterReconcile
  <2> QED
    BY <1>2, <2>1, <2>2
<1>4. CASE ProcessOne(a) \/ EraseForUser(a)
  <2>1. UNCHANGED <<seen, store>> /\ pc[a] \in {"process", "erase"}
    BY <1>4 DEF ProcessOne, EraseForUser
  <2>2. CASE Goto(a, "commit") /\ UNCHANGED <<cur, want, batch>>
    <3>1. OthersStay(a) /\ pc'[a] # "flush"
      BY <2>1, <2>2 DEF OthersStay, Goto, IInv, Typed, TypeOK
    <3> QED
      BY <2>1, <3>1, OwnedElsewhere
  <2>3. CASE \E r, w : Take(a, r, w, "get") \/ Take(a, r, w, "drop")
    BY <1>2, <2>1, <2>3
  <2>4. CASE ProcessOne(a)
    BY <2>2, <2>3, <2>4 DEF ProcessOne
  <2>5. CASE EraseForUser(a)
    BY <2>2, <2>3, <2>5 DEF EraseForUser
  <2> QED
    BY <1>4, <2>4, <2>5
<1>5. CASE ProbeArtifact(a) \/ AuthoriseDownload(a)
  <2>1. /\ UNCHANGED <<cur, seen, store>> /\ pc[a] \in {"probe", "authorise"}
        /\ UNCHANGED want \/ want' = [want EXCEPT ![a] = Failed(cur[a])]
    BY <1>5 DEF ProbeArtifact, AuthoriseDownload
  <2>2. \E phase : Goto(a, phase) /\ phase # "flush"
    BY <1>5 DEF ProbeArtifact, AuthoriseDownload, AfterReconcile
  <2>3. OthersStay(a) /\ pc'[a] # "flush"
    BY <2>1, <2>2 DEF OthersStay, Goto, IInv, Typed, TypeOK
  <2> QED
    BY <2>1, <2>3, OwnedElsewhere
<1> QED
  BY <1>1, <1>3, <1>4, <1>5

\* Every step keeps processing rows in the hands of their writers.
LEMMA OwnedNext == IInv /\ [Next]_vars => IInv'
<1> SUFFICES ASSUME IInv, [Next]_vars PROVE Owned'
  BY TypedNext DEF IInv
<1>1. CASE UNCHANGED vars
  BY <1>1 DEF IInv, Owned, NoCommittedProcessing, ProcessingIsInHand, ProcessingIsSeen,
              InHand, vars
<1>2. CASE Tick
  BY <1>2 DEF IInv, Owned, NoCommittedProcessing, ProcessingIsInHand, ProcessingIsSeen,
              InHand, Tick, local, store
<1>3. ASSUME NEW a \in Actors, Rollback(a) \/ Abort(a) \/ DeadlockVictim(a)
      PROVE  Owned'
  BY <1>3, OwnedAtRollback DEF Rollback, Abort, DeadlockVictim
<1>4. CASE Next
  BY <1>2, <1>3, <1>4, NextGroups, OwnedAtCreate, OwnedAtReads, OwnedAtSaveGet,
     OwnedAtSaveFlush, OwnedWhileWriting, OwnedAtCommit
<1> QED
  BY <1>1, <1>4

\* No interleaving of polls, erasures, requests, faults and deadlocks commits a
\* row in processing, the status that no list ever looks for: what a crash or a
\* rollback interrupts is pending again and the next poll takes it up.
THEOREM NeverStuckInProcessing == Spec => []NoCommittedProcessing
<1>1. Init => IInv
  <2> SUFFICES ASSUME Init PROVE Owned
    BY TypedInit DEF IInv
  <2> QED
    BY DEF Init, Owned, NoCommittedProcessing, ProcessingIsInHand, ProcessingIsSeen,
           AbsentRow
<1>2. IInv => NoCommittedProcessing
  BY DEF IInv, Owned
<1> QED
  BY <1>1, <1>2, OwnedNext, PTL DEF Spec
-------------------------------------------------------------------------------
(* What a committed ready row has, and what may happen to its file.  From here *)
(* on one poll runs at a time: the worker is one process, and max_instances=1  *)
(* of its scheduler lets no second poll start beside the first.                *)

OnePoll == \A p, q \in Pollers : p = q

\* A version of a row that says nothing about an artifact, and one that has all
\* that a ready row needs.
Clean(v)    == v.key = None /\ v.exp = None
Complete(v) == v.key = v.id /\ v.exp # None

\* Task a has inserted an event of type t for e and not committed it.
Mine(a, e, t) == <<e, t>> \in drafts[a]

\* Task a is in the part of a poll, or in the direct export, that turns pending
\* requests into settled ones ...
InProcess(a) ==
    /\ a \notin Erasers
    /\ \/ pc[a] \in {"process", "open", "write"}
       \/ pc[a] \in {"get", "flush"} /\ cur[a].status = "pending"

\* ... and e is one of those it has still to settle.
Settles(a, e) ==
    /\ InProcess(a)
    /\ \/ a \in Pollers /\ \E r \in batch[a] : r.id = e
       \/ pc[a] # "process" /\ cur[a].id = e

\* A row comes into being together with its export_created event.
Births ==
    \A e \in Exports :
        /\ events[e]["created"] = IF rows[e].status = "absent" THEN 0 ELSE 1
        /\ work[e].status = "absent" => rows[e].status = "absent" /\ lock[e] = None
        /\ e > minted => rows[e].status = "absent" /\ lock[e] = None
        /\ \A a \in Actors : Mine(a, e, "created") <=> rows[e].status = "absent" /\ lock[e] = a
        /\ rows[e].status = "absent" => rows[e].subject = None /\ lock[e] \in Webs \cup {None}

\* Any version that is ready has its key and its expiry, and an event belongs to
\* the transaction that holds the row.
Versions ==
    \A e \in Exports :
        /\ events[e]["ready"] \in {0, 1}
        /\ lock[e] = None => work[e] = rows[e]
        /\ rows[e].status = "ready" => Complete(rows[e])
        /\ work[e].status = "ready" => Complete(work[e])
        /\ \A a \in Actors, t \in EventType : Mine(a, e, t) => lock[e] = a

\* Before its export_ready event a row was never ready, except for the
\* transaction that is about to commit that event.
Unready ==
    \A e \in Exports : events[e]["ready"] = 0 =>
        /\ rows[e].status # "ready" /\ Clean(rows[e])
        /\ \/ work[e].status # "ready" /\ Clean(work[e])
           \/ \E a \in Actors : Mine(a, e, "ready")

\* That transaction is the only one, and has written the whole file.
Drafted ==
    \A a \in Actors, e \in Exports : Mine(a, e, "ready") =>
        /\ events[e]["ready"] = 0 /\ work[e].status = "ready" /\ disk[e] # "partial"
        /\ a \in Pollers \/ rows[e].status = "absent"

\* After it the row can only close, and nobody writes its file again.
Readied ==
    \A e \in Exports : events[e]["ready"] = 1 =>
        /\ rows[e].status \in {"ready"} \cup Closed
        /\ work[e].status \in {"ready"} \cup Closed
        /\ rows[e].status \in Closed => work[e].status \in Closed
        /\ disk[e] # "partial"

Tables == Births /\ Versions /\ Unready /\ Drafted /\ Readied

\* The snapshots of a task are of rows that exist; one that shows ready was
\* committed ready.
Lists(a) ==
    /\ \A r \in batch[a] :
          /\ rows[r.id].status # "absent"
          /\ r.status = "ready" => events[r.id]["ready"] = 1 /\ Complete(r)
          /\ a \in Pollers /\ InProcess(a) =>
                r.status = "pending" /\ (pc[a] # "process" => r.id # cur[a].id)
    /\ \A r, s \in batch[a] : r.id = s.id => r = s
    /\ cur[a].status = "ready" => events[cur[a].id]["ready"] = 1 /\ Complete(cur[a])

\* Which task does what, and with which snapshots.
Roles(a) ==
    /\ pc[a] = "process" => a \in Pollers
    /\ pc[a] = "erase" => a \in Erasers
    /\ pc[a] \in {"reconcile", "probe", "authorise", "stream", "open", "write"} =>
          a \notin Erasers
    /\ pc[a] \in {"probe", "authorise", "stream"} => cur[a].status = "ready"
    /\ pc[a] \in {"open", "write"} => cur[a].status = "pending"
    /\ pc[a] = "drop" /\ a \notin Erasers => cur[a].status = "ready"
    /\ pc[a] \in {"get", "flush"} /\ a \notin Erasers => cur[a].status \in {"ready", "pending"}
    /\ pc[a] \in {"drop", "get", "flush"} /\ (a \in Webs => cur[a].status # "pending") =>
          rows[cur[a].id].status # "absent"

\* A save outside of that part closes the row; the eraser's clears it as well.
Closes(a) ==
    pc[a] \in {"drop", "get", "flush"} /\ ~ InProcess(a) =>
        /\ want[a].status \in Closed /\ want[a].key = None
        /\ a \in Erasers => Clean(want[a])

\* The row that a task has put into processing.
Holds(a) == lock[cur[a].id] = a /\ work[cur[a].id].status = "processing"

\* A save in that part: it starts the processing, or records how it ended.
Processes(a) ==
    /\ pc[a] \in {"open", "write"} => Holds(a)
    /\ pc[a] \in {"get", "flush"} /\ InProcess(a) =>
          \/ a \in Pollers /\ want[a].status = "processing" /\ Clean(want[a])
          \/ a \in Pollers /\ want[a].status = "failed" /\ Clean(want[a]) /\ Holds(a)
          \/ /\ want[a].status = "ready" /\ want[a].id = cur[a].id /\ Complete(want[a])
             /\ Holds(a) /\ disk[cur[a].id] # "partial"

\* What save() has read bears out what its UPDATE will do: it finds the status
\* changed where it must, and a row that it found closed stays closed.
Sees(a) ==
    pc[a] = "flush" =>
        /\ InProcess(a) =>
              IF want[a].status = "processing" THEN seen[a].status # "processing"
                                               ELSE seen[a] = work[cur[a].id]
        /\ seen[a].status \in Closed /\ (cur[a].status = "ready" \/ ~ Clean(seen[a])) =>
              /\ events[cur[a].id]["ready"] = 1
              /\ \/ rows[cur[a].id].status \in Closed
                 \/ lock[cur[a].id] = a /\ work[cur[a].id].status \in Closed
        /\ cur[a].status = "ready" => seen[a].status \in {"ready"} \cup Closed

\* What a task has still to settle has never been ready: a direct export is
\* unborn for all others, and a poll has no rival.
Settlers(a) ==
    \A e \in Exports : Settles(a, e) =>
        /\ events[e]["ready"] = 0
        /\ \A b \in Actors : ~ Mine(b, e, "ready")
        /\ IF a \in Pollers THEN rows[e].status # "absent"
                            ELSE rows[e].status = "absent" /\ lock[e] = a

InStep(a) == Lists(a) /\ Roles(a) /\ Closes(a) /\ Processes(a) /\ Sees(a) /\ Settlers(a)

Exact == IInv /\ OnePoll /\ Tables /\ \A a \in Actors : InStep(a)
-------------------------------------------------------------------------------
(* The tasks that do not move.                                               *)

\* A step of a leaves the other tasks, their lists and their drafts alone.
Apart(a) ==
    /\ OthersStay(a)
    /\ \A b \in Actors \ {a} : batch'[b] = batch[b] /\ drafts'[b] = drafts[b]

\* What task b relies on while others move: its locks and what it wrote under
\* them, and that the rows and events it has seen only go forward.
Relied(b) ==
    \A e \in Exports :
        /\ lock[e] = b => /\ lock'[e] = b /\ work'[e] = work[e]
                          /\ rows[e].status = "absent" => rows'[e].status = "absent"
        /\ rows[e].status # "absent" => rows'[e].status # "absent"
        /\ events[e]["ready"] = 1 =>
              /\ events'[e]["ready"] = 1
              /\ rows[e].status \in Closed => rows'[e].status \in Closed
        /\ Settles(b, e) =>
              /\ events'[e]["ready"] = events[e]["ready"]
              /\ \A c \in Actors : Mine(c, e, "ready")' => Mine(c, e, "ready")
              /\ disk'[e] = "partial" => disk[e] = "partial"

\* What a task relies on is enough: steps of others leave it in step.
LEMMA OthersInStep ==
    ASSUME Typed, NEW a \in Actors, NEW b \in Actors \ {a}, InStep(b), Apart(a), Relied(b)
    PROVE  InStep(b)'
<1>1. /\ pc'[b] = pc[b] /\ cur'[b] = cur[b] /\ want'[b] = want[b] /\ seen'[b] = seen[b]
      /\ batch'[b] = batch[b] /\ drafts'[b] = drafts[b]
  BY DEF Apart, OthersStay
<1>2. InProcess(b)' <=> InProcess(b)
  BY <1>1 DEF InProcess
<1>3. \A e \in Exports : Settles(b, e)' <=> Settles(b, e)
  BY <1>1, <1>2 DEF Settles
<1>4. /\ \A r \in batch[b] : r.id \in Exports
      /\ cur[b].status = "ready" => cur[b].id \in Exports
      /\ pc[b] \in {"drop", "get", "flush", "open", "write"} => cur[b].id \in Exports
  BY DEF Typed, TypeOK, Busy, Row, NoRow, AbsentRow
<1>5. Lists(b)'
  BY <1>1, <1>2, <1>4 DEF InStep, Lists, Relied
<1>6. Roles(b)'
  BY <1>1, <1>4 DEF InStep, Roles, Relied
<1>7. Closes(b)'
  BY <1>1, <1>2 DEF InStep, Closes
<1>8. /\ pc[b] \in {"get", "flush", "open", "write"} /\ Holds(b) => Holds(b)'
      /\ pc[b] \in {"get", "flush"} /\ InProcess(b) => Settles(b, cur[b].id)
  BY <1>1, <1>4 DEF Holds, Relied, Settles
<1>9. Processes(b)'
  BY <1>1, <1>2, <1>4, <1>8 DEF InStep, Processes, Relied
<1>10. Sees(b)'
  <2> SUFFICES ASSUME pc[b] = "flush" PROVE Sees(b)'
    BY <1>1 DEF Sees
  <2>1. PICK e \in Exports : e = cur[b].id
    BY <1>4
  <2>2. InProcess(b) /\ want[b].status # "processing" => lock[e] = b
    BY <2>1 DEF InStep, Processes, Holds
  <2>3. /\ lock[e] = b => lock'[e] = b /\ work'[e] = work[e]
        /\ events[e]["ready"] = 1 =>
              events'[e]["ready"] = 1 /\ (rows[e].status \in Closed => rows'[e].status \in Closed)
    BY DEF Relied
  <2> QED
    BY <1>1, <1>2, <2>1, <2>2, <2>3 DEF InStep, Sees
<1>11. Settlers(b)'
  <2> SUFFICES ASSUME NEW e \in Exports, Settles(b, e)
               PROVE  /\ events'[e]["ready"] = 0
                      /\ \A c \in Actors : ~ Mine(c, e, "ready")'
                      /\ IF b \in Pollers THEN rows'[e].status # "absent"
                                          ELSE rows'[e].status = "absent" /\ lock'[e] = b
    BY <1>3 DEF Settlers
  <2> QED
    BY DEF InStep, Settlers, Relied
<1> QED
  BY <1>5, <1>6, <1>7, <1>9, <1>10, <1>11 DEF InStep

\* Nobody settles what another task settles.
LEMMA OneSettler ==
    ASSUME Exact, NEW a \in Actors, NEW b \in Actors, NEW e \in Exports,
           Settles(a, e), Settles(b, e)
    PROVE  a = b
<1>1. Settlers(a) /\ Settlers(b) /\ OnePoll
  BY DEF Exact, InStep
<1> QED
  BY <1>1 DEF Settlers, OnePoll
-------------------------------------------------------------------------------
(* What the kinds of step do to the tables, and that the others may rely on it. *)

\* The disk changes only under the settler's hands, or a file goes or is whole.
DiskMoves(a) ==
    \A e \in Exports : disk'[e] = "partial" => disk[e] = "partial" \/ Settles(a, e)

\* A step that touches no table.
LEMMA AtRead ==
    ASSUME Exact, NEW a \in Actors, Apart(a), DiskMoves(a), UNCHANGED <<store, minted>>
    PROVE  Tables' /\ \A b \in Actors \ {a} : InStep(b)'
<1> USE DEF Exact
<1>1. \A b \in Actors, e \in Exports, t \in EventType : Mine(b, e, t)' <=> Mine(b, e, t)
  BY DEF Mine, store
<1>2. Births' /\ Versions'
  BY <1>1 DEF Tables, Births, Versions, store, EventType
<1>3. Unready'
  BY <1>1 DEF Tables, Unready, store, EventType
<1>4. \A e \in Exports : Settles(a, e) =>
         events[e]["ready"] = 0 /\ \A b \in Actors : ~ Mine(b, e, "ready")
  BY DEF InStep, Settlers
<1>5. Drafted'
  BY <1>1, <1>4 DEF Tables, Drafted, store, EventType, DiskMoves
<1>6. Readied'
  BY <1>4 DEF Tables, Readied, store, DiskMoves
<1>7. ASSUME NEW b \in Actors \ {a} PROVE InStep(b)'
  <2>1. \A e \in Exports : Settles(b, e) => ~ Settles(a, e)
    BY OneSettler
  <2>2. Relied(b)
    BY <1>1, <2>1 DEF Relied, store, EventType, DiskMoves
  <2> QED
    BY <2>2, OthersInStep DEF IInv
<1> QED
  BY <1>2, <1>3, <1>5, <1>6, <1>7 DEF Tables

\* A write of the new version r of a row, with the events ts, that is true to
\* what the tables say.
Fitting(a, r, ts) ==
    LET e == r.id IN
    /\ lock[e] \in {None, a} /\ r.status # "absent"
    /\ rows[e].status = "absent" => a \in Webs /\ (lock[e] = None => "created" \in ts)
    /\ "created" \in ts => rows[e].status = "absent"
    /\ r.status = "ready" => Complete(r)
    /\ ~ Mine(a, e, "ready")
    /\ "ready" \in ts => /\ events[e]["ready"] = 0 /\ r.status = "ready"
                         /\ disk[e] # "partial" /\ (a \in Pollers \/ rows[e].status = "absent")
                         /\ \A b \in Actors : Settles(b, e) => b = a
    /\ events[e]["ready"] = 0 => (r.status # "ready" /\ Clean(r)) \/ "ready" \in ts
    /\ events[e]["ready"] = 1 => /\ r.status \in {"ready"} \cup Closed
                                 /\ rows[e].status \in Closed => r.status \in Closed

\* A write that fits keeps the tables sound and the other tasks in step.
LEMMA AtWrite ==
    ASSUME Exact, NEW a \in Actors, NEW r \in Row, NEW ts \in SUBSET EventType,
           Write(a, r, ts), Fitting(a, r, ts), Apart(a), UNCHANGED disk,
           minted' >= minted, minted' \in Nat, r.id <= minted'
    PROVE  Tables' /\ \A b \in Actors \ {a} : InStep(b)'
<1> USE DEF Exact
<1>1. PICK e \in Exports : e = r.id
  BY DEF Row
<1>2. /\ rows' = rows /\ events' = events /\ work'[e] = r /\ lock'[e] = a
      /\ \A f \in Exports \ {e} : work'[f] = work[f] /\ lock'[f] = lock[f]
  BY <1>1 DEF Write, IInv, Typed, TypeOK
<1>3. /\ \A t \in EventType : Mine(a, e, t)' <=> Mine(a, e, t) \/ t \in ts
      /\ \A b \in Actors, f \in Exports, t \in EventType :
            b # a \/ f # e => (Mine(b, f, t)' <=> Mine(b, f, t))
  BY <1>1 DEF Write, IInv, Typed, TypeOK, Mine
<1>4. {"created", "ready"} \subseteq EventType
  BY DEF EventType
<1>5. /\ lock[e] \in {None, a} /\ \A b \in Actors : b # None
      /\ \A b \in Actors \ {a}, t \in EventType : ~ Mine(b, e, t)
  <2>1. lock[e] \in {None, a} /\ \A b \in Actors : b # None
    BY <1>1, NoneAssumption DEF Fitting
  <2> QED
    BY <2>1 DEF Tables, Versions
<1>6. Births'
  <2>1. \A f \in Exports : f # e =>
          /\ work'[f].status = "absent" => rows[f].status = "absent" /\ lock'[f] = None
          /\ f > minted' => rows[f].status = "absent" /\ lock'[f] = None
          /\ \A b \in Actors : Mine(b, f, "created")' <=> rows[f].status = "absent" /\ lock'[f] = b
          /\ rows[f].status = "absent" => lock'[f] \in Webs \cup {None}
    BY <1>2, <1>3, <1>4 DEF Tables, Births, IInv, Typed, TypeOK, Exports
  <2>2. /\ work'[e].status # "absent" /\ ~ e > minted'
        /\ rows[e].status = "absent" => lock'[e] \in Webs \cup {None}
    BY <1>1, <1>2 DEF Fitting, Exports
  <2>3. \A b \in Actors : Mine(b, e, "created")' <=> rows[e].status = "absent" /\ lock'[e] = b
    <3>1. Mine(a, e, "created") \/ "created" \in ts <=> rows[e].status = "absent"
      BY <1>1, <1>5 DEF Fitting, Tables, Births
    <3>2. \A b \in Actors \ {a} : ~ Mine(b, e, "created")'
      BY <1>3, <1>4, <1>5
    <3> QED
      BY <1>2, <1>3, <1>4, <3>1, <3>2
  <2> QED
    BY <1>2, <2>1, <2>2, <2>3 DEF Tables, Births
<1>7. Versions'
  <2>1. \A b \in Actors, t \in EventType, f \in Exports : Mine(b, f, t)' => lock'[f] = b
    BY <1>2, <1>3, <1>5 DEF Tables, Versions
  <2>2. work'[e].status = "ready" => Complete(work'[e])
    BY <1>1, <1>2 DEF Fitting
  <2> QED
    BY <1>2, <1>5, <2>1, <2>2 DEF Tables, Versions, Complete
<1>8. Unready'
  <2> SUFFICES ASSUME NEW f \in Exports, events[f]["ready"] = 0
               PROVE  \/ work'[f].status # "ready" /\ Clean(work[f])'
                      \/ \E b \in Actors : Mine(b, f, "ready")'
    BY <1>2 DEF Tables, Unready
  <2>1. CASE f = e
    BY <1>1, <1>2, <1>3, <1>4, <2>1 DEF Fitting, Clean
  <2>2. CASE f # e
    BY <1>2, <1>3, <1>4, <2>2 DEF Tables, Unready, Clean
  <2> QED
    BY <2>1, <2>2
<1>9. Drafted'
  <2> SUFFICES ASSUME NEW b \in Actors, NEW f \in Exports, Mine(b, f, "ready")'
               PROVE  /\ events[f]["ready"] = 0 /\ work'[f].status = "ready"
                      /\ disk[f] # "partial" /\ (b \in Pollers \/ rows[f].status = "absent")
    BY <1>2 DEF Drafted
  <2>1. CASE f = e
    <3>1. b = a /\ "ready" \in ts
      BY <1>1, <1>3, <1>4, <1>5, <2>1 DEF Fitting
    <3> QED
      BY <1>1, <1>2, <2>1, <3>1 DEF Fitting
  <2>2. CASE f # e
    BY <1>2, <1>3, <1>4, <2>2 DEF Tables, Drafted
  <2> QED
    BY <2>1, <2>2
<1>10. Readied'
  BY <1>1, <1>2 DEF Fitting, Tables, Readied
<1>11. ASSUME NEW b \in Actors \ {a} PROVE InStep(b)'
  <2>1. ASSUME NEW f \in Exports, Settles(b, f), NEW c \in Actors, Mine(c, f, "ready")'
        PROVE  Mine(c, f, "ready")
    BY <1>1, <1>3, <1>4, <2>1 DEF Fitting
  <2>2. Relied(b)
    BY <1>2, <1>5, <2>1 DEF Relied
  <2> QED
    BY <2>2, OthersInStep DEF IInv
<1> QED
  BY <1>6, <1>7, <1>8, <1>9, <1>10, <1>11 DEF Tables
-------------------------------------------------------------------------------
(* The end of a transaction.                                                 *)

\* Nobody waits for a row that does not exist yet.
LEMMA UnbornIsAlone ==
    ASSUME Exact, NEW e \in Exports, rows[e].status = "absent"
    PROVE  Waiters(e) = {}
<1> SUFFICES ASSUME NEW b \in Actors, pc[b] = "flush", cur[b].id = e, lock[e] # b
             PROVE  FALSE
  BY DEF Waiters
<1>1. Roles(b) /\ Processes(b)
  BY DEF Exact, InStep
<1>2. b \in Webs /\ cur[b].status = "pending"
  BY <1>1 DEF Roles
<1>3. b \notin Erasers /\ b \notin Pollers
  BY <1>2, ActorsAssumption
<1>4. InProcess(b)
  BY <1>2, <1>3 DEF InProcess
<1> QED
  BY <1>1, <1>3, <1>4 DEF Processes, Holds

\* session.close() in terms of the tables.
LEMMA AtClose ==
    ASSUME Exact, NEW a \in Actors, Close(a)
    PROVE  /\ Apart(a)
           /\ \A b \in Actors, e \in Exports, t \in EventType :
                 Mine(b, e, t)' <=> b # a /\ Mine(b, e, t)
           /\ \A e \in Exports :
                 /\ lock'[e] = lock[e] \/ lock[e] = a
                 /\ lock[e] = a => lock'[e] # a
                 /\ lock[e] = a /\ rows[e].status = "absent" => lock'[e] = None
<1>1. drafts' = [drafts EXCEPT ![a] = {}] /\ batch' = [batch EXCEPT ![a] = {}]
  BY DEF Close
<1>2. Apart(a)
  BY <1>1, OthersStayAtClose DEF Exact, IInv, Typed, TypeOK, Apart
<1>3. \A b \in Actors, e \in Exports, t \in EventType :
         Mine(b, e, t)' <=> b # a /\ Mine(b, e, t)
  BY <1>1 DEF Exact, IInv, Typed, TypeOK, Mine
<1>4. ASSUME NEW e \in Exports, lock[e] = a, rows[e].status = "absent"
      PROVE  lock'[e] = None
  BY <1>4, UnbornIsAlone DEF Close, ReleaseLocks
<1> QED
  BY <1>2, <1>3, <1>4, OthersStayAtClose DEF Exact, IInv

\* Between tasks there is nothing to be said of a task.
LEMMA ClosedInStep ==
    ASSUME Typed, NEW a \in Actors, Close(a)
    PROVE  InStep(a)'
<1>1. pc'[a] = "idle" /\ batch'[a] = {} /\ cur'[a] = NoRow
  BY DEF Typed, TypeOK, Close, Goto
<1>2. ~ InProcess(a)' /\ \A e \in Exports : ~ Settles(a, e)'
  BY <1>1 DEF InProcess, Settles
<1>3. Lists(a)' /\ Roles(a)'
  BY <1>1 DEF Lists, Roles, NoRow, AbsentRow
<1> QED
  BY <1>1, <1>2, <1>3 DEF InStep, Closes, Processes, Sees, Settlers

\* A commit keeps the tables sound and the other tasks in step; the export_ready
\* event of a row is counted with its status.
LEMMA AtCommit ==
    ASSUME Exact, NEW a \in Actors, CommitTx(a), UNCHANGED <<disk, minted>>
    PROVE  Tables' /\ \A b \in Actors \ {a} : InStep(b)'
<1> USE DEF Exact
<1>1. /\ Close(a) /\ work' = work
      /\ \A e \in Exports : rows'[e] = IF lock[e] = a THEN work[e] ELSE rows[e]
      /\ \A e \in Exports, t \in EventType :
            events'[e][t] = IF Mine(a, e, t) THEN events[e][t] + 1 ELSE events[e][t]
  BY DEF CommitTx, Visible, Mine
<1>2. /\ Apart(a)
      /\ \A b \in Actors, e \in Exports, t \in EventType :
            Mine(b, e, t)' <=> b # a /\ Mine(b, e, t)
      /\ \A e \in Exports :
            /\ lock'[e] = lock[e] \/ lock[e] = a
            /\ lock[e] = a => lock'[e] # a
            /\ lock[e] = a /\ rows[e].status = "absent" => lock'[e] = None
  BY <1>1, AtClose
<1>3. {"created", "ready"} \subseteq EventType
  BY DEF EventType
<1>4. \A b \in Actors : b # None
  BY NoneAssumption
<1>5. \A b \in Actors, e \in Exports, t \in EventType : Mine(b, e, t) => lock[e] = b
  BY DEF Tables, Versions
<1>6. Births'
  <2>1. ASSUME NEW e \in Exports, lock[e] = a
        PROVE  /\ rows'[e].status # "absent" /\ events'[e]["created"] = 1
               /\ \A b \in Actors : ~ Mine(b, e, "created")'
               /\ ~ e > minted /\ work[e].status # "absent"
    BY <1>1, <1>2, <1>3, <1>4, <1>5, <2>1 DEF Tables, Births
  <2>2. ASSUME NEW e \in Exports, lock[e] # a
        PROVE  /\ rows'[e] = rows[e] /\ events'[e]["created"] = events[e]["created"]
               /\ lock'[e] = lock[e]
               /\ \A b \in Actors : Mine(b, e, "created")' <=> Mine(b, e, "created")
    BY <1>1, <1>2, <1>3, <1>5, <2>2
  <2> QED
    BY <1>1, <2>1, <2>2 DEF Tables, Births
<1>7. \A e \in Exports : Mine(a, e, "ready") =>
         /\ lock[e] = a /\ events[e]["ready"] = 0 /\ events'[e]["ready"] = 1
         /\ rows'[e].status = "ready"
  BY <1>1, <1>3, <1>5 DEF Tables, Drafted
<1>8. \A e \in Exports : ~ Mine(a, e, "ready") => events'[e]["ready"] = events[e]["ready"]
  BY <1>1, <1>3
<1>9. Versions'
  <2>1. ASSUME NEW e \in Exports
        PROVE  /\ events'[e]["ready"] \in {0, 1}
               /\ lock'[e] = None => work'[e] = rows'[e]
               /\ \A b \in Actors, t \in EventType : Mine(b, e, t)' => lock'[e] = b
    BY <1>1, <1>2, <1>5, <1>7, <1>8 DEF Tables, Versions
  <2>2. ASSUME NEW e \in Exports
        PROVE  /\ rows'[e].status = "ready" => Complete(rows'[e])
               /\ work'[e].status = "ready" => Complete(work'[e])
    BY <1>1 DEF Tables, Versions
  <2> QED
    BY <2>1, <2>2 DEF Versions, Complete
<1>10. Unready'
  <2> SUFFICES ASSUME NEW e \in Exports, events'[e]["ready"] = 0
               PROVE  /\ rows'[e].status # "ready" /\ Clean(rows'[e])
                      /\ \/ work[e].status # "ready" /\ Clean(work[e])
                         \/ \E b \in Actors : Mine(b, e, "ready")'
    BY <1>1 DEF Unready, Clean
  <2>1. ~ Mine(a, e, "ready") /\ events[e]["ready"] = 0
    BY <1>7, <1>8
  <2>2. /\ rows[e].status # "ready" /\ Clean(rows[e])
        /\ \/ work[e].status # "ready" /\ Clean(work[e])
           \/ \E b \in Actors : Mine(b, e, "ready")
    BY <2>1 DEF Tables, Unready
  <2>3. CASE \E b \in Actors : Mine(b, e, "ready")
    BY <1>1, <1>2, <1>3, <1>5, <2>1, <2>2, <2>3
  <2>4. CASE work[e].status # "ready" /\ Clean(work[e])
    BY <1>1, <2>2, <2>4
  <2> QED
    BY <2>2, <2>3, <2>4
<1>11. Drafted'
  <2> SUFFICES ASSUME NEW b \in Actors, NEW e \in Exports, Mine(b, e, "ready")'
               PROVE  /\ events'[e]["ready"] = 0 /\ work[e].status = "ready"
                      /\ disk[e] # "partial" /\ (b \in Pollers \/ rows'[e].status = "absent")
    BY <1>1 DEF Drafted
  <2>1. b # a /\ Mine(b, e, "ready") /\ lock[e] # a
    BY <1>2, <1>3, <1>5
  <2> QED
    BY <1>1, <1>7, <1>8, <2>1 DEF Tables, Drafted
<1>12. Readied'
  <2> SUFFICES ASSUME NEW e \in Exports, events'[e]["ready"] = 1
               PROVE  /\ rows'[e].status \in {"ready"} \cup Closed
                      /\ work[e].status \in {"ready"} \cup Closed
                      /\ rows'[e].status \in Closed => work[e].status \in Closed
                      /\ disk[e] # "partial"
    BY <1>1 DEF Readied
  <2>1. CASE Mine(a, e, "ready")
    BY <1>1, <1>5, <1>7, <2>1 DEF Tables, Drafted
  <2>2. CASE ~ Mine(a, e, "ready")
    BY <1>1, <1>8, <2>2 DEF Tables, Readied
  <2> QED
    BY <2>1, <2>2
<1>13. ASSUME NEW b \in Actors \ {a} PROVE InStep(b)'
  <2>1. \A e \in Exports : Settles(b, e) => ~ Mine(a, e, "ready")
    BY DEF InStep, Settlers
  <2>2. \A e \in Exports : events[e]["ready"] = 1 /\ rows[e].status \in Closed =>
           rows'[e].status \in Closed
    BY <1>1 DEF Tables, Readied
  <2>3. \A e \in Exports : rows[e].status # "absent" => rows'[e].status # "absent"
    BY <1>1 DEF Tables, Births
  <2>4. \A e \in Exports : events[e]["ready"] = 1 => events'[e]["ready"] = 1
    BY <1>7, <1>8
  <2>5. \A e \in Exports : lock[e] = b => lock'[e] = b /\ work'[e] = work[e] /\ rows'[e] = rows[e]
    BY <1>1, <1>2
  <2>6. \A e \in Exports, c \in Actors : Mine(c, e, "ready")' => Mine(c, e, "ready")
    BY <1>2, <1>3
  <2>7. Relied(b)
    BY <1>8, <2>1, <2>2, <2>3, <2>4, <2>5, <2>6 DEF Relied
  <2> QED
    BY <1>2, <2>7, OthersInStep DEF IInv
<1> QED
  BY <1>6, <1>9, <1>10, <1>11, <1>12, <1>13 DEF Tables

\* So does a rollback: the committed row is as good as before.
LEMMA AtRollback ==
    ASSUME Exact, NEW a \in Actors, RollbackTx(a), UNCHANGED minted,
           \A e \in Exports : disk'[e] = "partial" => disk[e] = "partial"
    PROVE  Tables' /\ \A b \in Actors \ {a} : InStep(b)'
<1> USE DEF Exact
<1>1. /\ Close(a) /\ rows' = rows /\ events' = events
      /\ \A e \in Exports : work'[e] = IF lock[e] = a THEN rows[e] ELSE work[e]
  BY DEF RollbackTx
<1>2. /\ Apart(a)
      /\ \A b \in Actors, e \in Exports, t \in EventType :
            Mine(b, e, t)' <=> b # a /\ Mine(b, e, t)
      /\ \A e \in Exports :
            /\ lock'[e] = lock[e] \/ lock[e] = a
            /\ lock[e] = a => lock'[e] # a
            /\ lock[e] = a /\ rows[e].status = "absent" => lock'[e] = None
  BY <1>1, AtClose
<1>3. {"created", "ready"} \subseteq EventType
  BY DEF EventType
<1>4. \A b \in Actors : b # None
  BY NoneAssumption
<1>5. \A b \in Actors, e \in Exports, t \in EventType : Mine(b, e, t) => lock[e] = b
  BY DEF Tables, Versions
<1>6. Births'
  <2>1. ASSUME NEW e \in Exports, lock[e] = a
        PROVE  /\ work'[e] = rows[e] /\ ~ e > minted
               /\ rows[e].status = "absent" => lock'[e] = None
               /\ \A b \in Actors : ~ Mine(b, e, "created")'
    BY <1>1, <1>2, <1>3, <1>4, <1>5, <2>1 DEF Tables, Births
  <2>2. ASSUME NEW e \in Exports, lock[e] # a
        PROVE  /\ work'[e] = work[e] /\ lock'[e] = lock[e]
               /\ \A b \in Actors : Mine(b, e, "created")' <=> Mine(b, e, "created")
    BY <1>1, <1>2, <1>3, <1>5, <2>2
  <2> QED
    BY <1>1, <1>4, <2>1, <2>2 DEF Tables, Births
<1>7. Versions'
  <2>1. ASSUME NEW e \in Exports
        PROVE  /\ lock'[e] = None => work'[e] = rows[e]
               /\ \A b \in Actors, t \in EventType : Mine(b, e, t)' => lock'[e] = b
               /\ work'[e].status = "ready" => Complete(work'[e])
    BY <1>1, <1>2, <1>5 DEF Tables, Versions
  <2> QED
    BY <1>1, <2>1 DEF Tables, Versions, Complete
<1>8. Unready'
  <2> SUFFICES ASSUME NEW e \in Exports, events[e]["ready"] = 0
               PROVE  \/ work'[e].status # "ready" /\ Clean(work'[e])
                      \/ \E b \in Actors : Mine(b, e, "ready")'
    BY <1>1 DEF Tables, Unready, Clean
  <2>1. /\ rows[e].status # "ready" /\ Clean(rows[e])
        /\ \/ work[e].status # "ready" /\ Clean(work[e])
           \/ \E b \in Actors : Mine(b, e, "ready")
    BY DEF Tables, Unready
  <2>2. CASE lock[e] = a
    BY <1>1, <2>1, <2>2
  <2>3. CASE lock[e] # a
    BY <1>1, <1>2, <1>3, <1>5, <2>1, <2>3
  <2> QED
    BY <2>2, <2>3
<1>9. Drafted'
  <2> SUFFICES ASSUME NEW b \in Actors, NEW e \in Exports, Mine(b, e, "ready")'
               PROVE  /\ events[e]["ready"] = 0 /\ work'[e].status = "ready"
                      /\ disk'[e] # "partial" /\ (b \in Pollers \/ rows[e].status = "absent")
    BY <1>1 DEF Drafted
  <2>1. b # a /\ Mine(b, e, "ready") /\ lock[e] # a
    BY <1>2, <1>3, <1>5
  <2> QED
    BY <1>1, <2>1 DEF Tables, Drafted
<1>10. Readied'
  BY <1>1 DEF Tables, Readied
<1>11. ASSUME NEW b \in Actors \ {a} PROVE InStep(b)'
  <2>1. \A e \in Exports : lock[e] = b => lock'[e] = b /\ work'[e] = work[e]
    BY <1>1, <1>2
  <2>2. \A e \in Exports, c \in Actors : Mine(c, e, "ready")' => Mine(c, e, "ready")
    BY <1>2, <1>3
  <2>3. Relied(b)
    BY <1>1, <2>1, <2>2 DEF Relied
  <2> QED
    BY <1>2, <2>3, OthersInStep DEF IInv
<1> QED
  BY <1>6, <1>7, <1>8, <1>9, <1>10, <1>11 DEF Tables
-------------------------------------------------------------------------------
(* The task that moves.                                                      *)

\* In the phases that start, end or only look, there is little to say of a task.
LEMMA AtRest ==
    ASSUME NEW a \in Actors, Lists(a)', Roles(a)',
           pc'[a] \in {"idle", "reconcile", "erase", "probe", "authorise", "stream",
                       "commit", "rollback"}
    PROVE  InStep(a)'
<1>1. ~ InProcess(a)'
  BY DEF InProcess
<1> QED
  BY <1>1 DEF InStep, Closes, Processes, Sees, Settlers, Settles

\* A snapshot of a committed row.
LEMMA Snapshots ==
    ASSUME Exact, NEW e \in Exports
    PROVE  /\ rows[e] \in Row /\ rows[e].id = e
           /\ rows[e].status = "ready" => events[e]["ready"] = 1 /\ Complete(rows[e])
           /\ rows[e].subject # None => rows[e].status # "absent"
  BY DEF Exact, IInv, Typed, TypeOK, Ids, Tables, Versions, Unready, Births

\* The local variables after a phase change, and after a row has been taken.
LEMMA AfterGoto ==
    ASSUME Typed, NEW a \in Actors, NEW phase, Goto(a, phase)
    PROVE  pc'[a] = phase /\ \A b \in Actors \ {a} : pc'[b] = pc[b]
  BY DEF Typed, TypeOK, Goto

\* The same after a row was taken from the list.
LEMMA AfterTake ==
    ASSUME Typed, NEW a \in Actors, NEW r, NEW w, NEW phase, Take(a, r, w, phase),
           UNCHANGED <<seen, store>>
    PROVE  /\ pc'[a] = phase /\ cur'[a] = r /\ want'[a] = w /\ batch'[a] = batch[a] \ {r}
           /\ Apart(a)
<1>1. /\ pc'[a] = phase /\ cur'[a] = r /\ want'[a] = w /\ batch'[a] = batch[a] \ {r}
  BY DEF Typed, TypeOK, Take, Goto
<1>2. Apart(a)
  BY DEF Typed, TypeOK, Take, Goto, Apart, OthersStay, store
<1> QED
  BY <1>1, <1>2

\* The lists of a task only shrink, and what it takes in hand comes from them.
LEMMA ListsShrink ==
    ASSUME Exact, NEW a \in Actors, UNCHANGED store, batch'[a] \subseteq batch[a],
           cur'[a] = cur[a] \/ cur'[a] \in batch[a] \ batch'[a],
           a \in Pollers /\ InProcess(a)' =>
              InProcess(a) /\ (cur'[a] = cur[a] => pc[a] # "process")
    PROVE  Lists(a)'
<1>1. Lists(a)
  BY DEF Exact, InStep
<1>2. UNCHANGED <<rows, events>>
  BY DEF store
<1>3. /\ \A r \in batch'[a] :
            /\ rows[r.id].status # "absent"
            /\ r.status = "ready" => events[r.id]["ready"] = 1 /\ Complete(r)
            /\ a \in Pollers /\ InProcess(a)' => r.status = "pending"
      /\ \A r, s \in batch'[a] : r.id = s.id => r = s
      /\ cur'[a].status = "ready" =>
            events[cur'[a].id]["ready"] = 1 /\ Complete(cur'[a])
  BY <1>1 DEF Lists
<1>4. ASSUME NEW r \in batch'[a], a \in Pollers, InProcess(a)' PROVE r.id # cur'[a].id
  BY <1>1, <1>4 DEF Lists
<1> QED
  BY <1>2, <1>3, <1>4 DEF Lists, Complete

\* What a task has still to settle only shrinks while the tables stay.
LEMMA SettlersShrink ==
    ASSUME Exact, NEW a \in Actors, UNCHANGED store,
           \A e \in Exports : Settles(a, e)' => Settles(a, e)
    PROVE  Settlers(a)'
<1>1. Settlers(a)
  BY DEF Exact, InStep
<1> QED
  BY <1>1 DEF Settlers, Mine, store

\* Starting.
LEMMA StartsInStep ==
    ASSUME Exact, NEW a \in Actors,
           \/ \E u \in Users, e \in Exports, route \in Routes : LookUp(a, u, e, route)
           \/ StartPoll(a)
           \/ \E u \in Users : StartErase(a, u)
    PROVE  InStep(a)' /\ Apart(a) /\ UNCHANGED <<store, minted, disk>>
<1> USE DEF Exact
<1>1. PICK phase \in {"reconcile", "erase"}, S \in SUBSET {rows[e] : e \in Exports} :
        /\ Goto(a, phase) /\ batch' = [batch EXCEPT ![a] = S]
        /\ \A r \in S : r.status # "absent"
        /\ phase = "erase" <=> a \in Erasers
  <2>1. CASE \E u \in Users, e \in Exports, route \in Routes : LookUp(a, u, e, route)
    <3>1. PICK u \in Users, e \in Exports, route \in Routes : LookUp(a, u, e, route)
      BY <2>1
    <3>2. {rows[e]} \in SUBSET {rows[f] : f \in Exports} /\ \A r \in {rows[e]} : r.status # "absent"
      BY <3>1 DEF LookUp
    <3>3. Goto(a, "reconcile") /\ batch' = [batch EXCEPT ![a] = {rows[e]}] /\ a \notin Erasers
      BY <3>1, ActorsAssumption DEF LookUp
    <3> QED
      BY <3>2, <3>3
  <2>2. CASE StartPoll(a)
    <3>1. PICK page \in SUBSET {r \in {rows[e] : e \in Exports} : r.status = "ready"} :
             batch' = [batch EXCEPT ![a] = page]
      BY <2>2 DEF StartPoll
    <3> QED
      BY <2>2, <3>1, ActorsAssumption DEF StartPoll
  <2>3. CASE \E u \in Users : StartErase(a, u)
    <3>1. PICK u \in Users : StartErase(a, u)
      BY <2>3
    <3>2. \A e \in Exports : rows[e].subject = u => rows[e].status # "absent"
      BY Snapshots, NoneAssumption
    <3>3. PICK S \in SUBSET {rows[e] : e \in Exports} :
             S = {r \in {rows[e] : e \in Exports} : r.subject = u}
      OBVIOUS
    <3>4. \A r \in S : r.status # "absent"
      BY <3>2, <3>3
    <3>5. Goto(a, "erase") /\ batch' = [batch EXCEPT ![a] = S] /\ a \in Erasers
      BY <3>1, <3>3 DEF StartErase
    <3> QED
      BY <3>4, <3>5
  <2> QED
    BY <2>1, <2>2, <2>3
<1>2. UNCHANGED <<store, minted, disk, cur, want, seen>>
  BY DEF LookUp, StartPoll, StartErase
<1>3. pc'[a] = phase /\ batch'[a] = S
  BY <1>1 DEF Goto, IInv, Typed, TypeOK
<1>4. Apart(a)
  BY <1>1, <1>2 DEF Goto, IInv, Typed, TypeOK, Apart, OthersStay, store
<1>5. Lists(a)'
  <2>1. \A r \in S : /\ rows[r.id] = r
                     /\ r.status = "ready" => events[r.id]["ready"] = 1 /\ Complete(r)
    BY <1>1, Snapshots
  <2>2. ~ InProcess(a)' /\ cur'[a] = cur[a] /\ rows' = rows /\ events' = events
    BY <1>2, <1>3 DEF InProcess, store
  <2>3. cur[a].status = "ready" => events[cur[a].id]["ready"] = 1 /\ Complete(cur[a])
    BY DEF InStep, Lists
  <2> QED
    BY <1>1, <1>3, <2>1, <2>2, <2>3 DEF Lists, Complete
<1>6. Roles(a)'
  BY <1>1, <1>3 DEF Roles
<1> QED
  BY <1>1, <1>2, <1>3, <1>4, <1>5, <1>6, AtRest

\* reconcile_ready_request.
LEMMA ReconcilesInStep ==
    ASSUME Exact, NEW a \in Actors, ReconcileReadyRequest(a)
    PROVE  InStep(a)' /\ Apart(a) /\ UNCHANGED <<store, minted, disk>>
<1> USE DEF Exact
<1>1. pc[a] = "reconcile" /\ a \notin Erasers /\ UNCHANGED <<store, minted, disk, seen>>
  BY DEF ReconcileReadyRequest, InStep, Roles
<1>2. PICK r \in batch[a] :
        CASE r.status # "ready"  -> Take(a, r, NoRow, AfterReconcile(a, r.status))
          [] IsRequestExpired(r) -> Take(a, r, Expired(r), "drop")
          [] OTHER               -> Take(a, r, NoRow, "probe")
  BY DEF ReconcileReadyRequest
<1>3. r \in Row /\ Expired(r).status = "expired" /\ Expired(r).key = None
  BY DEF IInv, Typed, TypeOK, Row, Expired
<1>4. PICK phase, w : Take(a, r, w, phase)
        /\ \/ phase \in {"reconcile", "commit", "rollback"}
           \/ phase = "probe" /\ r.status = "ready"
           \/ phase = "drop" /\ r.status = "ready" /\ w = Expired(r)
  <2>1. r.status # "ready" => AfterReconcile(a, r.status) \in {"reconcile", "commit", "rollback"}
    BY DEF AfterReconcile
  <2>2. CASE r.status # "ready"
    BY <1>2, <2>1, <2>2 DEF IsRequestExpired
  <2>3. CASE r.status = "ready" /\ IsRequestExpired(r)
    BY <1>2, <2>3
  <2>4. CASE r.status = "ready" /\ ~ IsRequestExpired(r)
    BY <1>2, <2>4
  <2> QED
    BY <2>2, <2>3, <2>4
<1>5. /\ pc'[a] = phase /\ cur'[a] = r /\ want'[a] = w /\ batch'[a] = batch[a] \ {r}
      /\ Apart(a)
  BY <1>1, <1>4, AfterTake DEF IInv
<1>6. ~ InProcess(a)' /\ \A e \in Exports : ~ Settles(a, e)'
  BY <1>4, <1>5 DEF InProcess, Settles
<1>7. Lists(a)'
  BY <1>1, <1>5, <1>6, ListsShrink
<1>8. Roles(a)'
  <2>1. rows[r.id].status # "absent" /\ rows' = rows
    BY <1>1 DEF InStep, Lists, store
  <2> QED
    BY <1>1, <1>4, <1>5, <2>1 DEF Roles
<1>9. CASE phase = "drop"
  <2>1. Closes(a)'
    BY <1>1, <1>3, <1>4, <1>5, <1>9 DEF Closes, Closed
  <2> QED
    BY <1>1, <1>5, <1>6, <1>7, <1>8, <1>9, <2>1 DEF InStep, Processes, Sees, Settlers
<1> QED
  BY <1>1, <1>4, <1>5, <1>7, <1>8, <1>9, AtRest

\* A task that has looked for the file goes on as a reconciliation may.
LEMMA ProbesInStep ==
    ASSUME Exact, NEW a \in Actors, ProbeArtifact(a) \/ AuthoriseDownload(a)
    PROVE  InStep(a)' /\ Apart(a) /\ UNCHANGED <<store, minted, disk>>
<1> USE DEF Exact
<1>1. /\ pc[a] \in {"probe", "authorise"} /\ a \notin Erasers /\ cur[a].status = "ready"
      /\ UNCHANGED <<store, minted, disk, seen, batch, cur>> /\ cur[a] \in Row
  BY DEF ProbeArtifact, AuthoriseDownload, InStep, Roles, IInv, Typed, Busy
<1>2. PICK phase :
        /\ Goto(a, phase)
        /\ \/ UNCHANGED want
              /\ phase \in {"reconcile", "commit", "rollback", "authorise", "stream"}
           \/ want' = [want EXCEPT ![a] = Failed(cur[a])] /\ phase = "drop"
  BY DEF ProbeArtifact, AuthoriseDownload, AfterReconcile
<1>3. pc'[a] = phase /\ cur'[a] = cur[a] /\ batch'[a] = batch[a]
      /\ (phase = "drop" => want'[a] = Failed(cur[a])) /\ Apart(a)
  <2>1. pc'[a] = phase
    BY <1>2, AfterGoto DEF IInv
  <2>2. phase = "drop" => want'[a] = Failed(cur[a])
    BY <1>2 DEF IInv, Typed, TypeOK
  <2>3. Apart(a)
    BY <1>1, <1>2, AfterGoto DEF Apart, OthersStay, IInv, Typed, TypeOK, store
  <2> QED
    BY <1>1, <2>1, <2>2, <2>3
<1>4. ~ InProcess(a)' /\ \A e \in Exports : ~ Settles(a, e)'
  BY <1>1, <1>2, <1>3 DEF InProcess, Settles
<1>5. Lists(a)'
  BY <1>1, <1>3, <1>4, ListsShrink
<1>6. Roles(a)'
  <2>1. rows' = rows /\ cur[a].id \in Exports
    BY <1>1 DEF store, Row
  <2>2. rows[cur[a].id].status # "absent"
    <3>1. events[cur[a].id]["ready"] = 1
      BY <1>1 DEF InStep, Lists
    <3> QED
      BY <2>1, <3>1 DEF Tables, Readied, Closed
  <2> QED
    BY <1>1, <1>2, <1>3, <2>1, <2>2 DEF Roles
<1>7. CASE phase = "drop"
  <2>1. Failed(cur[a]).status = "failed" /\ Failed(cur[a]).key = None
    BY <1>1 DEF Failed, Row
  <2>2. Closes(a)'
    BY <1>1, <1>3, <1>7, <2>1 DEF Closes, Closed
  <2> QED
    BY <1>1, <1>3, <1>4, <1>5, <1>6, <1>7, <2>2 DEF InStep, Processes, Sees, Settlers
<1> QED
  BY <1>1, <1>2, <1>3, <1>5, <1>6, <1>7, AtRest

\* What list_pending finds has never been ready, and nobody else settles it.
LEMMA ListsInStep ==
    ASSUME Exact, NEW a \in Actors, ListPending(a)
    PROVE  InStep(a)' /\ Apart(a) /\ UNCHANGED <<store, minted, disk>>
<1> USE DEF Exact
<1>1. /\ a \in Pollers /\ pc[a] = "reconcile" /\ Goto(a, "process")
      /\ UNCHANGED <<store, minted, disk, cur, want, seen>>
  BY DEF ListPending
<1>2. PICK page \in SUBSET {r \in {Visible(a, e) : e \in Exports} : r.status = "pending"} :
         batch' = [batch EXCEPT ![a] = page]
  BY DEF ListPending
<1>3. pc'[a] = "process" /\ batch'[a] = page /\ Apart(a)
  BY <1>1, <1>2 DEF Goto, IInv, Typed, TypeOK, Apart, OthersStay, store
<1>4. a \notin Erasers /\ a \notin Webs
  BY <1>1, ActorsAssumption
<1>5. ASSUME NEW r \in page
      PROVE  /\ r.status = "pending" /\ r.id \in Exports /\ r = Visible(a, r.id)
             /\ rows[r.id].status # "absent" /\ events[r.id]["ready"] = 0
             /\ \A b \in Actors : ~ Mine(b, r.id, "ready")
  <2>1. PICK e \in Exports : r = Visible(a, e) /\ r.status = "pending"
    BY <1>5
  <2>2. r.id = e
    BY <2>1 DEF Visible, IInv, Typed, Ids
  <2>3. rows[e].status # "absent"
    <3>1. CASE lock[e] = a
      BY <1>4, <3>1, NoneAssumption DEF Tables, Births
    <3>2. CASE lock[e] # a
      BY <2>1, <3>2 DEF Visible
    <3> QED
      BY <3>1, <3>2
  <2>4. events[e]["ready"] = 0
    BY <2>1 DEF Visible, Tables, Readied, Versions, Closed
  <2>5. ASSUME NEW b \in Actors, Mine(b, e, "ready") PROVE FALSE
    <3>1. lock[e] = b /\ work[e].status = "ready" /\ b \in Pollers
      BY <2>3, <2>5 DEF Tables, Versions, Drafted, EventType
    <3>2. b = a
      BY <1>1, <3>1 DEF OnePoll
    <3> QED
      BY <2>1, <3>1, <3>2 DEF Visible
  <2> QED
    BY <2>1, <2>2, <2>3, <2>4, <2>5
<1>6. Lists(a)'
  <2>1. cur[a].status = "ready" => events[cur[a].id]["ready"] = 1 /\ Complete(cur[a])
    BY DEF InStep, Lists
  <2>2. \A r, s \in page : r.id = s.id => r = s
    BY <1>5
  <2> QED
    BY <1>1, <1>3, <1>5, <2>1, <2>2 DEF Lists, Complete, store
<1>7. Roles(a)'
  BY <1>1, <1>3 DEF Roles
<1>8. Settlers(a)'
  <2> SUFFICES ASSUME NEW e \in Exports, Settles(a, e)'
               PROVE  /\ events[e]["ready"] = 0 /\ rows[e].status # "absent"
                      /\ \A b \in Actors : ~ Mine(b, e, "ready")
    BY <1>1 DEF Settlers, Mine, store
  <2>1. \E r \in page : r.id = e
    BY <1>3 DEF Settles
  <2> QED
    BY <1>5, <2>1
<1>9. Closes(a)' /\ Processes(a)' /\ Sees(a)'
  BY <1>3 DEF Closes, Processes, Sees
<1> QED
  BY <1>1, <1>3, <1>6, <1>7, <1>8, <1>9 DEF InStep

\* Taking the next pending request, or the next one to erase.
LEMMA TakesInStep ==
    ASSUME Exact, NEW a \in Actors, ProcessOne(a) \/ EraseForUser(a)
    PROVE  InStep(a)' /\ Apart(a) /\ UNCHANGED <<store, minted, disk>>
<1> USE DEF Exact
<1>1. UNCHANGED <<store, minted, disk, seen>> /\ pc[a] \in {"process", "erase"}
  BY DEF ProcessOne, EraseForUser
<1>2. CASE Goto(a, "commit") /\ UNCHANGED <<cur, want, batch>>
  <2>1. pc'[a] = "commit" /\ Apart(a)
    BY <1>1, <1>2, AfterGoto DEF Apart, OthersStay, IInv, store
  <2>2. ~ InProcess(a)'
    BY <2>1 DEF InProcess
  <2>3. Lists(a)' /\ Roles(a)'
    <3>1. Roles(a)'
      BY <2>1 DEF Roles
    <3> QED
      BY <1>1, <1>2, <2>2, <3>1, ListsShrink
  <2> QED
    BY <1>1, <2>1, <2>3, AtRest
<1>3. ASSUME ProcessOne(a), NEW r \in batch[a],
             Take(a, r, [r EXCEPT !.status = "processing", !.key = None, !.exp = None], "get")
      PROVE  InStep(a)' /\ Apart(a)
  <2>1. PICK w : w = [r EXCEPT !.status = "processing", !.key = None, !.exp = None]
    OBVIOUS
  <2>2. w.status = "processing" /\ Clean(w) /\ r.id \in Exports
    BY <2>1 DEF IInv, Typed, TypeOK, Row, Clean
  <2>3. pc[a] = "process" /\ a \in Pollers
    BY <1>3 DEF ProcessOne, InStep, Roles
  <2>4. a \notin Erasers /\ a \notin Webs
    BY <2>3, ActorsAssumption
  <2>5. /\ pc'[a] = "get" /\ cur'[a] = r /\ want'[a] = w /\ batch'[a] = batch[a] \ {r}
        /\ Apart(a)
    BY <1>1, <1>3, <2>1, AfterTake DEF IInv
  <2>6. InProcess(a)
    BY <2>3, <2>4 DEF InProcess
  <2>7. r.status = "pending" /\ rows[r.id].status # "absent"
    BY <2>3, <2>6 DEF InStep, Lists
  <2>8. InProcess(a)'
    BY <2>4, <2>5, <2>7 DEF InProcess
  <2>9. \A e \in Exports : Settles(a, e)' => Settles(a, e)
    BY <2>3, <2>5, <2>6 DEF Settles
  <2>10. Settlers(a)'
    BY <1>1, <2>9, SettlersShrink
  <2>11. Lists(a)'
    <3>1. \A s \in batch'[a] : s.id # cur'[a].id
      BY <2>5 DEF InStep, Lists
    <3>2. \A s \in batch'[a] : /\ rows[s.id].status # "absent" /\ s.status = "pending"
                               /\ s.status = "ready" => events[s.id]["ready"] = 1 /\ Complete(s)
      BY <2>3, <2>5, <2>6 DEF InStep, Lists
    <3>3. \A s, t \in batch'[a] : s.id = t.id => s = t
      BY <2>5 DEF InStep, Lists
    <3> QED
      BY <1>1, <2>5, <2>7, <3>1, <3>2, <3>3 DEF Lists, Complete, store
  <2>12. Roles(a)'
    BY <1>1, <2>3, <2>4, <2>5, <2>7 DEF Roles, store
  <2>13. Processes(a)' /\ Closes(a)' /\ Sees(a)'
    <3>1. Clean(want'[a])
      BY <2>2, <2>5
    <3> QED
      BY <2>2, <2>3, <2>5, <2>8, <3>1 DEF Processes, Closes, Sees, Clean
  <2> QED
    BY <2>5, <2>10, <2>11, <2>12, <2>13 DEF InStep
<1>4. ASSUME EraseForUser(a), NEW r \in batch[a],
             Take(a, r, [r EXCEPT !.status = "expired", !.key = None, !.exp = None], "drop")
      PROVE  InStep(a)' /\ Apart(a)
  <2>1. PICK w : w = [r EXCEPT !.status = "expired", !.key = None, !.exp = None]
    OBVIOUS
  <2>2. w.status = "expired" /\ Clean(w) /\ r.id \in Exports
    BY <2>1 DEF IInv, Typed, TypeOK, Row, Clean
  <2>3. pc[a] = "erase" /\ a \in Erasers
    BY <1>4 DEF EraseForUser, InStep, Roles
  <2>4. a \notin Pollers /\ a \notin Webs
    BY <2>3, ActorsAssumption
  <2>5. /\ pc'[a] = "drop" /\ cur'[a] = r /\ want'[a] = w /\ batch'[a] = batch[a] \ {r}
        /\ Apart(a)
    BY <1>1, <1>4, <2>1, AfterTake DEF IInv
  <2>6. ~ InProcess(a)' /\ \A e \in Exports : ~ Settles(a, e)'
    BY <2>3 DEF InProcess, Settles
  <2>7. Lists(a)'
    BY <1>1, <2>5, <2>6, ListsShrink
  <2>8. Roles(a)'
    <3>1. rows[r.id].status # "absent"
      BY DEF InStep, Lists
    <3> QED
      BY <1>1, <2>3, <2>5, <3>1 DEF Roles, store
  <2>9. Closes(a)'
    <3>1. Clean(want'[a])
      BY <2>2, <2>5
    <3> QED
      BY <2>2, <2>5, <3>1 DEF Closes, Clean, Closed
  <2> QED
    BY <2>5, <2>6, <2>7, <2>8, <2>9 DEF InStep, Processes, Sees, Settlers
<1>5. CASE ProcessOne(a)
  BY <1>1, <1>2, <1>3, <1>5 DEF ProcessOne
<1>6. CASE EraseForUser(a)
  BY <1>1, <1>2, <1>4, <1>6 DEF EraseForUser
<1> QED
  BY <1>5, <1>6

\* storage.delete, and the end of a download.
LEMMA DropsInStep ==
    ASSUME Exact, NEW a \in Actors, DropArtifact(a) \/ StreamArtifact(a)
    PROVE  InStep(a)' /\ Apart(a) /\ UNCHANGED <<store, minted>> /\ DiskMoves(a)
<1> USE DEF Exact
<1>1. UNCHANGED <<store, minted, batch, cur, want, seen>>
  BY DEF DropArtifact, StreamArtifact, local
<1>2. PICK phase \in {"get", "commit"} :
        /\ Goto(a, phase)
        /\ phase = "get" => pc[a] = "drop"
        /\ phase = "commit" => pc[a] = "stream"
  BY DEF DropArtifact, StreamArtifact
<1>3. pc'[a] = phase /\ cur'[a] = cur[a] /\ batch'[a] = batch[a] /\ want'[a] = want[a] /\ Apart(a)
  BY <1>1, <1>2, AfterGoto DEF IInv, Apart, OthersStay, store
<1>4. DiskMoves(a)
  BY DEF DropArtifact, StreamArtifact, local, DiskMoves, IInv, Typed, TypeOK
<1>5. Roles(a) /\ Closes(a) /\ Lists(a)
  BY DEF InStep
<1>6. ~ InProcess(a)' /\ \A e \in Exports : ~ Settles(a, e)'
  BY <1>2, <1>3, <1>5 DEF InProcess, Settles, Roles
<1>7. Lists(a)'
  BY <1>1, <1>3, <1>6, ListsShrink
<1>8. CASE phase = "commit"
  <2>1. Roles(a)'
    BY <1>3, <1>8 DEF Roles
  <2> QED
    BY <1>1, <1>3, <1>4, <1>7, <1>8, <2>1, AtRest
<1>9. CASE phase = "get"
  <2>1. ~ InProcess(a) /\ pc[a] = "drop"
    BY <1>2, <1>9 DEF InProcess
  <2>2. Roles(a)'
    BY <1>1, <1>3, <1>5, <1>9, <2>1 DEF Roles, store
  <2>3. Closes(a)'
    BY <1>3, <1>5, <1>9, <2>1 DEF Closes, Clean
  <2> QED
    BY <1>1, <1>3, <1>4, <1>6, <1>7, <1>9, <2>2, <2>3 DEF InStep, Processes, Sees, Settlers
<1> QED
  BY <1>8, <1>9

\* session.get inside save().
LEMMA GetsInStep ==
    ASSUME Exact, NEW a \in Actors, SaveGet(a)
    PROVE  InStep(a)' /\ Apart(a) /\ UNCHANGED <<store, minted, disk>>
<1> USE DEF Exact
<1>1. /\ pc[a] = "get" /\ Goto(a, "flush")
      /\ UNCHANGED <<store, minted, disk, batch, cur, want>>
      /\ seen' = [seen EXCEPT ![a] = Visible(a, cur[a].id)]
  BY DEF SaveGet
<1>2. PICK e \in Exports : e = cur[a].id
  BY <1>1 DEF IInv, Typed, Busy, Row
<1>3. /\ pc'[a] = "flush" /\ cur'[a] = cur[a] /\ batch'[a] = batch[a] /\ want'[a] = want[a]
      /\ seen'[a] = Visible(a, e)
  BY <1>1, <1>2 DEF IInv, Typed, TypeOK, Goto
<1>4. Apart(a)
  BY <1>1, AfterGoto DEF IInv, Typed, TypeOK, Apart, OthersStay, store
<1>5. InProcess(a)' <=> InProcess(a)
  BY <1>1, <1>3 DEF InProcess
<1>6. /\ rows' = rows /\ work' = work /\ lock' = lock /\ disk' = disk /\ events' = events
  BY <1>1 DEF store
<1>7. Lists(a)'
  BY <1>1, <1>3, <1>5, ListsShrink
<1>8. Roles(a)'
  BY <1>1, <1>3, <1>6 DEF InStep, Roles
<1>9. Closes(a)'
  BY <1>1, <1>3, <1>5 DEF InStep, Closes, Clean
<1>10. Processes(a)'
  <2>1. Holds(a)' <=> Holds(a)
    BY <1>3, <1>6 DEF Holds
  <2> QED
    BY <1>1, <1>3, <1>5, <1>6, <2>1 DEF InStep, Processes, Clean, Complete
<1>11. Settlers(a)'
  <2>1. \A f \in Exports : Settles(a, f)' => Settles(a, f)
    BY <1>1, <1>3, <1>5 DEF Settles
  <2> QED
    BY <1>1, <2>1, SettlersShrink
<1>12. Sees(a)'
  <2>1. ASSUME InProcess(a), want[a].status = "processing"
        PROVE  Visible(a, e).status # "processing"
    <3>1. ~ InHand(a, e)
      BY <1>1, <2>1 DEF InHand
    <3> QED
      BY <3>1 DEF Visible, IInv, Owned, NoCommittedProcessing, ProcessingIsInHand
  <2>2. ASSUME InProcess(a), want[a].status # "processing"
        PROVE  Visible(a, e) = work[e]
    BY <1>1, <1>2, <2>2 DEF InStep, Processes, Holds, Visible
  <2>3. ASSUME Visible(a, e).status \in Closed,
               cur[a].status = "ready" \/ ~ Clean(Visible(a, e))
        PROVE  /\ events[e]["ready"] = 1
               /\ rows[e].status \in Closed \/ (lock[e] = a /\ work[e].status \in Closed)
    <3>1. ~ Clean(Visible(a, e)) => events[e]["ready"] = 1
      <4>1. events[e]["ready"] \in {0, 1}
        BY DEF Tables, Versions
      <4>2. (\E b \in Actors : Mine(b, e, "ready")) => work[e].status = "ready"
        BY DEF Tables, Drafted
      <4> QED
        BY <2>3, <4>1, <4>2 DEF Tables, Unready, Visible, Closed
    <3>2. cur[a].status = "ready" => events[e]["ready"] = 1
      BY <1>2 DEF InStep, Lists
    <3> QED
      BY <2>3, <3>1, <3>2 DEF Visible
  <2>4. cur[a].status = "ready" => Visible(a, e).status \in {"ready"} \cup Closed
    BY <1>2 DEF InStep, Lists, Tables, Readied, Visible
  <2> QED
    BY <1>2, <1>3, <1>5, <1>6, <2>1, <2>2, <2>3, <2>4 DEF Sees, Clean
<1> QED
  BY <1>1, <1>4, <1>7, <1>8, <1>9, <1>10, <1>11, <1>12 DEF InStep

\* The file of the export in hand is opened, written, or could not be.
LEMMA FilesInStep ==
    ASSUME Exact, NEW a \in Actors, OpenArtifact(a) \/ WriteArtifact(a)
    PROVE  InStep(a)' /\ Apart(a) /\ UNCHANGED <<store, minted>> /\ DiskMoves(a)
<1> USE DEF Exact
<1>1. /\ pc[a] \in {"open", "write"} /\ UNCHANGED <<store, minted, batch, cur, seen>>
      /\ now \in Nat
  BY DEF OpenArtifact, WriteArtifact, IInv, Typed, TypeOK
<1>2. /\ a \notin Erasers /\ cur[a].status = "pending" /\ Holds(a) /\ cur[a] \in Row
      /\ InProcess(a)
  BY <1>1 DEF InStep, Roles, Processes, InProcess, IInv, Typed, Busy
<1>3. PICK e \in Exports : e = cur[a].id
  BY <1>2 DEF Row
<1>4. Settles(a, e)
  BY <1>1, <1>2, <1>3 DEF Settles
<1>5. PICK good : good = [cur[a] EXCEPT !.status = "ready", !.key = cur[a].id,
                                        !.exp = now + ExpiryHours]
  OBVIOUS
<1>6. /\ good.status = "ready" /\ good.id = e /\ Complete(good)
      /\ Failed(cur[a]).status = "failed" /\ Clean(Failed(cur[a]))
  <2>1. now + ExpiryHours \in Nat
    BY <1>1, BoundsAssumption
  <2>2. now + ExpiryHours # None
    BY <2>1, NoneAssumption
  <2> QED
    BY <1>2, <1>3, <1>5, <2>2 DEF Row, Complete, Clean, Failed
<1>7. PICK phase :
        /\ Goto(a, phase)
        /\ \/ phase = "write" /\ UNCHANGED want /\ disk' = [disk EXCEPT ![e] = "partial"]
           \/ phase = "rollback" /\ UNCHANGED <<disk, want>>
           \/ /\ phase = "get" /\ a \in Pollers /\ UNCHANGED disk
              /\ want' = [want EXCEPT ![a] = Failed(cur[a])]
           \/ /\ phase = "get" /\ disk' = [disk EXCEPT ![e] = "whole"]
              /\ want' = [want EXCEPT ![a] = good]
  BY <1>3, <1>5 DEF OpenArtifact, WriteArtifact, ExportFails
<1>8. pc'[a] = phase /\ cur'[a] = cur[a] /\ batch'[a] = batch[a] /\ Apart(a)
  <2>1. \A b \in Actors \ {a} : want'[b] = want[b]
    BY <1>7 DEF IInv, Typed, TypeOK
  <2> QED
    BY <1>1, <1>7, <2>1, AfterGoto DEF IInv, Apart, OthersStay, store
<1>9. DiskMoves(a)
  BY <1>4, <1>7 DEF DiskMoves, IInv, Typed, TypeOK
<1>10. InProcess(a)' <=> phase # "rollback"
  BY <1>2, <1>7, <1>8 DEF InProcess
<1>11. Lists(a)'
  BY <1>1, <1>2, <1>8, <1>10, ListsShrink
<1>12. Roles(a)'
  <2>1. a \in Webs \/ a \in Pollers
    BY <1>2 DEF Actors
  <2>2. a \in Pollers => rows[e].status # "absent"
    BY <1>4 DEF InStep, Settlers
  <2> QED
    BY <1>1, <1>2, <1>3, <1>7, <1>8, <2>1, <2>2 DEF Roles, store
<1>13. Settlers(a)'
  <2>1. \A f \in Exports : Settles(a, f)' => Settles(a, f)
    BY <1>1, <1>2, <1>8, <1>10 DEF Settles
  <2> QED
    BY <1>1, <2>1, SettlersShrink
<1>14. Closes(a)' /\ Sees(a)'
  BY <1>7, <1>8, <1>10 DEF Closes, Sees
<1>15. Processes(a)'
  <2>1. Holds(a)'
    BY <1>1, <1>2, <1>8 DEF Holds, store
  <2>2. CASE phase \in {"write", "rollback"}
    BY <1>8, <2>1, <2>2 DEF Processes
  <2>3. CASE phase = "get" /\ a \in Pollers /\ want' = [want EXCEPT ![a] = Failed(cur[a])]
    <3>1. want'[a].status = "failed" /\ Clean(want'[a])
      BY <1>6, <2>3 DEF IInv, Typed, TypeOK
    <3> QED
      BY <1>8, <2>1, <2>3, <3>1 DEF Processes, Clean
  <2>4. CASE /\ phase = "get" /\ disk' = [disk EXCEPT ![e] = "whole"]
             /\ want' = [want EXCEPT ![a] = good]
    <3>1. want'[a].status = "ready" /\ want'[a].id = e /\ Complete(want'[a])
          /\ disk'[e] # "partial"
      BY <1>6, <2>4 DEF IInv, Typed, TypeOK
    <3> QED
      BY <1>3, <1>8, <2>1, <2>4, <3>1 DEF Processes, Complete
  <2> QED
    BY <1>7, <2>2, <2>3, <2>4
<1> QED
  BY <1>1, <1>8, <1>9, <1>11, <1>12, <1>13, <1>14, <1>15 DEF InStep

\* What the UPDATE of a save leaves, column by column, and the events it logs.
LEMMA Flushed ==
    ASSUME Typed, NEW a \in Actors, SaveFlush(a)
    PROVE  /\ cur[a].id \in Exports /\ want[a] \in Row /\ seen[a] \in Row
           /\ pc[a] = "flush" /\ lock[cur[a].id] \in {None, a}
           /\ UNCHANGED <<disk, minted, batch>>
           /\ \E r \in Row, ts \in SUBSET EventType :
                 /\ Write(a, r, ts) /\ r.id = cur[a].id
                 /\ r.status = IF want[a].status # seen[a].status THEN want[a].status
                                                                 ELSE work[r.id].status
                 /\ r.key = IF want[a].key # seen[a].key THEN want[a].key ELSE work[r.id].key
                 /\ r.exp = IF want[a].exp # seen[a].exp THEN want[a].exp ELSE work[r.id].exp
                 /\ "created" \notin ts
                 /\ "ready" \in ts <=> seen[a].status = "processing" /\ want[a].status = "ready"
<1>1. PICK e \in Exports : e = cur[a].id
  BY DEF SaveFlush, Typed, Busy, Row
<1>2. /\ want[a] \in Row /\ seen[a] \in Row /\ work[e] \in Row /\ work[e].id = e
      /\ pc[a] = "flush" /\ lock[e] \in {None, a} /\ UNCHANGED <<disk, minted, batch>>
  BY <1>1 DEF SaveFlush, Typed, TypeOK, Ids, Busy
<1>3. PICK r \in Row : r = Merge(work[e], seen[a], want[a])
  BY <1>2, RowsMerged
<1>4. /\ r.id = e
      /\ r.status = IF want[a].status # seen[a].status THEN want[a].status ELSE work[e].status
      /\ r.key = IF want[a].key # seen[a].key THEN want[a].key ELSE work[e].key
      /\ r.exp = IF want[a].exp # seen[a].exp THEN want[a].exp ELSE work[e].exp
  BY <1>2, <1>3 DEF Merge, Row
<1>5. PICK ts \in SUBSET EventType : ts = LifecycleEvents(seen[a].status, want[a].status)
  BY DEF LifecycleEvents, EventType
<1>6. "created" \notin ts
      /\ ("ready" \in ts <=> seen[a].status = "processing" /\ want[a].status = "ready")
  BY <1>5 DEF LifecycleEvents
<1>7. Write(a, r, ts)
  BY <1>1, <1>3, <1>5 DEF SaveFlush
<1> QED
  BY <1>1, <1>2, <1>4, <1>6, <1>7

\* The local variables after a save.
LEMMA AfterFlush ==
    ASSUME Typed, NEW a \in Actors, SaveFlush(a)
    PROVE  /\ pc'[a] = AfterSave(a) /\ batch'[a] = batch[a] /\ Apart(a)
           /\ cur'[a] = IF want[a].status = "processing" THEN cur[a] ELSE NoRow
<1>1. /\ pc' = [pc EXCEPT ![a] = AfterSave(a)] /\ batch' = batch
      /\ want' = [want EXCEPT ![a] = NoRow] /\ seen' = [seen EXCEPT ![a] = NoRow]
      /\ cur' = [cur EXCEPT ![a] = IF want[a].status = "processing" THEN cur[a] ELSE NoRow]
  BY DEF SaveFlush, Goto, Typed, TypeOK
<1>2. \A b \in Actors \ {a} : drafts'[b] = drafts[b]
  BY DEF SaveFlush, Write, Typed, TypeOK
<1> QED
  BY <1>1, <1>2 DEF Typed, TypeOK, Apart, OthersStay

\* A save that settles: it starts the processing, or writes how it ended over
\* the processing row it has read.
LEMMA SettlingFits ==
    ASSUME Exact, NEW a \in Actors, SaveFlush(a), InProcess(a), NEW r \in Row,
           NEW ts \in SUBSET EventType, r.id = cur[a].id,
           r.status = (IF want[a].status # seen[a].status THEN want[a].status
                                                          ELSE work[r.id].status),
           r.key = (IF want[a].key # seen[a].key THEN want[a].key ELSE work[r.id].key),
           r.exp = (IF want[a].exp # seen[a].exp THEN want[a].exp ELSE work[r.id].exp),
           "created" \notin ts,
           "ready" \in ts <=> seen[a].status = "processing" /\ want[a].status = "ready"
    PROVE  /\ Fitting(a, r, ts) /\ Settles(a, r.id)
           /\ want[a].status = "processing" => r.status = "processing" /\ a \in Pollers
<1> USE DEF Exact
<1>1. PICK e \in Exports : e = r.id
  BY DEF Row
<1>2. /\ want[a] \in Row /\ seen[a] \in Row /\ pc[a] = "flush" /\ lock[e] \in {None, a}
      /\ cur[a].id = e
  BY <1>1, Flushed DEF IInv
<1>3. Settles(a, e)
  BY <1>2 DEF Settles
<1>4. /\ events[e]["ready"] = 0 /\ \A b \in Actors : ~ Mine(b, e, "ready")
      /\ IF a \in Pollers THEN rows[e].status # "absent"
                          ELSE rows[e].status = "absent" /\ lock[e] = a
  BY <1>3 DEF InStep, Settlers
<1>5. work[e].status # "ready" /\ Clean(work[e])
  BY <1>4 DEF Tables, Unready
<1>6. rows[e].status = "absent" => a \in Webs /\ lock[e] # None
  BY <1>4, NoneAssumption DEF InProcess, Actors
<1>7. \A b \in Actors : Settles(b, e) => b = a
  BY <1>3, OneSettler
<1>8. CASE want[a].status = "processing" /\ Clean(want[a]) /\ a \in Pollers
  <2>1. r.status = "processing" /\ Clean(r) /\ "ready" \notin ts
    BY <1>1, <1>2, <1>5, <1>8 DEF InStep, Sees, Clean
  <2> QED
    BY <1>1, <1>2, <1>3, <1>4, <1>6, <1>8, <2>1 DEF Fitting
<1>9. CASE want[a].status = "failed" /\ Clean(want[a]) /\ Holds(a)
  <2>1. seen[a] = work[e] /\ work[e].status = "processing"
    BY <1>2, <1>9 DEF InStep, Sees, Holds
  <2>2. r.status = "failed" /\ Clean(r) /\ "ready" \notin ts
    BY <1>1, <1>9, <2>1 DEF Clean
  <2> QED
    BY <1>1, <1>2, <1>3, <1>4, <1>6, <1>9, <2>2 DEF Fitting
<1>10. CASE /\ want[a].status = "ready" /\ want[a].id = cur[a].id /\ Complete(want[a])
            /\ Holds(a) /\ disk[cur[a].id] # "partial"
  <2>1. seen[a] = work[e] /\ work[e].status = "processing"
    BY <1>2, <1>10 DEF InStep, Sees, Holds
  <2>2. r.status = "ready" /\ Complete(r) /\ "ready" \in ts
    BY <1>1, <1>2, <1>10, <2>1 DEF Complete
  <2>3. a \in Pollers \/ rows[e].status = "absent"
    BY <1>4
  <2> QED
    BY <1>1, <1>2, <1>3, <1>4, <1>6, <1>7, <1>10, <2>2, <2>3 DEF Fitting
<1> QED
  BY <1>2, <1>8, <1>9, <1>10 DEF InStep, Processes

\* Any other save closes the row, or leaves it ready with all it needs.
LEMMA ClosingFits ==
    ASSUME Exact, NEW a \in Actors, SaveFlush(a), ~ InProcess(a), NEW r \in Row,
           NEW ts \in SUBSET EventType, r.id = cur[a].id,
           r.status = (IF want[a].status # seen[a].status THEN want[a].status
                                                          ELSE work[r.id].status),
           r.key = (IF want[a].key # seen[a].key THEN want[a].key ELSE work[r.id].key),
           r.exp = (IF want[a].exp # seen[a].exp THEN want[a].exp ELSE work[r.id].exp),
           "created" \notin ts,
           "ready" \in ts <=> seen[a].status = "processing" /\ want[a].status = "ready"
    PROVE  Fitting(a, r, ts) /\ want[a].status # "processing"
<1> USE DEF Exact
<1>1. PICK e \in Exports : e = r.id
  BY DEF Row
<1>2. /\ want[a] \in Row /\ seen[a] \in Row /\ pc[a] = "flush" /\ lock[e] \in {None, a}
      /\ cur[a].id = e
  BY <1>1, Flushed DEF IInv
<1>3. /\ want[a].status \in Closed /\ want[a].key = None
      /\ a \in Erasers => Clean(want[a])
  BY <1>2 DEF InStep, Closes
<1>4. a \notin Erasers => cur[a].status = "ready" /\ events[e]["ready"] = 1
  BY <1>2 DEF InProcess, InStep, Roles, Lists
<1>5. rows[e].status # "absent"
  <2>1. a \in Webs => cur[a].status # "pending"
    BY <1>2, ActorsAssumption DEF InProcess
  <2> QED
    BY <1>2, <2>1 DEF InStep, Roles
<1>6. "ready" \notin ts /\ r.status # "absent"
  <2>1. work[e].status # "absent"
    BY <1>5 DEF Tables, Births
  <2> QED
    BY <1>1, <1>3, <2>1 DEF Closed
<1>7. ~ Mine(a, e, "ready")
  BY <1>4, <1>5, ActorsAssumption DEF Tables, Drafted
<1>8. \A b \in Actors : ~ Mine(b, e, "ready")
  <2>1. \A b \in Actors : Mine(b, e, "ready") => lock[e] = b /\ b # None
    BY NoneAssumption DEF Tables, Versions, EventType
  <2> QED
    BY <1>2, <1>7, <2>1
<1>9. ASSUME r.status = "ready" PROVE Complete(r)
  <2>1. work[e].status = "ready" /\ seen[a].status = want[a].status
    BY <1>1, <1>3, <1>9 DEF Closed
  <2>2. Clean(seen[a])
    <3> SUFFICES ASSUME ~ Clean(seen[a]) PROVE FALSE
      OBVIOUS
    <3>1. /\ events[e]["ready"] = 1
          /\ rows[e].status \in Closed \/ work[e].status \in Closed
      BY <1>2, <1>3, <2>1 DEF InStep, Sees
    <3>2. work[e].status \in Closed
      BY <3>1 DEF Tables, Readied
    <3> QED
      BY <2>1, <3>2 DEF Closed
  <2>3. work[e].key = e /\ work[e].exp # None
    BY <1>1, <2>1 DEF Tables, Versions, Complete, IInv, Typed, Ids
  <2> QED
    BY <1>1, <1>3, <2>2, <2>3 DEF Clean, Complete
<1>10. ASSUME events[e]["ready"] = 0 PROVE r.status # "ready" /\ Clean(r)
  <2>1. Clean(want[a])
    BY <1>3, <1>4, <1>10
  <2>2. work[e].status # "ready" /\ Clean(work[e])
    BY <1>8, <1>10 DEF Tables, Unready
  <2> QED
    BY <1>1, <1>3, <2>1, <2>2 DEF Clean, Closed
<1>11. ASSUME events[e]["ready"] = 1
       PROVE  /\ r.status \in {"ready"} \cup Closed
              /\ rows[e].status \in Closed => r.status \in Closed
  BY <1>1, <1>3, <1>11 DEF Tables, Readied
<1> QED
  BY <1>1, <1>2, <1>3, <1>5, <1>6, <1>7, <1>9, <1>10, <1>11 DEF Fitting, Closed

\* A flush keeps everything: either it starts or ends the processing of a row that was
\* never ready, or it closes one that was.
LEMMA AtFlush ==
    ASSUME Exact, NEW a \in Actors, SaveFlush(a)
    PROVE  Tables' /\ \A b \in Actors : InStep(b)'
<1> USE DEF Exact
<1>1. PICK e \in Exports : e = cur[a].id
  BY Flushed DEF IInv
<1>2. /\ pc[a] = "flush" /\ UNCHANGED <<disk, minted, batch>>
      /\ pc'[a] = AfterSave(a) /\ batch'[a] = batch[a] /\ Apart(a)
      /\ cur'[a] = IF want[a].status = "processing" THEN cur[a] ELSE NoRow
  BY Flushed, AfterFlush DEF IInv
<1>3. PICK r \in Row, ts \in SUBSET EventType :
        /\ Write(a, r, ts) /\ r.id = e
        /\ r.status = IF want[a].status # seen[a].status THEN want[a].status
                                                        ELSE work[r.id].status
        /\ r.key = IF want[a].key # seen[a].key THEN want[a].key ELSE work[r.id].key
        /\ r.exp = IF want[a].exp # seen[a].exp THEN want[a].exp ELSE work[r.id].exp
        /\ "created" \notin ts
        /\ "ready" \in ts <=> seen[a].status = "processing" /\ want[a].status = "ready"
  BY <1>1, Flushed DEF IInv
<1>4. Fitting(a, r, ts)
  BY <1>1, <1>3, SettlingFits, ClosingFits
<1>5. want[a].status = "processing" =>
         InProcess(a) /\ Settles(a, e) /\ r.status = "processing" /\ a \in Pollers
  BY <1>1, <1>3, SettlingFits, ClosingFits
<1>6. e <= minted' /\ minted' \in Nat /\ minted' >= minted
  <2>1. rows[e].status # "absent" \/ lock[e] # None
    <3>1. \/ InProcess(a) /\ Settles(a, e)
          \/ ~ InProcess(a) /\ (a \in Webs => cur[a].status # "pending")
      BY <1>1, <1>2, ActorsAssumption DEF InProcess, Settles
    <3>2. CASE InProcess(a) /\ Settles(a, e)
      BY <3>2, NoneAssumption DEF InStep, Settlers
    <3>3. CASE ~ InProcess(a) /\ (a \in Webs => cur[a].status # "pending")
      BY <1>1, <1>2, <3>3 DEF InStep, Roles
    <3> QED
      BY <3>1, <3>2, <3>3
  <2>2. minted \in Nat /\ e \in Nat
    BY DEF IInv, Typed, TypeOK, Exports
  <2> QED
    BY <1>2, <2>1, <2>2 DEF Tables, Births
<1>7. Tables' /\ \A b \in Actors \ {a} : InStep(b)'
  BY <1>2, <1>3, <1>4, <1>6, AtWrite
<1>8. /\ rows' = rows /\ events' = events /\ work'[e] = r /\ lock'[e] = a
      /\ \A b \in Actors, f \in Exports :
            Mine(b, f, "ready")' => Mine(b, f, "ready") \/ (b = a /\ f = e /\ "ready" \in ts)
  BY <1>3 DEF Write, IInv, Typed, TypeOK, Mine
<1>9. /\ \A s \in batch[a] :
            /\ rows[s.id].status # "absent"
            /\ s.status = "ready" => events[s.id]["ready"] = 1 /\ Complete(s)
            /\ a \in Pollers /\ InProcess(a) => s.status = "pending" /\ s.id # e
      /\ \A s, t \in batch[a] : s.id = t.id => s = t
      /\ cur[a].status = "ready" => events[cur[a].id]["ready"] = 1 /\ Complete(cur[a])
  BY <1>1, <1>2 DEF InStep, Lists
<1>10. cur'[a].status = "ready" => events[cur'[a].id]["ready"] = 1 /\ Complete(cur'[a])
  BY <1>2, <1>9 DEF NoRow, AbsentRow
<1>11. ASSUME want[a].status = "processing" PROVE InStep(a)'
  <2>1. pc'[a] = "open" /\ cur'[a] = cur[a]
    BY <1>2, <1>11 DEF AfterSave
  <2>2. a \notin Erasers /\ cur[a].status = "pending"
    BY <1>2, <1>5, <1>11 DEF InProcess
  <2>3. Lists(a)'
    BY <1>1, <1>2, <1>5, <1>8, <1>9, <1>10, <1>11, <2>1 DEF Lists, Complete
  <2>4. Roles(a)' /\ Closes(a)' /\ Sees(a)'
    BY <2>1, <2>2 DEF Roles, Closes, Sees
  <2>5. Processes(a)'
    BY <1>1, <1>5, <1>8, <1>11, <2>1 DEF Processes, Holds
  <2>6. Settlers(a)'
    <3> SUFFICES ASSUME NEW f \in Exports, Settles(a, f)'
                 PROVE  /\ events[f]["ready"] = 0 /\ rows[f].status # "absent"
                        /\ \A b \in Actors : ~ Mine(b, f, "ready")'
      BY <1>5, <1>8, <1>11 DEF Settlers
    <3>1. Settles(a, f)
      BY <1>1, <1>2, <1>5, <1>11, <2>1 DEF Settles
    <3>2. "ready" \notin ts
      BY <1>3, <1>11
    <3> QED
      BY <1>5, <1>8, <1>11, <3>1, <3>2 DEF InStep, Settlers
  <2> QED
    BY <2>3, <2>4, <2>5, <2>6 DEF InStep
<1>12. ASSUME want[a].status # "processing" PROVE InStep(a)'
  <2>1. /\ cur'[a] = NoRow
        /\ pc'[a] \in {"erase", "reconcile", "process", "rollback", "commit"}
        /\ pc'[a] = "erase" => a \in Erasers
        /\ pc'[a] = "reconcile" => a \in Pollers /\ a \notin Erasers
        /\ pc'[a] = "process" => /\ a \in Pollers /\ a \notin Erasers
                                 /\ cur[a].status # "ready"
    BY <1>2, <1>12, ActorsAssumption DEF AfterSave
  <2>2. Roles(a)'
    BY <2>1 DEF Roles
  <2>3. CASE pc'[a] # "process"
    <3>1. ~ InProcess(a)'
      BY <2>1, <2>3 DEF InProcess
    <3>2. Lists(a)'
      BY <1>2, <1>8, <1>9, <1>10, <3>1 DEF Lists, Complete
    <3> QED
      BY <2>1, <2>2, <2>3, <3>2, AtRest
  <2>4. CASE pc'[a] = "process"
    <3>1. InProcess(a)
      BY <1>2, <2>1, <2>4 DEF InStep, Roles, InProcess
    <3>2. Lists(a)'
      BY <1>2, <1>8, <1>9, <1>10, <2>1, <2>4, <3>1 DEF Lists, Complete
    <3>3. Settlers(a)'
      <4> SUFFICES ASSUME NEW f \in Exports, Settles(a, f)'
                   PROVE  /\ events[f]["ready"] = 0 /\ rows[f].status # "absent"
                          /\ \A b \in Actors : ~ Mine(b, f, "ready")'
        BY <1>8, <2>1, <2>4 DEF Settlers
      <4>1. \E s \in batch[a] : s.id = f
        BY <1>2, <2>4 DEF Settles
      <4>2. f # e /\ Settles(a, f)
        BY <1>9, <2>1, <2>4, <3>1, <4>1 DEF Settles
      <4> QED
        BY <1>8, <2>1, <2>4, <4>2 DEF InStep, Settlers
    <3>4. Closes(a)' /\ Processes(a)' /\ Sees(a)'
      BY <2>4 DEF Closes, Processes, Sees
    <3> QED
      BY <2>2, <3>2, <3>3, <3>4 DEF InStep
  <2> QED
    BY <2>3, <2>4
<1> QED
  BY <1>7, <1>11, <1>12

\* So does a new request: its row, its id and its export_created event are nobody else's.
LEMMA AtCreate ==
    ASSUME Exact, NEW a \in Actors, NEW u \in Users, CreateDataExport(a, u)
    PROVE  Tables' /\ \A b \in Actors : InStep(b)'
<1> USE DEF Exact
<1>1. /\ a \in Webs /\ pc[a] = "idle" /\ minted < MaxExports /\ minted' = minted + 1
      /\ UNCHANGED <<disk, batch, want, seen>> /\ minted \in Nat
  BY DEF CreateDataExport, IInv, Typed, TypeOK
<1>2. PICK e \in Exports : e = minted + 1
  BY <1>1, BoundsAssumption DEF Exports
<1>3. PICK p : p = [id |-> e, subject |-> u, status |-> "pending",
                    key |-> None, exp |-> None]
  OBVIOUS
<1>4. PICK q : q = [p EXCEPT !.status = "processing"]
  OBVIOUS
<1>5. /\ p \in Row /\ p.id = e /\ p.status = "pending" /\ Clean(p)
      /\ q \in Row /\ q.id = e /\ q.status = "processing" /\ Clean(q)
  BY <1>3, <1>4 DEF Row, Status, Clean
<1>6. a \notin Erasers /\ a \notin Pollers
  BY <1>1, ActorsAssumption
<1>7. PICK r \in {p, q}, ts \in SUBSET EventType, phase \in {"commit", "open"} :
        /\ Write(a, r, ts) /\ Goto(a, phase) /\ "created" \in ts /\ "ready" \notin ts
        /\ \/ phase = "commit" /\ UNCHANGED cur
           \/ phase = "open" /\ r = q /\ cur' = [cur EXCEPT ![a] = p]
  <2>1. {"created"} \in SUBSET EventType /\ {"created", "started"} \in SUBSET EventType
    BY DEF EventType
  <2>2. \/ Write(a, p, {"created"}) /\ Goto(a, "commit") /\ UNCHANGED cur
        \/ /\ Write(a, q, {"created", "started"}) /\ Goto(a, "open")
           /\ cur' = [cur EXCEPT ![a] = p]
    BY <1>2, <1>3, <1>4 DEF CreateDataExport
  <2> QED
    BY <2>1, <2>2
<1>8. /\ pc'[a] = phase /\ batch'[a] = batch[a] /\ Apart(a)
      /\ phase = "commit" => cur'[a] = cur[a]
      /\ phase = "open" => cur'[a] = p
  <2>1. \A b \in Actors \ {a} : drafts'[b] = drafts[b]
    BY <1>7 DEF Write, IInv, Typed, TypeOK
  <2> QED
    BY <1>1, <1>7, <2>1 DEF Goto, IInv, Typed, TypeOK, Apart, OthersStay
<1>9. rows[e].status = "absent" /\ lock[e] = None
  BY <1>1, <1>2 DEF Tables, Births
<1>10. \A b \in Actors : b # None /\ ~ Mine(b, e, "ready")
  BY <1>9, NoneAssumption DEF Tables, Versions, EventType
<1>11. events[e]["ready"] = 0
  BY <1>9 DEF Tables, Versions, Readied, Closed
<1>12. Fitting(a, r, ts)
  BY <1>1, <1>5, <1>7, <1>9, <1>10, <1>11 DEF Fitting
<1>13. Tables' /\ \A b \in Actors \ {a} : InStep(b)'
  BY <1>1, <1>2, <1>5, <1>7, <1>8, <1>12, AtWrite
<1>14. /\ rows' = rows /\ events' = events /\ work'[e] = r /\ lock'[e] = a
       /\ \A b \in Actors : ~ Mine(b, e, "ready")'
  BY <1>5, <1>7, <1>10 DEF Write, IInv, Typed, TypeOK, Mine
<1>15. Lists(a)'
  BY <1>5, <1>6, <1>7, <1>8, <1>14 DEF InStep, Lists, Complete
<1>16. Roles(a)'
  BY <1>5, <1>6, <1>7, <1>8 DEF Roles
<1>17. ASSUME phase = "commit" PROVE InStep(a)'
  BY <1>8, <1>15, <1>16, <1>17, AtRest
<1>18. ASSUME phase = "open" PROVE InStep(a)'
  <2>1. Closes(a)' /\ Sees(a)'
    BY <1>8, <1>18 DEF Closes, Sees
  <2>2. Processes(a)'
    BY <1>5, <1>7, <1>8, <1>14, <1>18 DEF Processes, Holds
  <2>3. Settlers(a)'
    <3> SUFFICES ASSUME NEW f \in Exports, Settles(a, f)' PROVE f = e
      BY <1>6, <1>9, <1>11, <1>14 DEF Settlers
    <3> QED
      BY <1>5, <1>6, <1>8, <1>18 DEF Settles
  <2> QED
    BY <1>15, <1>16, <2>1, <2>2, <2>3 DEF InStep
<1> QED
  BY <1>7, <1>13, <1>17, <1>18
-------------------------------------------------------------------------------

\* With no rows and no tasks the invariant holds.
LEMMA ExactInit == Init /\ OnePoll => Exact
<1> SUFFICES ASSUME Init, OnePoll PROVE Exact
  OBVIOUS
<1>1. IInv
  BY TypedInit DEF Init, IInv, Owned, NoCommittedProcessing, ProcessingIsInHand,
                   ProcessingIsSeen, AbsentRow
<1>2. \A a \in Actors, e \in Exports, t \in EventType : ~ Mine(a, e, t)
  BY DEF Init, Mine
<1>3. Tables
  <2>1. \A e \in Exports : /\ rows[e] = AbsentRow(e) /\ work[e] = rows[e] /\ lock[e] = None
                           /\ events[e]["created"] = 0 /\ events[e]["ready"] = 0
    BY DEF Init, EventType
  <2>2. \A e \in Exports : /\ rows[e].status = "absent" /\ rows[e].subject = None
                           /\ Clean(rows[e])
    <3>1. \A e \in Exports : /\ AbsentRow(e).status = "absent" /\ AbsentRow(e).subject = None
                             /\ Clean(AbsentRow(e))
      BY DEF AbsentRow, Clean
    <3> QED
      BY <2>1, <3>1
  <2>3. \A a \in Actors : a # None
    BY NoneAssumption
  <2>4. Births
    BY <1>2, <2>1, <2>2, <2>3 DEF Births, EventType
  <2> QED
    BY <1>2, <2>1, <2>2, <2>4 DEF Tables, Versions, Unready, Drafted, Readied, EventType
<1>4. ASSUME NEW a \in Actors PROVE InStep(a)
  <2>1. pc[a] = "idle" /\ batch[a] = {} /\ cur[a] = NoRow
    BY DEF Init
  <2>2. ~ InProcess(a) /\ \A e \in Exports : ~ Settles(a, e)
    BY <2>1 DEF InProcess, Settles
  <2>3. NoRow.status = "absent"
    BY DEF NoRow, AbsentRow
  <2> QED
    BY <2>1, <2>2, <2>3 DEF InStep, Lists, Roles, Closes, Processes, Sees, Settlers
<1> QED
  BY <1>1, <1>3, <1>4 DEF Exact

\* Every step keeps it.
LEMMA ExactNext == Exact /\ [Next]_vars => Exact'
<1> SUFFICES ASSUME Exact, [Next]_vars PROVE Tables' /\ \A b \in Actors : InStep(b)'
  BY OwnedNext DEF Exact, OnePoll
<1>1. ASSUME UNCHANGED <<rows, events, disk, minted, store, pc, local>>
      PROVE  Tables' /\ \A b \in Actors : InStep(b)'
  <2>1. Tables'
    BY <1>1 DEF Exact, Tables, Births, Versions, Unready, Drafted, Readied, Mine, Clean,
                Complete, store
  <2>2. ASSUME NEW b \in Actors PROVE InStep(b)'
    <3>1. InStep(b) /\ (InProcess(b)' <=> InProcess(b))
      BY <1>1 DEF Exact, InProcess, local
    <3>2. Lists(b)' /\ Roles(b)' /\ Closes(b)'
      BY <1>1, <3>1 DEF InStep, Lists, Roles, Closes, Clean, Complete, store, local
    <3>3. Processes(b)' /\ Sees(b)'
      BY <1>1, <3>1 DEF InStep, Processes, Sees, Holds, Clean, Complete, store, local
    <3>4. Settlers(b)'
      BY <1>1, <3>1 DEF InStep, Settlers, Settles, Mine, store, local
    <3> QED
      BY <3>2, <3>3, <3>4 DEF InStep
  <2> QED
    BY <2>1, <2>2
<1>2. CASE UNCHANGED vars
  BY <1>1, <1>2 DEF vars, store, local
<1>3. CASE Tick
  BY <1>1, <1>3 DEF Tick, store
<1>4. ASSUME NEW a \in Actors, InStep(a)', Apart(a), DiskMoves(a), UNCHANGED <<store, minted>>
      PROVE  Tables' /\ \A b \in Actors : InStep(b)'
  BY <1>4, AtRead
<1>5. \A a \in Actors : UNCHANGED disk => DiskMoves(a)
  BY DEF DiskMoves
<1>6. ASSUME NEW a \in Actors,
             \/ \E u \in Users : StartErase(a, u)
             \/ \E u \in Users, e \in Exports, route \in Routes : LookUp(a, u, e, route)
             \/ StartPoll(a)
      PROVE  Tables' /\ \A b \in Actors : InStep(b)'
  BY <1>4, <1>5, <1>6, StartsInStep
<1>7. ASSUME NEW a \in Actors,
             \/ ReconcileReadyRequest(a) \/ ProbeArtifact(a) \/ ListPending(a)
             \/ ProcessOne(a) \/ EraseForUser(a) \/ DropArtifact(a)
             \/ AuthoriseDownload(a) \/ StreamArtifact(a)
             \/ SaveGet(a) \/ OpenArtifact(a) \/ WriteArtifact(a)
      PROVE  Tables' /\ \A b \in Actors : InStep(b)'
  BY <1>4, <1>5, <1>7, ReconcilesInStep, ProbesInStep, ListsInStep, TakesInStep,
     DropsInStep, GetsInStep, FilesInStep
<1>8. ASSUME NEW a \in Actors, Commit(a)
      PROVE  Tables' /\ \A b \in Actors : InStep(b)'
  <2>1. CommitTx(a) /\ Close(a) /\ UNCHANGED <<disk, minted>>
    BY <1>8 DEF Commit, CommitTx
  <2> QED
    BY <2>1, AtCommit, ClosedInStep DEF Exact, IInv
<1>9. ASSUME NEW a \in Actors, Rollback(a) \/ Abort(a) \/ DeadlockVictim(a)
      PROVE  Tables' /\ \A b \in Actors : InStep(b)'
  <2>1. RollbackTx(a) /\ Close(a) /\ UNCHANGED minted
    BY <1>9 DEF Rollback, Abort, DeadlockVictim, RollbackTx
  <2>2. \A e \in Exports : disk'[e] = "partial" => disk[e] = "partial"
    BY <1>9 DEF Rollback, Abort, DeadlockVictim, Exact, IInv, Typed, TypeOK
  <2> QED
    BY <2>1, <2>2, AtRollback, ClosedInStep DEF Exact, IInv
<1>10. CASE Next
  BY <1>3, <1>6, <1>7, <1>8, <1>9, <1>10, NextGroups, AtCreate, AtFlush
<1> QED
  BY <1>2, <1>10

\* It says all that was to be shown of committed ready rows.
LEMMA ReadyFacts ==
    Exact => ReadyIsComplete /\ NoTornArtifact
<1> SUFFICES ASSUME Exact PROVE ReadyIsComplete /\ NoTornArtifact
  OBVIOUS
<1> USE DEF Exact
<1>1. ReadyIsComplete
  <2> SUFFICES ASSUME NEW e \in Exports, rows[e].status = "ready"
               PROVE  /\ rows[e].key = e /\ rows[e].exp # None
                      /\ events[e]["ready"] = 1 /\ events[e]["created"] = 1
    BY DEF ReadyIsComplete
  <2>1. events[e]["created"] = 1
    BY DEF Tables, Births
  <2> QED
    BY <2>1, Snapshots DEF Complete
<1>2. NoTornArtifact
  <2>1. ASSUME NEW e \in Exports, rows[e].status = "ready" PROVE disk[e] # "partial"
    BY <2>1, Snapshots DEF Tables, Readied
  <2>2. ASSUME NEW a \in Actors, pc[a] = "stream" PROVE disk[cur[a].id] # "partial"
    <3>1. cur[a].status = "ready" /\ cur[a].id \in Exports
      BY <2>2 DEF InStep, Roles, IInv, Typed, Busy, Row
    <3> QED
      BY <3>1 DEF InStep, Lists, Tables, Readied
  <2> QED
    BY <2>1, <2>2 DEF NoTornArtifact
<1> QED
  BY <1>1, <1>2

\* So it always holds while one poll runs at a time.
LEMMA ExactAlways == Spec => [](OnePoll => Exact)
<1>1. Init => (OnePoll => Exact)
  BY ExactInit
<1>2. (OnePoll => Exact) /\ [Next]_vars => (OnePoll => Exact)'
  BY ExactNext DEF OnePoll
<1> QED
  BY <1>1, <1>2, PTL DEF Spec

\* With one poll at a time, and any number of requests and erasures, a committed
\* ready row has the key of its own file, an expiry, and exactly one export_ready
\* event, although every save() updates only the columns it has seen change.
THEOREM ReadyHasAll == Spec => [](OnePoll => ReadyIsComplete)
<1>1. (OnePoll => Exact) => (OnePoll => ReadyIsComplete)
  BY ReadyFacts
<1> QED
  BY <1>1, ExactAlways, PTL

\* Under the same condition no download ever reads a file that is being written:
\* once its export_ready event is committed, no task opens the file of an export
\* for writing again.
THEOREM DownloadsAreWhole == Spec => [](OnePoll => NoTornArtifact)
<1>1. (OnePoll => Exact) => (OnePoll => NoTornArtifact)
  BY ReadyFacts
<1> QED
  BY <1>1, ExactAlways, PTL
-------------------------------------------------------------------------------
(* What happens to a row and its file while its subject stays: polls and         *)
(* requests work on it, and erasures of other subjects beside it.                *)

\* A row keeps the subject it was created with, and names no file but its own.
Belongs ==
    \A e \in Exports :
        /\ rows[e].status # "absent" => work[e].subject = rows[e].subject
        /\ rows[e].key \in {None, e} /\ work[e].key \in {None, e}

\* An erasure has only snapshots of rows whose subject leaves.
Leaves(a) ==
    a \in Erasers =>
        /\ \A r \in batch[a] : ~ Stays(r.id) /\ r.key \in {None, r.id}
        /\ pc[a] \in {"drop", "get", "flush"} =>
              ~ Stays(cur[a].id) /\ cur[a].key \in {None, cur[a].id}

\* An uncommitted version is one move of the lifecycle away from the committed
\* one, or on the way to it; before a row was ready only the poll writes it.
Moving ==
    \A e \in Exports : Stays(e) =>
        /\ \/ work[e].status = rows[e].status
           \/ <<rows[e].status, work[e].status>> \in Lifecycle!Moves
           \/ work[e].status = "processing" /\ rows[e].status \in {"absent", "pending"}
        /\ rows[e].status = "ready" /\ work[e].status = "ready" => work[e].exp = rows[e].exp
        /\ events[e]["ready"] = 0 /\ rows[e].status # "absent" => lock[e] \in Pollers \cup {None}

\* The snapshots show the expiry of the row while it is ready, what a poll has to
\* settle is pending, and a file is only dropped when it lapsed or is not whole,
\* or cannot be looked at.
Current(a) ==
    /\ \A r \in batch[a] \cup {cur[a]} :
          r.status = "ready" /\ rows[r.id].status = "ready" /\ Stays(r.id) =>
             r.exp = rows[r.id].exp
    /\ \A e \in Exports : Settles(a, e) /\ a \in Pollers /\ Stays(e) =>
          rows[e].status = "pending"
    /\ pc[a] = "drop" /\ a \notin Erasers =>
          \/ want[a].status = "expired" /\ cur[a].exp <= now
          \/ disk[cur[a].id] # "whole"
          \/ DiskFaults

Steady == Exact /\ Belongs /\ Moving /\ \A a \in Actors : Leaves(a) /\ Current(a)

\* The steps of task a.
Acts(a) ==
    \/ Step(a) \/ StartPoll(a) \/ Abort(a)
    \/ \E u \in Users : CreateDataExport(a, u) \/ StartErase(a, u)
    \/ \E u \in Users, e \in Exports, route \in Routes : LookUp(a, u, e, route)

\* Every step but a tick is one task's, writes the tables in one of four ways, and
\* changes files only by dropping the one in hand or by settling.
LEMMA StoreSteps ==
    ASSUME Exact, Next
    PROVE  \/ Tick
           \/ \E a \in Actors :
                 /\ Acts(a) /\ Apart(a) /\ now' = now
                 /\ \/ UNCHANGED store
                    \/ \E u \in Users : CreateDataExport(a, u)
                    \/ SaveFlush(a)
                    \/ Commit(a)
                    \/ RollbackTx(a)
                 /\ \A e \in Exports :
                       \/ disk'[e] = disk[e]
                       \/ disk'[e] = "none" /\ DropArtifact(a) /\ e = cur[a].key
                       \/ Settles(a, e)
<1> USE DEF Exact
<1>1. ASSUME NEW a \in Actors,
             \/ \E u \in Users : StartErase(a, u)
             \/ \E u \in Users, e \in Exports, route \in Routes : LookUp(a, u, e, route)
             \/ StartPoll(a)
             \/ ReconcileReadyRequest(a) \/ ProbeArtifact(a) \/ ListPending(a)
             \/ ProcessOne(a) \/ EraseForUser(a) \/ AuthoriseDownload(a) \/ SaveGet(a)
      PROVE  Apart(a) /\ UNCHANGED <<store, now, disk>>
  <2>1. Apart(a) /\ UNCHANGED <<store, disk>>
    BY <1>1, StartsInStep, ReconcilesInStep, ProbesInStep, ListsInStep, TakesInStep, GetsInStep
  <2> QED
    BY <1>1, <2>1 DEF StartErase, LookUp, StartPoll, ReconcileReadyRequest, ProbeArtifact,
                      ListPending, ProcessOne, EraseForUser, AuthoriseDownload, SaveGet
<1>2. ASSUME NEW a \in Actors, DropArtifact(a) \/ StreamArtifact(a)
      PROVE  /\ Apart(a) /\ UNCHANGED <<store, now>>
             /\ \A e \in Exports : \/ disk'[e] = disk[e]
                                   \/ disk'[e] = "none" /\ DropArtifact(a) /\ e = cur[a].key
  <2>1. Apart(a) /\ UNCHANGED store
    BY <1>2, DropsInStep
  <2> QED
    BY <1>2, <2>1 DEF DropArtifact, StreamArtifact
<1>3. ASSUME NEW a \in Actors, OpenArtifact(a) \/ WriteArtifact(a)
      PROVE  /\ Apart(a) /\ UNCHANGED <<store, now>>
             /\ \A e \in Exports : disk'[e] = disk[e] \/ Settles(a, e)
  <2>1. Apart(a) /\ UNCHANGED store
    BY <1>3, FilesInStep
  <2>2. InProcess(a)
    BY <1>3 DEF OpenArtifact, WriteArtifact, InStep, Roles, InProcess
  <2>3. \A e \in Exports : e = cur[a].id => Settles(a, e)
    BY <1>3, <2>2 DEF OpenArtifact, WriteArtifact, Settles
  <2> QED
    BY <1>3, <2>1, <2>3 DEF OpenArtifact, WriteArtifact, IInv, Typed, TypeOK
<1>4. ASSUME NEW a \in Actors, NEW u \in Users, CreateDataExport(a, u)
      PROVE  Apart(a) /\ UNCHANGED <<now, disk>>
  <2>1. \A b \in Actors \ {a} : drafts'[b] = drafts[b] /\ pc'[b] = pc[b] /\ cur'[b] = cur[b]
    BY <1>4 DEF CreateDataExport, Write, Goto, IInv, Typed, TypeOK
  <2> QED
    BY <1>4, <2>1 DEF CreateDataExport, Apart, OthersStay
<1>5. ASSUME NEW a \in Actors, SaveFlush(a)
      PROVE  Apart(a) /\ UNCHANGED <<now, disk>>
  BY <1>5, AfterFlush DEF SaveFlush, IInv
<1>6. ASSUME NEW a \in Actors, Commit(a)
      PROVE  Apart(a) /\ UNCHANGED <<now, disk>>
  BY <1>6, AtClose DEF Commit, CommitTx
<1>7. ASSUME NEW a \in Actors, Rollback(a) \/ Abort(a) \/ DeadlockVictim(a)
      PROVE  /\ Apart(a) /\ RollbackTx(a) /\ now' = now
             /\ \A e \in Exports : disk'[e] = disk[e] \/ Settles(a, e)
  <2>1. Apart(a) /\ RollbackTx(a) /\ now' = now
    BY <1>7, AtClose DEF Rollback, Abort, DeadlockVictim, RollbackTx
  <2>2. ASSUME NEW e \in Exports, pc[a] = "write", e = cur[a].id PROVE Settles(a, e)
    BY <2>2 DEF InStep, Roles, InProcess, Settles
  <2> QED
    BY <1>7, <2>1, <2>2 DEF Rollback, Abort, DeadlockVictim, IInv, Typed, TypeOK
<1>8. ASSUME NEW a \in Actors, Acts(a)
      PROVE  /\ Apart(a) /\ now' = now
             /\ \/ UNCHANGED store
                \/ \E u \in Users : CreateDataExport(a, u)
                \/ SaveFlush(a)
                \/ Commit(a)
                \/ RollbackTx(a)
             /\ \A e \in Exports :
                   \/ disk'[e] = disk[e]
                   \/ disk'[e] = "none" /\ DropArtifact(a) /\ e = cur[a].key
                   \/ Settles(a, e)
  BY <1>1, <1>2, <1>3, <1>4, <1>5, <1>6, <1>7, <1>8 DEF Acts, Step
<1> QED
  BY <1>8 DEF Next, Acts

\* Only a commit changes committed rows.
LEMMA OnlyCommits ==
    ASSUME Exact, Next
    PROVE  rows' = rows \/ \E a \in Actors : Commit(a)
<1>1. ASSUME NEW a \in Actors,
             UNCHANGED store \/ (\E u \in Users : CreateDataExport(a, u))
               \/ SaveFlush(a) \/ RollbackTx(a)
      PROVE  rows' = rows
  BY <1>1 DEF store, CreateDataExport, SaveFlush, Write, RollbackTx
<1>2. Tick => rows' = rows
  BY DEF Tick, store
<1> QED
  BY <1>1, <1>2, StoreSteps

\* What an UPDATE leaves of the row it is made to, and what it takes from save().
LEMMA MergeKeeps ==
    ASSUME NEW base \in Row, NEW old, NEW new
    PROVE  /\ Merge(base, old, new).subject = base.subject
           /\ Merge(base, old, new).key \in {base.key, new.key}
<1>1. PICK s, k, x :
        /\ Merge(base, old, new) = [base EXCEPT !.status = s, !.key = k, !.exp = x]
        /\ k \in {base.key, new.key}
  <2>1. /\ Merge(base, old, new).status = IF new.status # old.status THEN new.status ELSE base.status
        /\ Merge(base, old, new).key = IF new.key # old.key THEN new.key ELSE base.key
    BY DEF Merge, Row
  <2> QED
    BY DEF Merge, Row
<1>2. base = [id |-> base.id, subject |-> base.subject, status |-> base.status,
              key |-> base.key, exp |-> base.exp]
  BY DEF Row
<1> QED
  BY <1>1, <1>2

\* A save names the row's own file or none.
LEMMA SavesOwnKey ==
    ASSUME Exact, NEW a \in Actors, pc[a] = "flush", NEW e \in Exports, e = cur[a].id
    PROVE  want[a].key \in {None, e}
<1>1. CASE InProcess(a)
  BY <1>1 DEF Exact, InStep, Processes, Clean, Complete
<1>2. CASE ~ InProcess(a)
  BY <1>2 DEF Exact, InStep, Closes
<1> QED
  BY <1>1, <1>2

\* Every step keeps rows with their subject and their own file.
LEMMA BelongsNext ==
    ASSUME Steady, Next
    PROVE  Belongs'
<1> USE DEF Steady, Exact
<1>1. CASE UNCHANGED store
  BY <1>1 DEF Belongs, store
<1>2. ASSUME NEW a \in Actors, NEW u \in Users, CreateDataExport(a, u) PROVE Belongs'
  <2>1. PICK e \in Exports : e = minted + 1
    BY <1>2, BoundsAssumption DEF CreateDataExport, Exports, IInv, Typed, TypeOK
  <2>2. rows[e].status = "absent"
    BY <1>2, <2>1 DEF CreateDataExport, Tables, Births, IInv, Typed, TypeOK
  <2>3. PICK r : r.id = e /\ r.key = None /\ \E ts : Write(a, r, ts)
    <3>1. PICK p : p = [id |-> e, subject |-> u, status |-> "pending",
                        key |-> None, exp |-> None]
      OBVIOUS
    <3>2. \/ Write(a, p, {"created"})
          \/ Write(a, [p EXCEPT !.status = "processing"], {"created", "started"})
      BY <1>2, <2>1, <3>1 DEF CreateDataExport
    <3>3. /\ p.id = e /\ p.key = None
          /\ [p EXCEPT !.status = "processing"].id = e
          /\ [p EXCEPT !.status = "processing"].key = None
      BY <3>1
    <3> QED
      BY <3>2, <3>3
  <2>4. rows' = rows /\ work'[e] = r /\ \A f \in Exports \ {e} : work'[f] = work[f]
    BY <2>3 DEF Write, IInv, Typed, TypeOK
  <2> QED
    BY <2>2, <2>3, <2>4 DEF Belongs
<1>3. ASSUME NEW a \in Actors, SaveFlush(a) PROVE Belongs'
  <2>1. PICK e \in Exports : e = cur[a].id
    BY <1>3, Flushed DEF IInv
  <2>2. work[e] \in Row /\ work[e].id = e /\ pc[a] = "flush"
    BY <1>3, <2>1, Flushed DEF IInv, Typed, TypeOK, Ids
  <2>3. PICK r : r = Merge(work[e], seen[a], want[a])
    OBVIOUS
  <2>4. r.id = e /\ r.subject = work[e].subject /\ r.key \in {work[e].key, want[a].key}
    BY <1>3, <2>1, <2>2, <2>3, MergeKeeps, RowsMerged, Flushed DEF IInv
  <2>5. r.key \in {None, e}
    BY <2>1, <2>2, <2>4, SavesOwnKey DEF Belongs
  <2>6. \E ts : Write(a, r, ts)
    BY <1>3, <2>1, <2>3 DEF SaveFlush
  <2>7. rows' = rows /\ work'[e] = r /\ \A f \in Exports \ {e} : work'[f] = work[f]
    BY <2>4, <2>6 DEF Write, IInv, Typed, TypeOK
  <2> QED
    BY <2>4, <2>5, <2>7 DEF Belongs
<1>4. ASSUME NEW a \in Actors, Commit(a) PROVE Belongs'
  <2>1. work' = work /\ \A e \in Exports : rows'[e] = rows[e] \/ rows'[e] = work[e]
    BY <1>4 DEF Commit, CommitTx, Visible
  <2> QED
    BY <2>1 DEF Belongs
<1>5. ASSUME NEW a \in Actors, RollbackTx(a) PROVE Belongs'
  <2>1. rows' = rows /\ \A e \in Exports : work'[e] = rows[e] \/ work'[e] = work[e]
    BY <1>5 DEF RollbackTx
  <2> QED
    BY <2>1 DEF Belongs
<1> QED
  BY <1>1, <1>2, <1>3, <1>4, <1>5, StoreSteps DEF Tick

\* A row of a subject that leaves was never anybody else's, and stays theirs.
LEMMA SubjectsStay ==
    ASSUME Steady, Next, NEW e \in Exports
    PROVE  /\ Stays(e)' => Stays(e)
           /\ rows[e].status # "absent" => (Stays(e)' <=> Stays(e))
<1> USE DEF Steady, Exact
<1>1. rows'[e] = rows[e] \/ rows'[e] = work[e]
  <2>1. ASSUME NEW a \in Actors, Commit(a) PROVE rows'[e] = rows[e] \/ rows'[e] = work[e]
    BY <2>1 DEF Commit, CommitTx, Visible
  <2> QED
    BY <2>1, OnlyCommits
<1>2. rows[e].status = "absent" => Stays(e)
  BY LeaversAssumption, NoneAssumption DEF Tables, Births, Stays
<1>3. rows[e].status # "absent" => rows'[e].subject = rows[e].subject
  BY <1>1 DEF Belongs
<1> QED
  BY <1>2, <1>3 DEF Stays

\* What an erasure does once it has its list.
LEMMA ErasersGoOn ==
    ASSUME Exact, NEW a \in Erasers, Acts(a), ~ \E u \in Users : StartErase(a, u)
    PROVE  /\ batch'[a] \subseteq batch[a] /\ cur'[a] \in batch[a] \cup {cur[a], NoRow}
           /\ pc'[a] \in {"drop", "get", "flush"} =>
                 \/ cur'[a] \in batch[a]
                 \/ pc[a] \in {"drop", "get", "flush"} /\ cur'[a] = cur[a]
<1> USE DEF Exact, IInv
<1>1. a \in Actors /\ a \notin Pollers /\ a \notin Webs
  BY ActorsAssumption DEF Actors
<1>2. pc[a] \notin {"reconcile", "probe", "authorise", "stream", "open", "write", "process"}
  BY <1>1 DEF InStep, Roles
<1>3. CASE EraseForUser(a)
  <2>1. CASE Goto(a, "commit") /\ UNCHANGED <<cur, want, batch>>
    BY <1>1, <2>1, AfterGoto
  <2>2. ASSUME NEW r \in batch[a], NEW w, Take(a, r, w, "drop")
        PROVE  cur'[a] = r /\ batch'[a] = batch[a] \ {r}
    BY <1>1, <1>3, <2>2, AfterTake DEF EraseForUser
  <2> QED
    BY <1>3, <2>1, <2>2 DEF EraseForUser
<1>4. CASE DropArtifact(a) \/ SaveGet(a)
  <2>1. UNCHANGED <<batch, cur>> /\ pc[a] \in {"drop", "get"}
    BY <1>4 DEF DropArtifact, SaveGet, local
  <2> QED
    BY <2>1
<1>5. CASE SaveFlush(a)
  <2>1. /\ pc'[a] = AfterSave(a) /\ batch'[a] = batch[a] /\ cur'[a] \in {cur[a], NoRow}
    BY <1>1, <1>5, AfterFlush
  <2>2. AfterSave(a) \notin {"drop", "get", "flush"}
    BY DEF AfterSave
  <2> QED
    BY <2>1, <2>2
<1>6. CASE Commit(a) \/ Rollback(a) \/ Abort(a) \/ DeadlockVictim(a)
  <2>1. Close(a)
    BY <1>6 DEF Commit, CommitTx, Rollback, Abort, DeadlockVictim, RollbackTx
  <2>2. pc'[a] = "idle" /\ batch'[a] = {} /\ cur'[a] = NoRow
    BY <1>1, <2>1 DEF Close, Goto, Typed, TypeOK
  <2> QED
    BY <2>2
<1>7. ~ \/ ReconcileReadyRequest(a) \/ ProbeArtifact(a) \/ ListPending(a) \/ ProcessOne(a)
        \/ OpenArtifact(a) \/ WriteArtifact(a) \/ AuthoriseDownload(a) \/ StreamArtifact(a)
        \/ StartPoll(a)
        \/ \E u \in Users : CreateDataExport(a, u)
        \/ \E u \in Users, e \in Exports, route \in Routes : LookUp(a, u, e, route)
  BY <1>1, <1>2 DEF ReconcileReadyRequest, ProbeArtifact, ListPending, ProcessOne,
                    OpenArtifact, WriteArtifact, AuthoriseDownload, StreamArtifact, StartPoll,
                    CreateDataExport, LookUp
<1> QED
  BY <1>3, <1>4, <1>5, <1>6, <1>7 DEF Acts, Step

\* Every step keeps erasures with the rows of their subject.
LEMMA LeavesNext ==
    ASSUME Steady, Next
    PROVE  \A b \in Actors : Leaves(b)'
<1> USE DEF Steady, Exact, IInv
<1>1. ASSUME NEW b \in Erasers, b \in Actors,
             \A r \in batch'[b] : \/ r \in batch[b]
                                  \/ \E e \in Exports : r = rows[e] /\ ~ Stays(e),
             pc'[b] \in {"drop", "get", "flush"} =>
                 \/ cur'[b] \in batch[b]
                 \/ pc[b] \in {"drop", "get", "flush"} /\ cur'[b] = cur[b]
      PROVE  Leaves(b)'
  <2>1. ASSUME NEW r, r \in batch[b] \/ (pc[b] \in {"drop", "get", "flush"} /\ r = cur[b])
        PROVE  ~ Stays(r.id)' /\ r.key \in {None, r.id}
    <3>1. r \in Row /\ ~ Stays(r.id) /\ r.key \in {None, r.id}
      BY <1>1, <2>1 DEF Leaves, Typed, TypeOK, Busy
    <3>2. r.id \in Exports
      BY <3>1 DEF Row
    <3> QED
      BY <3>1, <3>2, SubjectsStay
  <2>2. ASSUME NEW e \in Exports, ~ Stays(e)
        PROVE  rows[e].id = e /\ ~ Stays(e)' /\ rows[e].key \in {None, e}
    BY <2>2, SubjectsStay DEF Belongs, Typed, Ids
  <2> QED
    BY <1>1, <2>1, <2>2 DEF Leaves
<1>2. ASSUME NEW a \in Erasers, Acts(a), a \in Actors PROVE Leaves(a)'
  <2>1. ASSUME NEW u \in Users, StartErase(a, u) PROVE Leaves(a)'
    <3>1. u \in Leavers
      BY <2>1 DEF StartErase
    <3>2. \A r \in batch'[a] : \E e \in Exports : r = rows[e] /\ ~ Stays(e)
      BY <1>2, <2>1, <3>1 DEF StartErase, Stays, Typed, TypeOK
    <3>3. pc'[a] = "erase"
      BY <1>2, <2>1, AfterGoto DEF StartErase
    <3> QED
      BY <1>1, <1>2, <3>2, <3>3
  <2>2. CASE ~ \E u \in Users : StartErase(a, u)
    BY <1>1, <1>2, <2>2, ErasersGoOn
  <2> QED
    BY <2>1, <2>2
<1>3. ASSUME NEW b \in Actors, batch'[b] = batch[b], pc'[b] = pc[b], cur'[b] = cur[b]
      PROVE  Leaves(b)'
  <2>1. CASE b \in Erasers
    BY <1>1, <1>3, <2>1
  <2>2. CASE b \notin Erasers
    BY <2>2 DEF Leaves
  <2> QED
    BY <2>1, <2>2
<1>4. CASE Tick
  BY <1>3, <1>4 DEF Tick, local
<1>5. ASSUME NEW a \in Actors, Acts(a), Apart(a) PROVE \A b \in Actors : Leaves(b)'
  <2>1. Leaves(a)'
    BY <1>2, <1>5 DEF Leaves
  <2>2. ASSUME NEW b \in Actors \ {a} PROVE Leaves(b)'
    BY <1>3, <1>5 DEF Apart, OthersStay
  <2> QED
    BY <2>1, <2>2
<1> QED
  BY <1>4, <1>5, StoreSteps

\* While its subject stays, a row that was never ready has only the poll waiting for it.
LEMMA OnlyPollWaits ==
    ASSUME Steady, NEW e \in Exports, Stays(e), events[e]["ready"] = 0, NEW b \in Waiters(e)
    PROVE  b \in Pollers
<1> USE DEF Steady, Exact
<1>1. b \in Actors /\ pc[b] = "flush" /\ cur[b].id = e /\ lock[e] # b
  BY DEF Waiters
<1>2. b \notin Erasers /\ (b \in Webs \/ b \in Pollers)
  BY <1>1 DEF Leaves, Actors
<1>3. cur[b].status # "ready"
  BY <1>1 DEF InStep, Lists
<1>4. InProcess(b)
  BY <1>1, <1>2, <1>3 DEF InStep, Roles, InProcess
<1>5. Holds(b) \/ b \in Pollers
  BY <1>1, <1>4 DEF InStep, Processes
<1> QED
  BY <1>1, <1>2, <1>5 DEF Holds

\* A save that does not settle closes the row.
LEMMA ClosingCloses ==
    ASSUME Exact, NEW a \in Actors \ Erasers, SaveFlush(a), ~ InProcess(a), NEW r \in Row,
           r.id = cur[a].id,
           r.status = IF want[a].status # seen[a].status THEN want[a].status
                                                         ELSE work[r.id].status
    PROVE  /\ r.status \in Closed /\ events[r.id]["ready"] = 1 /\ cur[a].status = "ready"
           /\ want[a].key = None
           /\ seen[a].status = "ready" \/ work[r.id].status \in Closed
<1> USE DEF Exact
<1>1. PICK e \in Exports : e = r.id
  BY DEF Row
<1>2. pc[a] = "flush" /\ cur[a].id = e /\ a \notin Erasers
  BY <1>1, Flushed DEF IInv
<1>3. want[a].status \in Closed /\ want[a].key = None
  BY <1>2 DEF InStep, Closes
<1>4. cur[a].status = "ready" /\ events[e]["ready"] = 1
  BY <1>2 DEF InProcess, InStep, Roles, Lists
<1>5. seen[a].status \in {"ready"} \cup Closed
  BY <1>2, <1>4 DEF InStep, Sees
<1>6. seen[a].status \in Closed => work[e].status \in Closed
  BY <1>2, <1>4 DEF InStep, Sees, Tables, Readied
<1>7. r.status \in Closed
  <2>1. CASE want[a].status # seen[a].status
    BY <1>3, <2>1
  <2>2. CASE want[a].status = seen[a].status
    BY <1>1, <1>3, <1>6, <2>2
  <2> QED
    BY <2>1, <2>2
<1> QED
  BY <1>1, <1>3, <1>4, <1>5, <1>6, <1>7

\* The moves of the lifecycle that commits make.
LEMMA MovesAre ==
    /\ <<"absent", "pending">> \in Lifecycle!Moves /\ <<"absent", "ready">> \in Lifecycle!Moves
    /\ <<"pending", "ready">> \in Lifecycle!Moves /\ <<"pending", "failed">> \in Lifecycle!Moves
    /\ \A s \in Closed : <<"ready", s>> \in Lifecycle!Moves
    /\ \A s, t \in Closed : <<s, t>> \in Lifecycle!Moves
    /\ \A s \in Status : <<s, "pending">> \in Lifecycle!Moves => s = "absent"
  BY DEF Lifecycle!Moves, Lifecycle!Closed, Closed, Status

\* Every step keeps uncommitted versions one move ahead at most.
LEMMA MovingNext ==
    ASSUME Steady, Next
    PROVE  Moving'
<1> USE DEF Steady, Exact
<1>1. CASE UNCHANGED store
  BY <1>1 DEF Moving, Stays, store
<1>2. ASSUME NEW a \in Actors, NEW u \in Users, CreateDataExport(a, u) PROVE Moving'
  <2>1. PICK e \in Exports : e = minted + 1
    BY <1>2, BoundsAssumption DEF CreateDataExport, Exports, IInv, Typed, TypeOK
  <2>2. rows[e].status = "absent"
    BY <1>2, <2>1 DEF CreateDataExport, Tables, Births, IInv, Typed, TypeOK
  <2>3. PICK r : /\ r.id = e /\ r.status \in {"pending", "processing"}
                 /\ \E ts : Write(a, r, ts)
    <3>1. PICK p : p = [id |-> e, subject |-> u, status |-> "pending",
                        key |-> None, exp |-> None]
      OBVIOUS
    <3>2. \/ Write(a, p, {"created"})
          \/ Write(a, [p EXCEPT !.status = "processing"], {"created", "started"})
      BY <1>2, <2>1, <3>1 DEF CreateDataExport
    <3>3. /\ p.id = e /\ p.status = "pending"
          /\ [p EXCEPT !.status = "processing"].id = e
          /\ [p EXCEPT !.status = "processing"].status = "processing"
      BY <3>1
    <3> QED
      BY <3>2, <3>3
  <2>4. /\ rows' = rows /\ events' = events /\ work'[e] = r
        /\ \A f \in Exports \ {e} : work'[f] = work[f] /\ lock'[f] = lock[f]
    BY <2>3 DEF Write, IInv, Typed, TypeOK
  <2> QED
    BY <2>2, <2>3, <2>4, MovesAre DEF Moving, Stays
<1>3. ASSUME NEW a \in Actors, SaveFlush(a) PROVE Moving'
  <2>1. PICK e \in Exports : e = cur[a].id
    BY <1>3, Flushed DEF IInv
  <2>2. PICK r \in Row, ts \in SUBSET EventType :
          /\ Write(a, r, ts) /\ r.id = e
          /\ r.status = IF want[a].status # seen[a].status THEN want[a].status
                                                          ELSE work[r.id].status
    BY <1>3, <2>1, Flushed DEF IInv
  <2>3. /\ rows' = rows /\ events' = events /\ work'[e] = r /\ lock'[e] = a
        /\ \A f \in Exports \ {e} : work'[f] = work[f] /\ lock'[f] = lock[f]
    BY <2>2 DEF Write, IInv, Typed, TypeOK
  <2>4. CASE InProcess(a) /\ Stays(e)
    <3>1. pc[a] = "flush" /\ Settles(a, e)
      BY <1>3, <2>1, <2>4 DEF SaveFlush, Settles
    <3>2. IF a \in Pollers THEN rows[e].status = "pending" ELSE rows[e].status = "absent"
      BY <2>4, <3>1 DEF Current, InStep, Settlers
    <3>3. r.status \in {"processing", "ready"} \/ (r.status = "failed" /\ a \in Pollers)
      <4>1. \/ a \in Pollers /\ want[a].status = "processing" /\ seen[a].status # "processing"
            \/ /\ a \in Pollers /\ want[a].status = "failed" /\ Holds(a)
               /\ seen[a] = work[e]
            \/ want[a].status = "ready" /\ Holds(a) /\ seen[a] = work[e]
        BY <2>1, <2>4, <3>1 DEF InStep, Processes, Sees
      <4> QED
        BY <2>1, <2>2, <4>1 DEF Holds
    <3>4. r.status = "processing" => rows[e].status \in {"absent", "pending"}
      BY <3>2
    <3> QED
      BY <2>3, <3>2, <3>3, <3>4, MovesAre DEF Moving, Stays
  <2>5. CASE ~ InProcess(a) /\ Stays(e)
    <3>0. a \notin Erasers
      BY <1>3, <2>1, <2>5, Flushed DEF Leaves, IInv
    <3>1. r.status \in Closed /\ events[e]["ready"] = 1
      BY <1>3, <2>1, <2>2, <2>5, <3>0, ClosingCloses
    <3>2. rows[e].status \in {"ready"} \cup Closed
      BY <3>1 DEF Tables, Readied
    <3> QED
      BY <2>3, <3>1, <3>2, MovesAre DEF Moving, Closed, Stays
  <2>6. CASE ~ Stays(e)
    BY <2>3, <2>6 DEF Moving, Stays
  <2> QED
    BY <2>4, <2>5, <2>6
<1>4. ASSUME NEW a \in Actors, Close(a), NEW e \in Exports, Stays(e), lock[e] = a,
             events[e]["ready"] = 0
      PROVE  lock'[e] \in Pollers \cup {None}
  BY <1>4, OnlyPollWaits DEF Close, ReleaseLocks
<1>5. ASSUME NEW a \in Actors, Commit(a) PROVE Moving'
  <2>1. /\ Close(a) /\ work' = work
        /\ \A e \in Exports : rows'[e] = IF lock[e] = a THEN work[e] ELSE rows[e]
        /\ \A e \in Exports : events'[e]["ready"] = IF Mine(a, e, "ready") THEN events[e]["ready"] + 1
                                                                         ELSE events[e]["ready"]
    BY <1>5 DEF Commit, CommitTx, Visible, Mine, EventType
  <2>2. \A e \in Exports : events'[e]["ready"] = 0 => events[e]["ready"] = 0
    BY <2>1 DEF Tables, Versions
  <2>3. \A e \in Exports : lock[e] # a => lock'[e] = lock[e]
    BY <2>1, AtClose
  <2> SUFFICES ASSUME NEW e \in Exports, Stays(e)
               PROVE  /\ \/ work'[e].status = rows'[e].status
                         \/ <<rows'[e].status, work'[e].status>> \in Lifecycle!Moves
                         \/ /\ work'[e].status = "processing"
                            /\ rows'[e].status \in {"absent", "pending"}
                      /\ rows'[e].status = "ready" /\ work'[e].status = "ready" =>
                            work'[e].exp = rows'[e].exp
                      /\ events'[e]["ready"] = 0 /\ rows'[e].status # "absent" =>
                            lock'[e] \in Pollers \cup {None}
    BY SubjectsStay DEF Moving
  <2>4. CASE lock[e] = a
    BY <1>4, <2>1, <2>2, <2>4
  <2>5. CASE lock[e] # a
    BY <2>1, <2>2, <2>3, <2>5 DEF Moving
  <2> QED
    BY <2>4, <2>5
<1>6. ASSUME NEW a \in Actors, RollbackTx(a) PROVE Moving'
  <2>1. /\ Close(a) /\ rows' = rows /\ events' = events
        /\ \A e \in Exports : work'[e] = IF lock[e] = a THEN rows[e] ELSE work[e]
    BY <1>6 DEF RollbackTx
  <2>2. \A e \in Exports : lock[e] # a => lock'[e] = lock[e]
    BY <2>1, AtClose
  <2> SUFFICES ASSUME NEW e \in Exports, Stays(e)
               PROVE  /\ \/ work'[e].status = rows'[e].status
                         \/ <<rows'[e].status, work'[e].status>> \in Lifecycle!Moves
                         \/ /\ work'[e].status = "processing"
                            /\ rows'[e].status \in {"absent", "pending"}
                      /\ rows'[e].status = "ready" /\ work'[e].status = "ready" =>
                            work'[e].exp = rows'[e].exp
                      /\ events'[e]["ready"] = 0 /\ rows'[e].status # "absent" =>
                            lock'[e] \in Pollers \cup {None}
    BY SubjectsStay DEF Moving
  <2>3. CASE lock[e] = a
    BY <1>4, <2>1, <2>3
  <2>4. CASE lock[e] # a
    BY <2>1, <2>2, <2>4 DEF Moving
  <2> QED
    BY <2>3, <2>4
<1>7. CASE Tick
  BY <1>1, <1>7 DEF Tick
<1> QED
  BY <1>1, <1>2, <1>3, <1>5, <1>6, <1>7, StoreSteps

\* A committed ready row keeps its expiry, and its file is not written again.
LEMMA ReadyIsKept ==
    ASSUME Steady, Next, NEW e \in Exports, events[e]["ready"] = 1
    PROVE  /\ Stays(e) /\ rows'[e].status = "ready" =>
                 rows[e].status = "ready" /\ rows'[e].exp = rows[e].exp
           /\ disk'[e] = disk[e] \/ disk'[e] = "none"
<1> USE DEF Steady, Exact
<1>1. ASSUME NEW a \in Actors PROVE ~ Settles(a, e)
  BY DEF InStep, Settlers
<1>2. ASSUME NEW a \in Actors, Commit(a), Stays(e), rows'[e].status = "ready"
      PROVE  rows[e].status = "ready" /\ rows'[e].exp = rows[e].exp
  <2>1. rows'[e] = rows[e] \/ rows'[e] = work[e]
    BY <1>2 DEF Commit, CommitTx, Visible
  <2>2. CASE work[e].status = "ready"
    BY <2>1, <2>2, <1>2 DEF Tables, Readied, Moving, Closed
  <2> QED
    BY <1>2, <2>1, <2>2
<1>3. CASE Tick
  BY <1>3 DEF Tick, store
<1>4. disk'[e] = disk[e] \/ disk'[e] = "none"
  BY <1>1, <1>3, StoreSteps
<1> QED
  BY <1>2, <1>4, OnlyCommits

\* A task stays current when it drops nothing new, takes nothing up to settle and
\* has no new snapshot of a ready row.
LEMMA CurrentKept ==
    ASSUME Steady, Next, NEW b \in Actors,
           \A r \in batch'[b] \cup {cur'[b]} :
              r \in batch[b] \cup {cur[b]} \/ r.status # "ready",
           b \in Pollers => \A e \in Exports : Settles(b, e)' =>
                               Settles(b, e) /\ (Stays(e) => rows'[e] = rows[e]),
           pc'[b] = "drop" /\ b \notin Erasers =>
              \/ pc[b] = "drop" /\ cur'[b] = cur[b] /\ want'[b] = want[b]
              \/ want'[b].status = "expired" /\ cur'[b].exp <= now'
              \/ disk'[cur'[b].id] # "whole"
              \/ DiskFaults
    PROVE  Current(b)'
<1> USE DEF Steady, Exact
<1>1. ASSUME NEW r \in batch'[b] \cup {cur'[b]}, r.status = "ready", rows'[r.id].status = "ready",
             Stays(r.id)'
      PROVE  r.exp = rows'[r.id].exp
  <2>1. r \in batch[b] \cup {cur[b]}
    BY <1>1
  <2>2. r.id \in Exports /\ events[r.id]["ready"] = 1
    <3>1. r \in Row
      BY <1>1, <2>1 DEF IInv, Typed, TypeOK, NoRow, AbsentRow
    <3> QED
      BY <1>1, <2>1, <3>1 DEF InStep, Lists, Row
  <2>3. Stays(r.id)
    BY <1>1, <2>2, SubjectsStay
  <2>4. rows[r.id].status = "ready" /\ rows'[r.id].exp = rows[r.id].exp
    BY <1>1, <2>2, <2>3, ReadyIsKept
  <2> QED
    BY <1>1, <2>1, <2>3, <2>4 DEF Current
<1>2. ASSUME NEW e \in Exports, Settles(b, e)', b \in Pollers, Stays(e)'
      PROVE  rows'[e].status = "pending"
  <2>1. Stays(e)
    BY <1>2, SubjectsStay
  <2> QED
    BY <1>2, <2>1 DEF Current
<1>3. ASSUME pc'[b] = "drop", pc[b] = "drop", cur'[b] = cur[b], want'[b] = want[b], b \notin Erasers,
             ~ DiskFaults
      PROVE  (want'[b].status = "expired" /\ cur'[b].exp <= now') \/ disk'[cur'[b].id] # "whole"
  <2>1. cur[b] \in Row /\ cur[b].status = "ready" /\ b \notin Erasers
    BY <1>3 DEF InStep, Roles, IInv, Typed, Busy
  <2>2. cur[b].id \in Exports /\ events[cur[b].id]["ready"] = 1 /\ cur[b].exp \in Nat
    BY <2>1 DEF InStep, Lists, Complete, Row
  <2>3. now \in Nat /\ now' \in Nat /\ now' >= now
    BY StoreSteps DEF Tick, IInv, Typed, TypeOK
  <2>4. disk'[cur[b].id] = disk[cur[b].id] \/ disk'[cur[b].id] = "none"
    BY <2>2, ReadyIsKept
  <2>5. CASE want[b].status = "expired" /\ cur[b].exp <= now
    BY <1>3, <2>2, <2>3, <2>5
  <2>6. CASE disk[cur[b].id] # "whole"
    BY <1>3, <2>4, <2>6
  <2> QED
    BY <1>3, <2>5, <2>6 DEF Current
<1> QED
  BY <1>1, <1>2, <1>3 DEF Current

\* The tasks that do not move stay current: nobody else commits what a poll has to settle.
LEMMA OthersCurrent ==
    ASSUME Steady, Next, NEW a \in Actors, NEW b \in Actors \ {a}, Apart(a),
           \/ UNCHANGED store \/ (\E u \in Users : CreateDataExport(a, u))
           \/ SaveFlush(a) \/ Commit(a) \/ RollbackTx(a)
    PROVE  Current(b)'
<1> USE DEF Steady, Exact
<1>1. /\ pc'[b] = pc[b] /\ cur'[b] = cur[b] /\ want'[b] = want[b] /\ batch'[b] = batch[b]
  BY DEF Apart, OthersStay
<1>2. \A e \in Exports : Settles(b, e)' => Settles(b, e)
  BY <1>1 DEF Settles, InProcess
<1>3. ASSUME NEW e \in Exports, Settles(b, e), b \in Pollers, Stays(e) PROVE rows'[e] = rows[e]
  <2>1. lock[e] # a
    <3>1. events[e]["ready"] = 0 /\ rows[e].status # "absent"
      BY <1>3 DEF InStep, Settlers
    <3>2. lock[e] \in Pollers \cup {None}
      BY <1>3, <3>1 DEF Moving
    <3> QED
      BY <1>3, <3>2, NoneAssumption DEF OnePoll
  <2> QED
    BY <2>1 DEF store, CreateDataExport, SaveFlush, Write, Commit, CommitTx, Visible, RollbackTx
<1> QED
  BY <1>1, <1>2, <1>3, CurrentKept

\* The moving task, where it starts.
LEMMA StartsCurrent ==
    ASSUME Steady, Next, NEW a \in Actors,
           \/ \E u \in Users, e \in Exports, route \in Routes : LookUp(a, u, e, route)
           \/ StartPoll(a)
           \/ \E u \in Users : StartErase(a, u)
    PROVE  Current(a)'
<1> USE DEF Steady, Exact
<1>1. PICK S \in SUBSET {rows[e] : e \in Exports} : batch' = [batch EXCEPT ![a] = S]
  <2>1. CASE \E u \in Users, e \in Exports, route \in Routes : LookUp(a, u, e, route)
    <3>1. PICK e \in Exports : batch' = [batch EXCEPT ![a] = {rows[e]}]
      BY <2>1 DEF LookUp
    <3>2. {rows[e]} \in SUBSET {rows[f] : f \in Exports}
      OBVIOUS
    <3> QED
      BY <3>1, <3>2
  <2>2. CASE StartPoll(a)
    BY <2>2 DEF StartPoll
  <2>3. CASE \E u \in Users : StartErase(a, u)
    BY <2>3 DEF StartErase
  <2> QED
    BY <2>1, <2>2, <2>3
<1>2. /\ batch'[a] = S /\ cur'[a] = cur[a] /\ rows' = rows /\ pc'[a] \in {"reconcile", "erase"}
  BY <1>1 DEF LookUp, StartPoll, StartErase, Goto, IInv, Typed, TypeOK, store
<1>3. \A r \in S : rows[r.id] = r
  BY Snapshots
<1>4. \A e \in Exports : ~ Settles(a, e)'
  BY <1>2 DEF Settles, InProcess
<1>5. ASSUME NEW r \in batch'[a] \cup {cur'[a]}, r.status = "ready", rows'[r.id].status = "ready",
             Stays(r.id)'
      PROVE  r.exp = rows'[r.id].exp
  <2>1. Stays(r.id)
    BY <1>2, <1>5 DEF Stays
  <2> QED
    BY <1>2, <1>3, <1>5, <2>1 DEF Current
<1> QED
  BY <1>2, <1>4, <1>5 DEF Current

\* Where it lists pending requests: nobody holds an uncommitted version of them.
LEMMA ListsCurrent ==
    ASSUME Steady, Next, NEW a \in Actors, ListPending(a)
    PROVE  Current(a)'
<1> USE DEF Steady, Exact
<1>1. /\ a \in Pollers /\ a \notin Webs /\ rows' = rows /\ cur' = cur /\ pc'[a] = "process"
  BY ActorsAssumption DEF ListPending, Goto, IInv, Typed, TypeOK, store
<1>2. PICK page \in SUBSET {r \in {Visible(a, e) : e \in Exports} : r.status = "pending"} :
         batch'[a] = page
  BY DEF ListPending, IInv, Typed, TypeOK
<1>3. ASSUME NEW e \in Exports, Visible(a, e).status = "pending", Stays(e)
      PROVE  rows[e].status = "pending"
  <2>1. CASE lock[e] = a
    <3>1. work[e].status = "pending" /\ rows[e].status \in Status
      BY <1>3, <2>1 DEF Visible, IInv, Typed, TypeOK, Row
    <3>2. rows[e].status # "absent"
      BY <1>1, <2>1, NoneAssumption DEF Tables, Births
    <3> QED
      BY <1>3, <3>1, <3>2, MovesAre DEF Moving
  <2> QED
    BY <1>3, <2>1 DEF Visible
<1>4. ASSUME NEW e \in Exports, Settles(a, e)', Stays(e)' PROVE rows'[e].status = "pending"
  <2>1. PICK r \in page : r.id = e
    BY <1>1, <1>2, <1>4 DEF Settles
  <2>2. PICK f \in Exports : r = Visible(a, f) /\ r.status = "pending"
    BY <2>1
  <2>3. f = e
    BY <2>1, <2>2 DEF Visible, IInv, Typed, Ids
  <2>4. Stays(e)
    BY <1>4, SubjectsStay
  <2> QED
    BY <1>1, <1>3, <2>2, <2>3, <2>4
<1>5. ASSUME NEW r \in batch'[a] \cup {cur'[a]}, r.status = "ready", rows'[r.id].status = "ready",
             Stays(r.id)'
      PROVE  r.exp = rows'[r.id].exp
  <2>1. r = cur[a] /\ Stays(r.id)
    BY <1>1, <1>2, <1>5 DEF Stays
  <2> QED
    BY <1>1, <1>5, <2>1 DEF Current
<1> QED
  BY <1>1, <1>4, <1>5 DEF Current

\* Where it decides what to save, and with that what to drop.
LEMMA DecidesCurrent ==
    ASSUME Steady, Next, NEW a \in Actors,
           ReconcileReadyRequest(a) \/ ProbeArtifact(a) \/ AuthoriseDownload(a)
    PROVE  Current(a)'
<1> USE DEF Steady, Exact
<1>1. a \notin Erasers /\ UNCHANGED <<store, now, disk>>
  BY DEF InStep, Roles, ReconcileReadyRequest, ProbeArtifact, AuthoriseDownload
<1>2. CASE ReconcileReadyRequest(a)
  <2>1. PICK r \in batch[a] :
          CASE r.status # "ready"  -> Take(a, r, NoRow, AfterReconcile(a, r.status))
            [] IsRequestExpired(r) -> Take(a, r, Expired(r), "drop")
            [] OTHER               -> Take(a, r, NoRow, "probe")
    BY <1>2 DEF ReconcileReadyRequest
  <2>2. PICK phase, w : /\ Take(a, r, w, phase) /\ phase \notin {"process", "open", "write", "get", "flush"}
                        /\ phase = "drop" => w = Expired(r) /\ IsRequestExpired(r)
    <3>1. r.status # "ready" => AfterReconcile(a, r.status) \in {"reconcile", "commit", "rollback"}
      BY DEF AfterReconcile
    <3>2. CASE r.status # "ready"
      BY <2>1, <3>1, <3>2 DEF IsRequestExpired
    <3>3. CASE r.status = "ready" /\ IsRequestExpired(r)
      BY <2>1, <3>3
    <3>4. CASE r.status = "ready" /\ ~ IsRequestExpired(r)
      BY <2>1, <3>4
    <3> QED
      BY <3>2, <3>3, <3>4
  <2>3. pc'[a] = phase /\ cur'[a] = r /\ want'[a] = w /\ batch'[a] = batch[a] \ {r}
    BY <1>1, <1>2, <2>2, AfterTake DEF ReconcileReadyRequest, IInv
  <2>4. Expired(r).status = "expired"
    BY DEF Expired, IInv, Typed, TypeOK, Row
  <2>5. \A e \in Exports : ~ Settles(a, e)'
    BY <2>2, <2>3 DEF Settles, InProcess
  <2>6. phase = "drop" => w.status = "expired" /\ r.exp <= now'
    BY <1>1, <2>2, <2>4 DEF IsRequestExpired
  <2> QED
    BY <2>3, <2>5, <2>6, CurrentKept
<1>3. CASE ProbeArtifact(a) \/ AuthoriseDownload(a)
  <2>1. /\ UNCHANGED <<batch, cur>> /\ cur[a] \in Row /\ cur[a].status = "ready"
    BY <1>3 DEF ProbeArtifact, AuthoriseDownload, InStep, Roles, IInv, Typed, Busy
  <2>2. PICK phase :
          /\ Goto(a, phase) /\ phase \notin {"process", "open", "write", "get", "flush"}
          /\ phase = "drop" => MayMiss(cur[a])
    BY <1>3 DEF ProbeArtifact, AuthoriseDownload, AfterReconcile
  <2>3. pc'[a] = phase
    BY <2>2, AfterGoto DEF IInv
  <2>4. \A e \in Exports : ~ Settles(a, e)'
    BY <2>2, <2>3 DEF Settles, InProcess
  <2>5. cur[a].key = cur[a].id /\ cur[a].key # None
    <3>1. Complete(cur[a]) /\ cur[a].id \in Nat
      BY <2>1 DEF InStep, Lists, Row, Exports
    <3> QED
      BY <3>1, NoneAssumption DEF Complete
  <2>6. phase = "drop" => disk'[cur'[a].id] # "whole" \/ DiskFaults
    BY <1>1, <2>1, <2>2, <2>5 DEF MayMiss
  <2> QED
    BY <2>1, <2>3, <2>4, <2>6, CurrentKept
<1> QED
  BY <1>2, <1>3

\* Where it is an erasure that goes on.
LEMMA ErasersCurrent ==
    ASSUME Steady, Next, NEW a \in Erasers, Acts(a), ~ \E u \in Users : StartErase(a, u)
    PROVE  Current(a)'
<1>1. a \in Actors /\ a \notin Pollers
  BY ActorsAssumption DEF Actors
<1>2. batch'[a] \subseteq batch[a] /\ cur'[a] \in batch[a] \cup {cur[a], NoRow}
  BY ErasersGoOn DEF Steady
<1>3. NoRow.status # "ready"
  BY DEF NoRow, AbsentRow
<1>4. \A r \in batch'[a] \cup {cur'[a]} : r \in batch[a] \cup {cur[a]} \/ r.status # "ready"
  BY <1>2, <1>3
<1> QED
  BY <1>1, <1>4, CurrentKept

\* Where a poll or a request goes on with what it has.
LEMMA GoesOnCurrent ==
    ASSUME Steady, Next, NEW a \in Actors \ Erasers,
           \/ ProcessOne(a) \/ EraseForUser(a) \/ DropArtifact(a) \/ StreamArtifact(a)
           \/ SaveGet(a) \/ OpenArtifact(a) \/ WriteArtifact(a) \/ SaveFlush(a)
           \/ \E u \in Users : CreateDataExport(a, u)
    PROVE  Current(a)'
<1> USE DEF Steady, Exact
<1>1. rows' = rows /\ a \notin Erasers
  BY DEF ProcessOne, EraseForUser, DropArtifact, StreamArtifact, SaveGet,
         OpenArtifact, WriteArtifact, SaveFlush, CreateDataExport, Write, store
<1>2. pc[a] # "erase"
  BY <1>1 DEF InStep, Roles
<1>3. CASE ProcessOne(a)
  <2>1. pc[a] = "process" /\ a \in Pollers /\ InProcess(a)
    BY <1>1, <1>3 DEF ProcessOne, InStep, Roles, InProcess
  <2>2. CASE Goto(a, "commit") /\ UNCHANGED <<cur, want, batch>>
    <3>1. pc'[a] = "commit"
      BY <2>2, AfterGoto DEF IInv
    <3>2. \A e \in Exports : ~ Settles(a, e)'
      BY <3>1 DEF Settles, InProcess
    <3> QED
      BY <2>2, <3>1, <3>2, CurrentKept
  <2>3. ASSUME NEW r \in batch[a], NEW w, Take(a, r, w, "get") PROVE Current(a)'
    <3>1. pc'[a] = "get" /\ cur'[a] = r /\ batch'[a] = batch[a] \ {r}
      BY <1>3, <2>3, AfterTake DEF ProcessOne, IInv
    <3>2. \A e \in Exports : Settles(a, e)' => Settles(a, e)
      BY <2>1, <3>1 DEF Settles
    <3> QED
      BY <1>1, <3>1, <3>2, CurrentKept
  <2> QED
    BY <1>3, <2>2, <2>3 DEF ProcessOne
<1>4. CASE EraseForUser(a)
  BY <1>2, <1>4 DEF EraseForUser
<1>5. CASE DropArtifact(a) \/ StreamArtifact(a)
  <2>1. PICK phase \in {"get", "commit"} :
          Goto(a, phase) /\ (phase = "get" => pc[a] = "drop") /\ UNCHANGED <<cur, batch>>
    BY <1>5 DEF DropArtifact, StreamArtifact, local
  <2>2. pc'[a] = phase
    BY <2>1, AfterGoto DEF IInv
  <2>3. \A e \in Exports : ~ Settles(a, e)'
    BY <1>1, <2>1, <2>2 DEF Settles, InProcess, InStep, Roles
  <2> QED
    BY <2>1, <2>2, <2>3, CurrentKept
<1>6. CASE SaveGet(a) \/ OpenArtifact(a) \/ WriteArtifact(a)
  <2>1. PICK phase \in {"flush", "write", "get", "rollback"} :
          /\ Goto(a, phase) /\ UNCHANGED <<cur, batch>>
          /\ pc[a] \in {"open", "write"} \/ (pc[a] = "get" /\ phase = "flush")
    BY <1>6 DEF SaveGet, OpenArtifact, WriteArtifact, ExportFails
  <2>2. pc'[a] = phase
    BY <2>1, AfterGoto DEF IInv
  <2>3. \A e \in Exports : Settles(a, e)' => Settles(a, e)
    BY <1>1, <2>1, <2>2 DEF Settles, InProcess
  <2> QED
    BY <1>1, <2>1, <2>2, <2>3, CurrentKept
<1>7. CASE SaveFlush(a)
  <2>1. /\ pc'[a] = AfterSave(a) /\ batch'[a] = batch[a]
        /\ cur'[a] = IF want[a].status = "processing" THEN cur[a] ELSE NoRow
        /\ pc[a] = "flush"
    BY <1>7, AfterFlush DEF SaveFlush, IInv
  <2>2. NoRow.status # "ready"
    BY DEF NoRow, AbsentRow
  <2>3. pc'[a] # "drop"
    BY <2>1 DEF AfterSave
  <2>4. ASSUME NEW e \in Exports, Settles(a, e)', a \in Pollers PROVE Settles(a, e)
    <3>1. want[a].status = "processing" => InProcess(a)
      BY <2>1 DEF InStep, Closes, Closed
    <3>2. CASE want[a].status = "processing"
      BY <2>1, <2>4, <3>1, <3>2 DEF Settles
    <3>3. CASE want[a].status # "processing"
      <4>1. pc'[a] = "process" /\ cur[a].status # "ready"
        BY <2>1, <2>4, <3>3, ActorsAssumption DEF AfterSave, Settles, InProcess
      <4>2. InProcess(a)
        BY <1>1, <2>1, <4>1 DEF InStep, Roles, InProcess
      <4> QED
        BY <2>1, <2>4, <4>1, <4>2 DEF Settles
    <3> QED
      BY <3>2, <3>3
  <2> QED
    BY <1>1, <2>1, <2>2, <2>3, <2>4, CurrentKept
<1>8. ASSUME NEW u \in Users, CreateDataExport(a, u) PROVE Current(a)'
  <2>1. a \notin Pollers
    BY <1>8, ActorsAssumption DEF CreateDataExport
  <2>2. PICK p : p.status = "pending" /\ p = [id |-> minted + 1, subject |-> u, status |-> "pending",
                                              key |-> None, exp |-> None]
    OBVIOUS
  <2>3. /\ batch' = batch /\ pc'[a] \in {"commit", "open"}
        /\ cur' = cur \/ cur' = [cur EXCEPT ![a] = p]
    BY <1>8, <2>2 DEF CreateDataExport, Goto, IInv, Typed, TypeOK
  <2>4. cur'[a] = cur[a] \/ cur'[a] = p
    BY <2>3 DEF IInv, Typed, TypeOK
  <2> QED
    BY <2>1, <2>2, <2>3, <2>4, CurrentKept
<1> QED
  BY <1>3, <1>4, <1>5, <1>6, <1>7, <1>8

\* Every step keeps the snapshots as current as they have to be.
LEMMA CurrentNext ==
    ASSUME Steady, Next
    PROVE  \A b \in Actors : Current(b)'
<1> USE DEF Steady, Exact
<1>1. ASSUME NEW a \in Actors, Close(a) PROVE Current(a)'
  <2>1. pc'[a] = "idle" /\ batch'[a] = {} /\ cur'[a] = NoRow
    BY <1>1 DEF Close, Goto, IInv, Typed, TypeOK
  <2>2. \A e \in Exports : ~ Settles(a, e)'
    BY <2>1 DEF Settles, InProcess
  <2> QED
    BY <2>1, <2>2, CurrentKept DEF NoRow, AbsentRow
<1>2. CASE Tick
  <2>1. UNCHANGED <<rows, batch, cur, want, pc>>
    BY <1>2 DEF Tick, local, store
  <2>2. \A b \in Actors, e \in Exports : Settles(b, e)' <=> Settles(b, e)
    BY <2>1 DEF Settles, InProcess
  <2> QED
    BY <2>1, <2>2, CurrentKept
<1>3. ASSUME NEW a \in Actors, Apart(a), Current(a)',
             \/ UNCHANGED store \/ (\E u \in Users : CreateDataExport(a, u))
             \/ SaveFlush(a) \/ Commit(a) \/ RollbackTx(a)
      PROVE  \A b \in Actors : Current(b)'
  BY <1>3, OthersCurrent
<1>4. ASSUME NEW a \in Actors, Acts(a)
      PROVE  Current(a)'
  <2>1. CASE Commit(a) \/ Rollback(a) \/ Abort(a) \/ DeadlockVictim(a)
    <3>1. Close(a)
      BY <2>1 DEF Commit, CommitTx, Rollback, Abort, DeadlockVictim, RollbackTx
    <3> QED
      BY <1>1, <3>1
  <2> QED
    <3>1. CASE a \in Erasers
      BY <1>4, <3>1, StartsCurrent, ErasersCurrent
    <3>2. CASE a \notin Erasers
      BY <1>4, <2>1, <3>2, StartsCurrent, ListsCurrent, DecidesCurrent, GoesOnCurrent DEF Acts, Step
    <3> QED
      BY <3>1, <3>2
<1> QED
  BY <1>2, <1>3, <1>4, StoreSteps

\* With no rows and no tasks this stronger invariant holds.
LEMMA SteadyInit == Init /\ OnePoll => Steady
<1> SUFFICES ASSUME Init, OnePoll PROVE Steady
  OBVIOUS
<1>1. Exact
  BY ExactInit
<1>2. /\ work = rows /\ \A e \in Exports : lock[e] = None
      /\ \A a \in Actors : pc[a] = "idle" /\ batch[a] = {} /\ cur[a] = NoRow
  BY DEF Init
<1>3. Moving
  BY <1>2 DEF Moving
<1>4. ASSUME NEW a \in Actors PROVE Current(a)
  <2>1. NoRow.status = "absent"
    BY DEF NoRow, AbsentRow
  <2>2. \A e \in Exports : ~ Settles(a, e)
    BY <1>2 DEF Settles, InProcess
  <2> QED
    BY <1>2, <2>1, <2>2 DEF Current
<1>5. Belongs /\ \A a \in Actors : Leaves(a)
  BY <1>2 DEF Init, AbsentRow, Belongs, Leaves
<1> QED
  BY <1>1, <1>3, <1>4, <1>5 DEF Steady

\* Every step keeps it.
LEMMA SteadyNext == Steady /\ [Next]_vars => Steady'
<1> SUFFICES ASSUME Steady, [Next]_vars PROVE Steady'
  OBVIOUS
<1>1. Exact'
  BY ExactNext DEF Steady
<1>2. CASE Next
  BY <1>1, <1>2, BelongsNext, MovingNext, LeavesNext, CurrentNext DEF Steady
<1>3. CASE UNCHANGED vars
  <2>1. Moving'
    BY <1>3 DEF vars, Steady, Moving, Stays
  <2>2. ASSUME NEW a \in Actors PROVE Current(a)'
    BY <1>3 DEF vars, Steady, Current, Settles, InProcess, Stays
  <2>3. Belongs' /\ \A a \in Actors : Leaves(a)'
    BY <1>3 DEF vars, Steady, Belongs, Leaves, Stays
  <2> QED
    BY <1>1, <2>1, <2>2, <2>3 DEF Steady
<1> QED
  BY <1>2, <1>3

\* A step of the program is a step of the lifecycle or leaves all statuses alone.
LEMMA StepsAreMoves ==
    ASSUME Steady, [Next]_vars
    PROVE  [Lifecycle!Next]_([e \in Exports |-> IF Stays(e) THEN rows[e].status ELSE "absent"])
<1>1. CASE rows' = rows
  BY <1>1 DEF Stays
<1>2. ASSUME Next, NEW a \in Actors, Commit(a) PROVE Lifecycle!Next
  <2>1. \A e \in Exports : /\ rows'[e] \in Row /\ rows'[e].status # "processing"
                           /\ rows'[e] = rows[e] \/ rows'[e] = work[e]
    <3>1. IInv'
      BY OwnedNext DEF Steady, Exact
    <3> QED
      BY <1>2, <3>1 DEF Commit, CommitTx, Visible, IInv, Typed, TypeOK, Owned,
                        NoCommittedProcessing
  <2>2. ASSUME NEW e \in Exports, Stays(e)
        PROVE  \/ rows'[e].status = rows[e].status
               \/ <<rows[e].status, rows'[e].status>> \in Lifecycle!Moves
    BY <2>1, <2>2 DEF Steady, Moving
  <2>3. \A e \in Exports : rows'[e].status \in {"absent", "pending", "ready"} \cup Lifecycle!Closed
    BY <2>1 DEF Row, Status, Lifecycle!Closed
  <2>4. \A e \in Exports : /\ Stays(e)' => Stays(e)
                           /\ ~ Stays(e)' => ~ Stays(e) \/ rows[e].status = "absent"
    BY <1>2, SubjectsStay
  <2> DEFINE shown(e) == IF Stays(e) THEN rows[e].status ELSE "absent"
             shows(e) == IF Stays(e)' THEN rows'[e].status ELSE "absent"
  <2>5. ASSUME NEW e \in Exports
        PROVE  /\ shows(e) \in {"absent", "pending", "ready"} \cup Lifecycle!Closed
               /\ shows(e) = shown(e) \/ <<shown(e), shows(e)>> \in Lifecycle!Moves
    BY <2>2, <2>3, <2>4
  <2> HIDE DEF shown, shows
  <2>6. [e \in Exports |-> shows(e)] \in
           [Exports -> {"absent", "pending", "ready"} \cup Lifecycle!Closed]
    BY <2>5
  <2> QED
    BY <2>5, <2>6 DEF Lifecycle!Next, shown, shows
<1>3. CASE Next
  BY <1>1, <1>2, <1>3, OnlyCommits DEF Steady
<1> QED
  BY <1>1, <1>3 DEF vars

\* With one poll at a time, the committed statuses of all exports whose subject
\* stays behave as ExportLifecycle says, whatever erasures of other subjects run
\* beside them: a request waits or is answered at once, is settled once, and then
\* only closes.
THEOREM KeepsLifecycle == ASSUME OnePoll PROVE Spec => ImplementsLifecycle
<1>1. Init => Lifecycle!Init
  BY DEF Init, AbsentRow, Lifecycle!Init
<1>2. Steady /\ [Next]_vars =>
        [Lifecycle!Next]_([e \in Exports |-> IF Stays(e) THEN rows[e].status ELSE "absent"])
  BY StepsAreMoves
<1>3. Init => Steady
  BY SteadyInit
<1> QED
  BY <1>1, <1>2, <1>3, SteadyNext, PTL DEF Spec, ImplementsLifecycle, Lifecycle!Spec

\* The file of a ready export that has not lapsed survives every step if the disk
\* makes no errors.
LEMMA LiveStep ==
    ASSUME Steady, ~ DiskFaults, [Next]_vars, NEW e \in Exports,
           rows[e].status = "ready", rows[e].exp > now, disk[e] = "whole", Stays(e)
    PROVE  disk'[e] = "whole"
<1> USE DEF Steady, Exact
<1>1. CASE disk' = disk
  BY <1>1
<1>2. events[e]["ready"] = 1
  BY Snapshots
<1>3. ASSUME NEW a \in Actors, DropArtifact(a), e = cur[a].key PROVE FALSE
  <2>1. pc[a] = "drop" /\ a \notin Erasers
    BY <1>3, NoneAssumption DEF DropArtifact, Leaves, Exports
  <2>2. cur[a].status = "ready"
    BY <2>1 DEF InStep, Roles
  <2>3. cur[a].key = cur[a].id
    BY <2>2 DEF InStep, Lists, Complete
  <2>4. cur[a].exp = rows[e].exp
    BY <1>3, <2>2, <2>3 DEF Current
  <2>5. ~ (cur[a].exp <= now)
    <3>1. rows[e].exp \in Nat /\ now \in Nat
      BY Snapshots DEF IInv, Typed, TypeOK, Row, Complete
    <3> QED
      BY <2>4, <3>1
  <2> QED
    BY <1>3, <2>1, <2>3, <2>5 DEF Current
<1>4. \A a \in Actors : ~ Settles(a, e)
  BY <1>2 DEF InStep, Settlers
<1>5. Next => Tick \/ disk'[e] = disk[e] \/ \E a \in Actors : DropArtifact(a) /\ e = cur[a].key
  BY <1>4, StoreSteps
<1> QED
  BY <1>1, <1>3, <1>5 DEF vars, Tick

\* With one poll at a time and a disk that makes no errors, no step of a poll, of a
\* request or of another subject's erasure removes or rewrites the file of a ready
\* export before its retention is over.
THEOREM RetentionIsKept == ASSUME OnePoll, ~ DiskFaults PROVE Spec => LiveArtifactIsKept
<1>1. Steady /\ [Next]_vars =>
        [\A e \in Exports :
            rows[e].status = "ready" /\ rows[e].exp > now /\ disk[e] = "whole" /\ Stays(e)
              => disk'[e] = "whole"]_vars
  BY LiveStep
<1>2. Init => Steady
  BY SteadyInit
<1> QED
  BY <1>1, <1>2, SteadyNext, PTL DEF Spec, LiveArtifactIsKept
-------------------------------------------------------------------------------
(* What is left of a closed export when the disk makes no errors.              *)

\* A row whose subject stays, committed or not, closes only after its file has
\* gone, and closes only once it was ready.
Emptied ==
    \A e \in Exports : Stays(e) =>
        /\ rows[e].status \in Closed =>
              rows[e].key = None /\ disk[e] = "none" /\ events[e]["ready"] = 1
        /\ work[e].status \in Closed =>
              work[e].key = None /\ disk[e] = "none" /\ events[e]["ready"] = 1

\* A save that closes a row comes after the deletion of its file and has read a
\* key that it clears; no processing fails.
Empties(a) ==
    /\ pc[a] \in {"get", "flush"} /\ cur[a].status = "ready" => disk[cur[a].id] = "none"
    /\ pc[a] = "flush" /\ seen[a].status = "ready" => seen[a].key # None
    /\ pc[a] \in {"get", "flush"} /\ InProcess(a) => want[a].status # "failed"

Bare == Steady /\ ~ DiskFaults /\ Emptied /\ \A a \in Actors : Empties(a)

\* The status and key of the version that a save writes.
LEMMA WritesEmpty ==
    ASSUME Bare, NEW a \in Actors, SaveFlush(a), NEW r \in Row,
           r.id = cur[a].id, Stays(r.id),
           r.status = IF want[a].status # seen[a].status THEN want[a].status
                                                         ELSE work[r.id].status,
           r.key = IF want[a].key # seen[a].key THEN want[a].key ELSE work[r.id].key,
           r.status \in Closed
    PROVE  r.key = None /\ disk[r.id] = "none" /\ events[r.id]["ready"] = 1
<1> USE DEF Bare, Steady, Exact
<1>1. r.id \in Exports /\ pc[a] = "flush"
  BY DEF Row, SaveFlush
<1>2. CASE InProcess(a)
  <2>1. want[a].status \in {"processing", "ready"}
    BY <1>1, <1>2 DEF InStep, Processes, Empties
  <2>2. want[a].status # seen[a].status
    BY <1>1, <1>2, <2>1 DEF InStep, Processes, Sees, Holds
  <2> QED
    BY <2>1, <2>2 DEF Closed
<1>3. CASE ~ InProcess(a)
  <2>1. a \notin Erasers
    BY <1>1 DEF Leaves
  <2>2. /\ events[r.id]["ready"] = 1 /\ cur[a].status = "ready" /\ want[a].key = None
        /\ seen[a].status = "ready" \/ work[r.id].status \in Closed
    BY <1>3, <2>1, ClosingCloses
  <2>3. disk[r.id] = "none"
    BY <1>1, <2>2 DEF Empties
  <2>4. r.key = None
    BY <1>1, <2>2 DEF Empties, Emptied
  <2> QED
    BY <2>2, <2>3, <2>4
<1> QED
  BY <1>2, <1>3

\* Every step keeps closed rows without a file and without a key.
LEMMA EmptiedNext ==
    ASSUME Bare, Next
    PROVE  Emptied'
<1> USE DEF Bare, Steady, Exact
<1>1. \A e \in Exports : events[e]["ready"] = 1 /\ disk[e] = "none" => disk'[e] = "none"
  BY ReadyIsKept
<1>2. \A e \in Exports : Stays(e)' => Stays(e)
  BY SubjectsStay
<1>3. CASE UNCHANGED store
  BY <1>1, <1>2, <1>3 DEF Emptied, store
<1>4. ASSUME NEW a \in Actors, NEW u \in Users, CreateDataExport(a, u) PROVE Emptied'
  <2>1. PICK p : /\ p.id = minted + 1 /\ p.status = "pending"
                 /\ p = [id |-> minted + 1, subject |-> u, status |-> "pending",
                         key |-> None, exp |-> None]
    OBVIOUS
  <2>2. /\ [p EXCEPT !.status = "processing"].id = minted + 1
        /\ [p EXCEPT !.status = "processing"].status = "processing"
    BY <2>1
  <2>3. PICK r, ts : Write(a, r, ts) /\ r.status \notin Closed
    BY <1>4, <2>1, <2>2 DEF CreateDataExport, Closed
  <2>4. /\ rows' = rows /\ events' = events
        /\ \A e \in Exports : work'[e] = work[e] \/ work'[e] = r
    BY <2>3 DEF Write, IInv, Typed, TypeOK
  <2> QED
    BY <1>1, <1>2, <2>3, <2>4 DEF Emptied
<1>5. ASSUME NEW a \in Actors, SaveFlush(a) PROVE Emptied'
  <2>1. PICK e \in Exports : e = cur[a].id
    BY <1>5, Flushed DEF IInv
  <2>2. PICK r \in Row, ts \in SUBSET EventType :
          /\ Write(a, r, ts) /\ r.id = e
          /\ r.status = IF want[a].status # seen[a].status THEN want[a].status
                                                          ELSE work[r.id].status
          /\ r.key = IF want[a].key # seen[a].key THEN want[a].key ELSE work[r.id].key
    BY <1>5, <2>1, Flushed DEF IInv
  <2>3. /\ rows' = rows /\ events' = events /\ work'[e] = r
        /\ \A f \in Exports \ {e} : work'[f] = work[f]
    BY <2>2 DEF Write, IInv, Typed, TypeOK
  <2>4. Stays(e) /\ r.status \in Closed => r.key = None /\ disk[e] = "none" /\ events[e]["ready"] = 1
    BY <1>5, <2>1, <2>2, WritesEmpty
  <2> QED
    BY <1>1, <1>2, <2>3, <2>4 DEF Emptied
<1>6. ASSUME NEW a \in Actors, Commit(a) PROVE Emptied'
  <2>1. /\ work' = work
        /\ \A e \in Exports : rows'[e] = work[e] \/ rows'[e] = rows[e]
        /\ \A e \in Exports : events'[e]["ready"] = IF Mine(a, e, "ready") THEN events[e]["ready"] + 1
                                                                         ELSE events[e]["ready"]
    BY <1>6 DEF Commit, CommitTx, Visible, Mine, EventType
  <2>2. \A e \in Exports : events[e]["ready"] = 1 => events'[e]["ready"] = 1
    BY <2>1 DEF Tables, Drafted
  <2> QED
    BY <1>1, <1>2, <2>1, <2>2 DEF Emptied
<1>7. ASSUME NEW a \in Actors, RollbackTx(a) PROVE Emptied'
  <2>1. /\ rows' = rows /\ events' = events
        /\ \A e \in Exports : work'[e] = rows[e] \/ work'[e] = work[e]
    BY <1>7 DEF RollbackTx
  <2> QED
    BY <1>1, <1>2, <2>1 DEF Emptied
<1> QED
  BY <1>3, <1>4, <1>5, <1>6, <1>7, StoreSteps DEF Tick

\* The steps after which a task is about to save.
LEMMA BeforeSave ==
    ASSUME Bare, NEW a \in Actors, Acts(a), pc'[a] \in {"get", "flush"}
    PROVE  DropArtifact(a) \/ ProcessOne(a) \/ SaveGet(a) \/ WriteArtifact(a)
<1> USE DEF Bare, Steady, Exact, IInv, Typed, TypeOK
<1>1. ~ \E u \in Users : CreateDataExport(a, u) \/ StartErase(a, u)
  BY DEF CreateDataExport, StartErase, Goto
<1>2. ~ \E u \in Users, e \in Exports, route \in Routes : LookUp(a, u, e, route)
  BY DEF LookUp, Goto
<1>3. ~ (StartPoll(a) \/ ListPending(a) \/ StreamArtifact(a) \/ OpenArtifact(a))
  BY DEF StartPoll, ListPending, StreamArtifact, OpenArtifact, Goto
<1>4. ~ (ProbeArtifact(a) \/ AuthoriseDownload(a))
  BY DEF ProbeArtifact, AuthoriseDownload, AfterReconcile, Goto
<1>5. ~ ReconcileReadyRequest(a)
  <2>1. \A r : AfterReconcile(a, r.status) \notin {"get", "flush"}
    BY DEF AfterReconcile
  <2> QED
    BY <2>1 DEF ReconcileReadyRequest, Take, Goto
<1>6. ~ EraseForUser(a)
  BY DEF EraseForUser, Take, Goto
<1>7. ~ SaveFlush(a)
  BY DEF SaveFlush, AfterSave, Goto
<1>8. ~ (Commit(a) \/ Rollback(a) \/ Abort(a) \/ DeadlockVictim(a))
  BY DEF Commit, CommitTx, Rollback, Abort, DeadlockVictim, RollbackTx, Close, Goto
<1> QED
  BY <1>1, <1>2, <1>3, <1>4, <1>5, <1>6, <1>7, <1>8 DEF Acts, Step

\* Every step keeps the deletion of a file ahead of the save that closes its row.
LEMMA EmptiesNext ==
    ASSUME Bare, Next
    PROVE  \A b \in Actors : Empties(b)'
<1> USE DEF Bare, Steady, Exact
<1>1. ASSUME NEW b \in Actors, cur[b].status = "ready", disk[cur[b].id] = "none"
      PROVE  disk'[cur[b].id] = "none"
  <2>1. cur[b].id \in Exports /\ events[cur[b].id]["ready"] = 1
    <3>1. cur[b] \in Row
      BY <1>1 DEF IInv, Typed, TypeOK, NoRow, AbsentRow
    <3> QED
      BY <1>1, <3>1 DEF InStep, Lists, Row
  <2> QED
    BY <1>1, <2>1, ReadyIsKept
<1>2. ASSUME NEW b \in Actors, pc'[b] = pc[b], cur'[b] = cur[b], want'[b] = want[b],
             seen'[b] = seen[b]
      PROVE  Empties(b)'
  BY <1>1, <1>2 DEF Empties, InProcess
<1>3. CASE Tick
  BY <1>2, <1>3 DEF Tick, local
<1>4. ASSUME NEW a \in Actors, Acts(a), pc'[a] \in {"get", "flush"} PROVE Empties(a)'
  <2>1. CASE DropArtifact(a)
    <3>1. /\ pc[a] = "drop" /\ UNCHANGED <<cur, want, seen>>
          /\ disk' = [e \in Exports |-> IF e = cur[a].key THEN "none" ELSE disk[e]]
      BY <2>1 DEF DropArtifact, local
    <3>2. pc'[a] = "get"
      BY <2>1, AfterGoto DEF DropArtifact, IInv
    <3>3. /\ cur[a].status = "ready" => cur[a].key = cur[a].id
          /\ cur[a].id \in Exports
      BY <3>1 DEF InStep, Lists, Complete, IInv, Typed, Busy, Row
    <3>4. a \notin Erasers => cur[a].status # "pending"
      BY <3>1 DEF InStep, Roles
    <3> QED
      BY <3>1, <3>2, <3>3, <3>4 DEF Empties, InProcess
  <2>2. CASE ProcessOne(a)
    <3>1. pc[a] = "process" /\ a \in Pollers /\ InProcess(a)
      BY <2>2, ActorsAssumption DEF ProcessOne, InStep, Roles, InProcess
    <3>2. PICK r \in batch[a] :
             Take(a, r, [r EXCEPT !.status = "processing", !.key = None, !.exp = None], "get")
      BY <1>4, <2>2 DEF ProcessOne, Goto, IInv, Typed, TypeOK
    <3>3. r \in Row /\ r.status = "pending"
      BY <3>1 DEF InStep, Lists, IInv, Typed, TypeOK
    <3>4. PICK w : /\ w.status = "processing"
                   /\ w = [r EXCEPT !.status = "processing", !.key = None, !.exp = None]
      BY <3>3 DEF Row
    <3>5. Take(a, r, w, "get") /\ UNCHANGED <<seen, store>>
      BY <2>2, <3>2, <3>4 DEF ProcessOne
    <3>6. cur'[a] = r /\ want'[a] = w /\ pc'[a] = "get"
      BY <3>5, AfterTake DEF IInv
    <3> QED
      BY <3>3, <3>4, <3>6 DEF Empties
  <2>3. CASE SaveGet(a)
    <3>1. /\ pc[a] = "get" /\ UNCHANGED <<cur, want, disk>>
          /\ seen'[a] = Visible(a, cur[a].id)
      BY <2>3 DEF SaveGet, IInv, Typed, TypeOK
    <3>2. pc'[a] = "flush"
      BY <2>3, AfterGoto DEF SaveGet, IInv
    <3>3. cur[a].id \in Exports
      BY <3>1 DEF IInv, Typed, Busy, Row
    <3>4. \A e \in Exports :
             Visible(a, e).status = "ready" => Visible(a, e).key = e /\ e # None
      BY NoneAssumption DEF Visible, Tables, Versions, Complete, IInv, Typed, Ids, Exports
    <3> QED
      BY <3>1, <3>2, <3>3, <3>4 DEF Empties, InProcess
  <2>4. CASE WriteArtifact(a)
    <3>1. pc[a] = "write" /\ UNCHANGED cur /\ cur[a].status = "pending" /\ cur[a] \in Row
      BY <2>4 DEF WriteArtifact, InStep, Roles, IInv, Typed, Busy
    <3>2. PICK w : /\ w.status = "ready"
                   /\ w = [cur[a] EXCEPT !.status = "ready", !.key = cur[a].id,
                                         !.exp = now + ExpiryHours]
      BY <3>1 DEF Row
    <3>3. Goto(a, "get") /\ want'[a] = w
      BY <2>4, <3>2 DEF WriteArtifact, IInv, Typed, TypeOK
    <3>4. pc'[a] = "get"
      BY <3>3, AfterGoto DEF IInv
    <3> QED
      BY <3>1, <3>2, <3>3, <3>4 DEF Empties
  <2> QED
    BY <1>4, <2>1, <2>2, <2>3, <2>4, BeforeSave
<1>5. ASSUME NEW a \in Actors, Acts(a), Apart(a) PROVE \A b \in Actors : Empties(b)'
  <2>1. ASSUME NEW b \in Actors \ {a} PROVE Empties(b)'
    <3>1. pc'[b] = pc[b] /\ cur'[b] = cur[b] /\ want'[b] = want[b] /\ seen'[b] = seen[b]
      BY <1>5 DEF Apart, OthersStay
    <3> QED
      BY <1>2, <3>1
  <2>2. Empties(a)'
    BY <1>4, <1>5 DEF Empties
  <2> QED
    BY <2>1, <2>2
<1> QED
  BY <1>3, <1>5, StoreSteps

\* With no rows and no tasks this holds too.
LEMMA BareInit == Init /\ OnePoll /\ ~ DiskFaults => Bare
  BY SteadyInit DEF Init, AbsentRow, Bare, Emptied, Empties, Closed

\* Every step keeps it.
LEMMA BareNext == Bare /\ [Next]_vars => Bare'
<1> SUFFICES ASSUME Bare, [Next]_vars PROVE Emptied' /\ \A a \in Actors : Empties(a)'
  BY SteadyNext DEF Bare
<1>1. CASE Next
  BY <1>1, EmptiedNext, EmptiesNext
<1>2. CASE UNCHANGED vars
  BY <1>2 DEF vars, Bare, Emptied, Empties, InProcess, Stays
<1> QED
  BY <1>1, <1>2

\* Without disk errors, and with one poll at a time, a failed or expired export
\* whose subject stays has no file, and its row names none: each of the tasks that may
\* close a row at the same time deletes the file first, and the column-wise UPDATE
\* of the last one keeps the key cleared.
THEOREM ClosedIsEmpty == Spec => [](OnePoll /\ ~ DiskFaults => ClosedLeavesNothing)
<1>1. Init => (OnePoll /\ ~ DiskFaults => Bare)
  BY BareInit
<1>2. (OnePoll /\ ~ DiskFaults => Bare) /\ [Next]_vars => (OnePoll /\ ~ DiskFaults => Bare)'
  BY BareNext DEF OnePoll
<1>3. (OnePoll /\ ~ DiskFaults => Bare) => (OnePoll /\ ~ DiskFaults => ClosedLeavesNothing)
  BY DEF Bare, Emptied, ClosedLeavesNothing
<1> QED
  BY <1>1, <1>2, <1>3, PTL DEF Spec
-------------------------------------------------------------------------------
(* The closing events of an export whose subject stays.                        *)

\* Task a has logged the end of e and not committed it.
Logs(a, e) == Mine(a, e, "failed") \/ Mine(a, e, "expired")

\* The row in hand is no longer on the list, and a task starts with neither.
AtHand(a) ==
    /\ pc[a] = "idle" => batch[a] = {} /\ cur[a] = NoRow /\ drafts[a] = {}
    /\ pc[a] \in {"probe", "authorise", "stream", "drop", "get", "flush", "open", "write"} =>
          \A r \in batch[a] : r.id # cur[a].id

\* A task that has logged the end of a row is done with it.
Spent(a) ==
    \A e \in Exports : Stays(e) /\ Logs(a, e) =>
        /\ a \notin Erasers /\ lock[e] = a /\ work[e].status \in Closed
        /\ ~ (Mine(a, e, "failed") /\ Mine(a, e, "expired"))
        /\ cur[a].id # e /\ \A r \in batch[a] : r.id # e

\* The polls and requests that may still commit a closing event of e: they have seen
\* it ready, or have logged the event already.
MayClose(e) ==
    {a \in Webs \cup Pollers :
        \/ \E r \in batch[a] \cup {cur[a]} : r.id = e /\ r.status = "ready"
        \/ Logs(a, e)}

Closings(e) == events[e]["failed"] + events[e]["expired"]

\* A row is closed together with its first closing event; from then on nobody new
\* may add another, and who has added one is through.
Logged(e) ==
    /\ rows[e].status \notin Closed =>
          /\ Closings(e) = 0
          /\ work[e].status \in Closed => \E a \in Actors : Logs(a, e)
    /\ rows[e].status \in Closed =>
          /\ Closings(e) >= 1
          /\ Closings(e) + Cardinality(MayClose(e)) <= Cardinality(Webs \cup Pollers)

Traced ==
    /\ Steady
    /\ \A a \in Actors : AtHand(a) /\ Spent(a)
    /\ \A e \in Exports : Stays(e) => Logged(e)

\* Where the snapshots of a task come from: its list, the committed rows when it
\* starts, the requests it finds pending.
Sourced(a) ==
    \A r \in batch'[a] \cup {cur'[a]} :
        \/ r \in batch[a] \cup {cur[a], NoRow}
        \/ pc[a] = "idle" /\ (r.status = "pending" \/ \E e \in Exports : r = rows[e])
        \/ r.status = "pending" /\ \E e \in Exports : r = Visible(a, e)

\* The steps with which a task starts, or lists what is pending.
LEMMA ListingsSource ==
    ASSUME Traced, NEW a \in Actors,
           \/ \E u \in Users : CreateDataExport(a, u) \/ StartErase(a, u)
           \/ \E u \in Users, e \in Exports, route \in Routes : LookUp(a, u, e, route)
           \/ StartPoll(a) \/ ListPending(a)
    PROVE  Sourced(a) /\ AtHand(a)'
<1> USE DEF Traced, Steady, Exact, IInv, Typed, TypeOK
<1>1. ASSUME NEW u \in Users, CreateDataExport(a, u) PROVE Sourced(a) /\ AtHand(a)'
  <2>1. PICK p : p.status = "pending" /\ p = [id |-> minted + 1, subject |-> u, status |-> "pending",
                                              key |-> None, exp |-> None]
    OBVIOUS
  <2>2. /\ batch' = batch /\ pc[a] = "idle" /\ pc'[a] \in {"commit", "open"}
        /\ cur' = cur \/ cur' = [cur EXCEPT ![a] = p]
    BY <1>1, <2>1 DEF CreateDataExport, Goto
  <2>3. cur'[a] = cur[a] \/ cur'[a] = p
    BY <2>2
  <2> QED
    BY <2>1, <2>2, <2>3 DEF Sourced, AtHand
<1>2. CASE \/ \E u \in Users : StartErase(a, u)
           \/ \E u \in Users, e \in Exports, route \in Routes : LookUp(a, u, e, route)
           \/ StartPoll(a)
  <2>1. PICK S \in SUBSET {rows[e] : e \in Exports} : batch' = [batch EXCEPT ![a] = S]
    <3>1. ASSUME NEW u \in Users, NEW e \in Exports, NEW route \in Routes, LookUp(a, u, e, route)
          PROVE  \E S \in SUBSET {rows[f] : f \in Exports} : batch' = [batch EXCEPT ![a] = S]
      <4>1. {rows[e]} \in SUBSET {rows[f] : f \in Exports} /\ batch' = [batch EXCEPT ![a] = {rows[e]}]
        BY <3>1 DEF LookUp
      <4> QED
        BY <4>1
    <3>2. ASSUME StartPoll(a)
          PROVE  \E S \in SUBSET {rows[f] : f \in Exports} : batch' = [batch EXCEPT ![a] = S]
      BY <3>2 DEF StartPoll
    <3>3. ASSUME NEW u \in Users, StartErase(a, u)
          PROVE  \E S \in SUBSET {rows[f] : f \in Exports} : batch' = [batch EXCEPT ![a] = S]
      BY <3>3 DEF StartErase
    <3> QED
      BY <1>2, <3>1, <3>2, <3>3
  <2>2. pc[a] = "idle" /\ cur' = cur /\ pc'[a] \in {"reconcile", "erase"}
    BY <1>2 DEF LookUp, StartPoll, StartErase, Goto
  <2>3. \A r \in batch'[a] : \E e \in Exports : r = rows[e]
    BY <2>1
  <2> QED
    BY <2>2, <2>3 DEF Sourced, AtHand
<1>3. CASE ListPending(a)
  <2>1. PICK page \in SUBSET {r \in {Visible(a, e) : e \in Exports} : r.status = "pending"} :
           batch'[a] = page
    BY <1>3 DEF ListPending
  <2>2. cur' = cur /\ pc'[a] = "process"
    BY <1>3 DEF ListPending, Goto
  <2> QED
    BY <2>1, <2>2 DEF Sourced, AtHand
<1> QED
  BY <1>1, <1>2, <1>3

\* The steps with which it goes through its list.
LEMMA TakingsSource ==
    ASSUME Traced, NEW a \in Actors,
           ReconcileReadyRequest(a) \/ ProcessOne(a) \/ EraseForUser(a)
    PROVE  Sourced(a) /\ AtHand(a)'
<1> USE DEF Traced, Steady, Exact, IInv
<1>1. ASSUME NEW r \in batch[a], NEW w, NEW phase, phase # "idle", Take(a, r, w, phase)
      PROVE  Sourced(a) /\ AtHand(a)'
  <2>1. pc'[a] = phase /\ cur'[a] = r /\ batch'[a] = batch[a] \ {r}
    BY <1>1 DEF Take, Goto, Typed, TypeOK
  <2>2. \A s \in batch[a] \ {r} : s.id # r.id
    BY <1>1 DEF InStep, Lists
  <2> QED
    BY <1>1, <2>1, <2>2 DEF Sourced, AtHand
<1>2. CASE ReconcileReadyRequest(a)
  <2>1. \A status : AfterReconcile(a, status) # "idle"
    BY DEF AfterReconcile
  <2>2. \E r \in batch[a] : \E phase, w : phase # "idle" /\ Take(a, r, w, phase)
    <3>1. PICK r \in batch[a] :
            CASE r.status # "ready"  -> Take(a, r, NoRow, AfterReconcile(a, r.status))
              [] IsRequestExpired(r) -> Take(a, r, Expired(r), "drop")
              [] OTHER               -> Take(a, r, NoRow, "probe")
      BY <1>2 DEF ReconcileReadyRequest
    <3>2. CASE r.status # "ready"
      BY <2>1, <3>1, <3>2 DEF IsRequestExpired
    <3>3. CASE r.status = "ready" /\ IsRequestExpired(r)
      BY <3>1, <3>3
    <3>4. CASE r.status = "ready" /\ ~ IsRequestExpired(r)
      BY <3>1, <3>4
    <3> QED
      BY <3>2, <3>3, <3>4
  <2> QED
    BY <1>1, <2>2
<1>3. CASE ProcessOne(a) \/ EraseForUser(a)
  <2>1. CASE Goto(a, "commit") /\ UNCHANGED <<cur, want, batch>>
    <3>1. pc'[a] = "commit"
      BY <2>1, AfterGoto
    <3> QED
      BY <2>1, <3>1 DEF Sourced, AtHand
  <2> QED
    BY <1>1, <1>3, <2>1 DEF ProcessOne, EraseForUser
<1> QED
  BY <1>2, <1>3

\* The steps with which it goes on with the row in hand.
LEMMA HandsSource ==
    ASSUME Traced, NEW a \in Actors,
           \/ ProbeArtifact(a) \/ AuthoriseDownload(a) \/ StreamArtifact(a) \/ DropArtifact(a)
           \/ SaveGet(a) \/ OpenArtifact(a) \/ WriteArtifact(a) \/ SaveFlush(a)
    PROVE  Sourced(a) /\ AtHand(a)'
<1> USE DEF Traced, Steady, Exact, IInv
<1>1. ASSUME UNCHANGED <<batch, cur>>, NEW phase, phase # "idle", Goto(a, phase),
             pc[a] \in {"probe", "authorise", "stream", "drop", "get", "flush", "open", "write"}
      PROVE  Sourced(a) /\ AtHand(a)'
  <2>1. pc'[a] = phase
    BY <1>1, AfterGoto
  <2> QED
    BY <1>1, <2>1 DEF Sourced, AtHand
<1>2. CASE \/ ProbeArtifact(a) \/ AuthoriseDownload(a) \/ StreamArtifact(a) \/ DropArtifact(a)
           \/ SaveGet(a) \/ OpenArtifact(a) \/ WriteArtifact(a)
  <2>1. AfterReconcile(a, "ready") # "idle"
    BY DEF AfterReconcile
  <2>2. /\ UNCHANGED <<batch, cur>> /\ \E phase : phase # "idle" /\ Goto(a, phase)
        /\ pc[a] \in {"probe", "authorise", "stream", "drop", "get", "open", "write"}
    BY <1>2, <2>1 DEF ProbeArtifact, AuthoriseDownload, StreamArtifact, DropArtifact, SaveGet,
                      OpenArtifact, WriteArtifact, ExportFails, local
  <2> QED
    BY <1>1, <2>2
<1>3. CASE SaveFlush(a)
  <2>1. /\ pc'[a] = AfterSave(a) /\ batch'[a] = batch[a] /\ pc[a] = "flush"
        /\ cur'[a] = IF want[a].status = "processing" THEN cur[a] ELSE NoRow
    BY <1>3, AfterFlush DEF SaveFlush
  <2>2. /\ AfterSave(a) # "idle"
        /\ want[a].status # "processing" =>
              AfterSave(a) \in {"erase", "reconcile", "process", "rollback", "commit"}
    BY DEF AfterSave
  <2> QED
    BY <2>1, <2>2 DEF Sourced, AtHand
<1> QED
  BY <1>2, <1>3

\* All steps of a task.
LEMMA StepsSource ==
    ASSUME Traced, NEW a \in Actors, Acts(a)
    PROVE  Sourced(a) /\ AtHand(a)'
<1>1. CASE Commit(a) \/ Rollback(a) \/ Abort(a) \/ DeadlockVictim(a)
  <2>1. Close(a)
    BY <1>1 DEF Commit, CommitTx, Rollback, Abort, DeadlockVictim, RollbackTx
  <2>2. pc'[a] = "idle" /\ batch'[a] = {} /\ cur'[a] = NoRow /\ drafts'[a] = {}
    BY <2>1 DEF Close, Goto, Traced, Steady, Exact, IInv, Typed, TypeOK
  <2> QED
    BY <2>2 DEF Sourced, AtHand
<1> QED
  BY <1>1, ListingsSource, TakingsSource, HandsSource DEF Acts, Step

\* A closed row is not seen ready by anybody who has not seen it so before.
LEMMA ReadySeen ==
    ASSUME Traced, NEW a \in Actors, Sourced(a), NEW e \in Exports, rows[e].status \in Closed,
           NEW r \in batch'[a] \cup {cur'[a]}, r.id = e, r.status = "ready"
    PROVE  r \in batch[a] \cup {cur[a]}
<1> USE DEF Traced, Steady, Exact, IInv
<1>1. r # NoRow
  BY DEF NoRow, AbsentRow
<1>2. \A f \in Exports : r = rows[f] => r.status \in Closed
  BY DEF Typed, Ids
<1> QED
  BY <1>1, <1>2 DEF Sourced, Closed

\* A row whose end a task has logged is neither on its list nor in its hand later.
LEMMA SpentAway ==
    ASSUME Traced, NEW a \in Actors, Sourced(a), NEW e \in Exports, Stays(e), Logs(a, e),
           NEW r \in batch'[a] \cup {cur'[a]}
    PROVE  r.id # e
<1> USE DEF Traced, Steady, Exact, IInv
<1>1. /\ lock[e] = a /\ work[e].status \in Closed
      /\ cur[a].id # e /\ \A s \in batch[a] : s.id # e
  BY DEF Spent
<1>2. NoRow.id # e
  BY DEF NoRow, AbsentRow, Exports
<1>3. pc[a] # "idle"
  BY DEF AtHand, Logs, Mine
<1>4. ASSUME NEW f \in Exports, r = Visible(a, f), r.status = "pending"
      PROVE  r.id # e
  <2>1. r.id = f
    BY <1>4 DEF Visible, Typed, Ids
  <2>2. f # e
    BY <1>1, <1>4 DEF Visible, Closed
  <2> QED
    BY <2>1, <2>2
<1> QED
  BY <1>1, <1>2, <1>3, <1>4 DEF Sourced

\* What a save logs when it closes a row, and who logs it.
LEMMA FlushLogs ==
    ASSUME Traced, NEW a \in Actors, SaveFlush(a), NEW e \in Exports, e = cur[a].id, Stays(e)
    PROVE  /\ a \notin Erasers /\ lock'[e] = a /\ ~ Logs(a, e)
           /\ Logs(a, e)' => /\ work'[e].status \in Closed /\ want[a].status # "processing"
                             /\ ~ (Mine(a, e, "failed") /\ Mine(a, e, "expired"))'
                             /\ rows[e].status \in Closed => a \in MayClose(e)
           /\ work'[e].status \in Closed /\ rows[e].status \notin Closed => Logs(a, e)'
<1> USE DEF Traced, Steady, Exact, IInv
<1>1. pc[a] = "flush" /\ a \notin Erasers /\ lock[e] \in {None, a}
  BY Flushed DEF Leaves
<1>2. ~ Logs(a, e)
  BY DEF Spent
<1>3. PICK r \in Row : r = Merge(work[e], seen[a], want[a])
  BY Flushed, RowsMerged DEF Typed, TypeOK
<1>4. /\ r.id = e
       /\ r.status = IF want[a].status # seen[a].status THEN want[a].status ELSE work[e].status
  <2>1. work[e] \in Row /\ work[e].id = e
    BY DEF Typed, TypeOK, Ids
  <2> QED
    BY <1>3, <2>1 DEF Merge, Row
<1>5. PICK ts \in SUBSET EventType : ts = LifecycleEvents(seen[a].status, want[a].status)
  BY DEF LifecycleEvents, EventType
<1>6. /\ work'[e] = r /\ lock'[e] = a /\ rows' = rows
      /\ \A t \in EventType : Mine(a, e, t)' <=> Mine(a, e, t) \/ t \in ts
  <2>1. Write(a, r, ts)
    BY <1>3, <1>5 DEF SaveFlush
  <2> QED
    BY <1>4, <2>1 DEF Write, Mine, Typed, TypeOK
<1>7. Logs(a, e)' <=> "failed" \in ts \/ "expired" \in ts
  BY <1>2, <1>6 DEF Logs, EventType
<1>8. ~ (Mine(a, e, "failed") /\ Mine(a, e, "expired"))'
  <2>1. ~ ("failed" \in ts /\ "expired" \in ts)
    BY <1>5 DEF LifecycleEvents
  <2> QED
    BY <1>2, <1>6, <2>1 DEF Logs, EventType
<1>9. CASE InProcess(a)
  <2>1. /\ want[a].status \in {"processing", "failed", "ready"}
        /\ want[a].status = "processing" => seen[a].status # "processing"
        /\ want[a].status # "processing" => seen[a].status = "processing"
    BY <1>1, <1>9 DEF InStep, Processes, Sees, Holds
  <2>2. r.status = want[a].status
    BY <1>4, <2>1
  <2>3. "expired" \notin ts /\ ("failed" \in ts <=> want[a].status = "failed")
    BY <1>5, <2>1 DEF LifecycleEvents
  <2>4. rows[e].status \notin Closed
    <3>1. Settles(a, e)
      BY <1>1, <1>9 DEF Settles
    <3> QED
      BY <1>1, <3>1 DEF Current, InStep, Settlers, Actors, Closed
  <2>5. Logs(a, e)' <=> work'[e].status = "failed"
    BY <1>6, <1>7, <2>2, <2>3
  <2>6. Logs(a, e)' => want[a].status # "processing"
    BY <1>6, <2>2, <2>5
  <2>7. work'[e].status \in Closed => work'[e].status = "failed"
    BY <1>6, <2>1, <2>2 DEF Closed
  <2>8. "failed" \in Closed
    BY DEF Closed
  <2> QED
    BY <1>1, <1>2, <1>6, <1>8, <2>4, <2>5, <2>6, <2>7, <2>8
<1>10. CASE ~ InProcess(a)
  <2>1. /\ r.status \in Closed /\ cur[a].status = "ready"
        /\ seen[a].status = "ready" \/ work[e].status \in Closed
    BY <1>1, <1>4, <1>10, ClosingCloses
  <2>2. want[a].status \in Closed
    BY <1>1, <1>10 DEF InStep, Closes
  <2>3. seen[a].status = "ready" => "failed" \in ts \/ "expired" \in ts
    BY <1>5, <2>2 DEF LifecycleEvents, Closed
  <2>4. a \in MayClose(e)
    BY <1>1, <2>1 DEF MayClose, Actors
  <2>5. rows[e].status \notin Closed => work[e].status \notin Closed
    <3>1. ASSUME rows[e].status \notin Closed, work[e].status \in Closed PROVE FALSE
      <4>1. PICK b \in Actors : Logs(b, e)
        BY <3>1 DEF Logged
      <4>2. lock[e] = b
        BY <4>1 DEF Spent
      <4> QED
        BY <1>1, <1>2, <4>1, <4>2, NoneAssumption
    <3> QED
      BY <3>1
  <2> QED
    BY <1>1, <1>2, <1>6, <1>7, <1>8, <2>1, <2>2, <2>3, <2>4, <2>5 DEF Closed
<1> QED
  BY <1>9, <1>10

\* Every step keeps tasks that have logged the end of a row away from it.
LEMMA SpentNext ==
    ASSUME Traced, Next
    PROVE  \A b \in Actors : AtHand(b)' /\ Spent(b)'
<1> USE DEF Traced, Steady, Exact, IInv
<1>1. \A e \in Exports : Stays(e)' => Stays(e)
  BY SubjectsStay
<1>2. CASE Tick
  <2>1. UNCHANGED <<store, pc, batch, cur>>
    BY <1>2 DEF Tick, local
  <2> QED
    BY <1>1, <2>1 DEF store, AtHand, Spent, Logs, Mine
<1>3. ASSUME NEW a \in Actors, Acts(a), Apart(a), NEW b \in Actors \ {a},
             \/ UNCHANGED store \/ (\E u \in Users : CreateDataExport(a, u))
             \/ SaveFlush(a) \/ Commit(a) \/ RollbackTx(a)
      PROVE  AtHand(b)' /\ Spent(b)'
  <2>1. UNCHANGED <<pc[b], batch[b], cur[b], drafts[b]>>
    BY <1>3 DEF Apart, OthersStay
  <2>2. ASSUME NEW e \in Exports, Stays(e)', Logs(b, e)'
        PROVE  /\ Logs(b, e) /\ Stays(e) /\ lock'[e] = b /\ work'[e] = work[e]
    <3>1. Logs(b, e) /\ Stays(e) /\ lock[e] = b
      BY <1>1, <2>1, <2>2 DEF Logs, Mine, Spent
    <3>2. Exact'
      BY ExactNext
    <3>3. lock'[e] = b
      BY <2>2, <3>2 DEF Logs, Tables, Versions, EventType
    <3>4. work'[e] = work[e]
      <4>1. ASSUME NEW r, NEW ts, Write(a, r, ts) PROVE work'[e] = work[e]
        BY <3>3, <4>1, <1>3 DEF Write, Typed, TypeOK
      <4>2. ASSUME RollbackTx(a) \/ Commit(a) \/ UNCHANGED store PROVE work'[e] = work[e]
        BY <1>3, <3>1, <4>2 DEF RollbackTx, Commit, CommitTx, store, Typed, TypeOK
      <4> QED
        BY <1>3, <4>1, <4>2 DEF CreateDataExport, SaveFlush
    <3> QED
      BY <3>1, <3>3, <3>4
  <2>3. Spent(b)'
    <3>1. ASSUME NEW e \in Exports, Stays(e)', Logs(b, e)'
          PROVE  /\ b \notin Erasers /\ lock'[e] = b /\ work'[e].status \in Closed
                 /\ ~ (Mine(b, e, "failed") /\ Mine(b, e, "expired"))'
                 /\ cur'[b].id # e /\ \A r \in batch'[b] : r.id # e
      BY <2>1, <2>2, <3>1 DEF Spent, Mine
    <3> QED
      BY <3>1 DEF Spent
  <2> QED
    BY <2>1, <2>3 DEF AtHand
<1>4. ASSUME NEW a \in Actors, Acts(a),
             \/ UNCHANGED store \/ (\E u \in Users : CreateDataExport(a, u))
             \/ SaveFlush(a) \/ Commit(a) \/ RollbackTx(a)
      PROVE  Spent(a)'
  <2>1. Sourced(a)
    BY <1>4, StepsSource
  <2>2. CASE UNCHANGED store
    BY <1>1, <2>1, <2>2, SpentAway DEF store, Spent, Logs, Mine
  <2>3. ASSUME NEW u \in Users, CreateDataExport(a, u) PROVE Spent(a)'
    <3>1. PICK r, ts : Write(a, r, ts) /\ ts \subseteq {"created", "started"}
      <4>1. /\ {"created"} \subseteq {"created", "started"}
            /\ {"created", "started"} \subseteq {"created", "started"}
        OBVIOUS
      <4> QED
        BY <2>3, <4>1 DEF CreateDataExport
    <3>2. drafts'[a] = {r.id} \X ts
      BY <2>3, <3>1 DEF CreateDataExport, AtHand, Write, Typed, TypeOK
    <3>3. \A e \in Exports : ~ Logs(a, e)'
      BY <3>1, <3>2 DEF Logs, Mine
    <3> QED
      BY <3>3 DEF Spent
  <2>4. CASE SaveFlush(a)
    <3>1. PICK e \in Exports : e = cur[a].id
      BY <2>4, Flushed
    <3>2. ASSUME NEW f \in Exports \ {e} PROVE UNCHANGED <<work[f], lock[f]>>
      BY <2>4, <3>1, <3>2, Flushed DEF Write, Typed, TypeOK
    <3>3. ASSUME NEW f \in Exports \ {e}, NEW t \in EventType PROVE Mine(a, f, t)' <=> Mine(a, f, t)
      BY <2>4, <3>1, <3>3, Flushed DEF Write, Mine, Typed, TypeOK
    <3>4. ASSUME NEW f \in Exports \ {e}, Stays(f)', Logs(a, f)'
          PROVE  /\ a \notin Erasers /\ lock'[f] = a /\ work'[f].status \in Closed
                 /\ ~ (Mine(a, f, "failed") /\ Mine(a, f, "expired"))'
                 /\ cur'[a].id # f /\ \A r \in batch'[a] : r.id # f
      <4>1. Stays(f) /\ Logs(a, f)
        BY <1>1, <3>3, <3>4 DEF Logs, EventType
      <4> QED
        BY <2>1, <3>2, <3>3, <4>1, SpentAway DEF Spent, EventType
    <3>5. ASSUME Stays(e)', Logs(a, e)'
          PROVE  /\ a \notin Erasers /\ lock'[e] = a /\ work'[e].status \in Closed
                 /\ ~ (Mine(a, e, "failed") /\ Mine(a, e, "expired"))'
                 /\ cur'[a].id # e /\ \A r \in batch'[a] : r.id # e
      <4>1. /\ a \notin Erasers /\ lock'[e] = a /\ work'[e].status \in Closed
            /\ ~ (Mine(a, e, "failed") /\ Mine(a, e, "expired"))'
            /\ want[a].status # "processing"
        BY <1>1, <2>4, <3>1, <3>5, FlushLogs
      <4>2. batch'[a] = batch[a] /\ cur'[a] = NoRow /\ pc[a] = "flush"
        BY <2>4, <4>1, AfterFlush DEF SaveFlush
      <4>3. NoRow.id # e
        BY DEF NoRow, AbsentRow, Exports
      <4> QED
        BY <3>1, <4>1, <4>2, <4>3 DEF AtHand
    <3> QED
      BY <3>4, <3>5 DEF Spent
  <2>5. CASE Commit(a) \/ RollbackTx(a)
    <3>1. \A e \in Exports : ~ Logs(a, e)'
      BY <2>5, AtClose DEF Commit, CommitTx, RollbackTx, Logs, EventType
    <3> QED
      BY <3>1 DEF Spent
  <2> QED
    BY <1>4, <2>2, <2>3, <2>4, <2>5
<1>5. ASSUME NEW a \in Actors, Acts(a) PROVE AtHand(a)'
  BY <1>5, StepsSource
<1> QED
  BY <1>2, <1>3, <1>4, <1>5, StoreSteps

\* Nobody new may log the end of a closed row, and who commits such an event is through.
LEMMA MayCloseShrinks ==
    ASSUME Traced, NEW a \in Actors, Acts(a), Apart(a), NEW e \in Exports, Stays(e),
           rows[e].status \in Closed
    PROVE  /\ (Logs(a, e)' => a \in MayClose(e)) => MayClose(e)' \subseteq MayClose(e)
           /\ Close(a) => MayClose(e)' \subseteq MayClose(e) \ {a}
<1> USE DEF Traced, Steady, Exact, IInv
<1>1. ASSUME NEW b \in MayClose(e)', b # a PROVE b \in MayClose(e)
  <2>1. b \in Actors /\ UNCHANGED <<batch[b], cur[b], drafts[b]>>
    BY <1>1 DEF MayClose, Apart, OthersStay, Actors
  <2> QED
    BY <1>1, <2>1 DEF MayClose, Logs, Mine
<1>2. ASSUME a \in MayClose(e)', ~ Logs(a, e)' PROVE a \in MayClose(e)
  <2>1. PICK r \in batch'[a] \cup {cur'[a]} : r.id = e /\ r.status = "ready"
    BY <1>2 DEF MayClose
  <2>2. r \in batch[a] \cup {cur[a]}
    BY <2>1, ReadySeen, StepsSource
  <2> QED
    BY <1>2, <2>1, <2>2 DEF MayClose
<1>3. ASSUME Close(a) PROVE a \notin MayClose(e)'
  <2>1. batch'[a] = {} /\ cur'[a] = NoRow
    BY <1>3 DEF Close, Typed, TypeOK
  <2>2. ~ Logs(a, e)'
    BY <1>3, AtClose DEF Logs, EventType
  <2> QED
    BY <2>1, <2>2 DEF MayClose, NoRow, AbsentRow
<1> QED
  BY <1>1, <1>2, <1>3

\* How many may still close a row, in numbers.
LEMMA FewMayClose ==
    ASSUME NEW M \in SUBSET (Webs \cup Pollers), NEW L \in SUBSET (Webs \cup Pollers)
    PROVE  /\ Cardinality(M) \in Nat /\ Cardinality(L) \in Nat
           /\ Cardinality(Webs \cup Pollers) \in Nat
           /\ L \subseteq M => Cardinality(L) <= Cardinality(M)
           /\ \A a \in M : L \subseteq M \ {a} => Cardinality(L) + 1 <= Cardinality(M)
<1>1. IsFiniteSet(Webs \cup Pollers)
  BY FiniteAssumption, FS_Union
<1>2. /\ IsFiniteSet(M) /\ IsFiniteSet(L)
      /\ Cardinality(M) \in Nat /\ Cardinality(L) \in Nat /\ Cardinality(Webs \cup Pollers) \in Nat
  BY <1>1, FS_Subset, FS_CardinalityType
<1>3. L \subseteq M => Cardinality(L) <= Cardinality(M)
  BY <1>2, FS_Subset
<1>4. ASSUME NEW a \in M, L \subseteq M \ {a} PROVE Cardinality(L) + 1 <= Cardinality(M)
  <2>1. IsFiniteSet(M \ {a}) /\ Cardinality(M \ {a}) = Cardinality(M) - 1
    BY <1>2, FS_RemoveElement
  <2>2. Cardinality(L) <= Cardinality(M \ {a})
    BY <1>4, <2>1, FS_Subset
  <2> QED
    BY <1>2, <2>1, <2>2
<1> QED
  BY <1>2, <1>3, <1>4

\* A step that commits nothing keeps the account of a row.
LEMMA AccountKept ==
    ASSUME Traced, NEW a \in Actors, Acts(a), Apart(a), UNCHANGED <<rows, events>>,
           NEW e \in Exports, Stays(e),
           Logs(a, e)' /\ rows[e].status \in Closed => a \in MayClose(e),
           work'[e].status \in Closed /\ rows[e].status \notin Closed => \E b \in Actors : Logs(b, e)'
    PROVE  Logged(e)'
<1> USE DEF Traced, Steady, Exact, IInv
<1>1. Logged(e) /\ Closings(e)' = Closings(e)
  BY DEF Closings
<1>2. CASE rows[e].status \notin Closed
  BY <1>1, <1>2 DEF Logged
<1>3. CASE rows[e].status \in Closed
  <2>1. MayClose(e)' \subseteq MayClose(e)
    BY <1>3, MayCloseShrinks
  <2>2. MayClose(e) \subseteq Webs \cup Pollers
    BY DEF MayClose
  <2>3. PICK m, k : m = Cardinality(MayClose(e)) /\ k = Cardinality(MayClose(e)')
                    /\ m \in Nat /\ k \in Nat /\ k <= m /\ Cardinality(Webs \cup Pollers) \in Nat
    BY <2>1, <2>2, FewMayClose
  <2>4. Closings(e) \in Nat
    BY DEF Closings, Typed, TypeOK, EventType
  <2> QED
    BY <1>1, <1>3, <2>3, <2>4 DEF Logged
<1> QED
  BY <1>2, <1>3

\* A commit adds the closing event that its task has logged.
LEMMA AccountSettled ==
    ASSUME Traced, NEW a \in Actors, Acts(a), Apart(a), Commit(a), NEW e \in Exports, Stays(e)
    PROVE  Logged(e)'
<1> USE DEF Traced, Steady, Exact, IInv
<1>1. /\ Close(a) /\ work' = work
      /\ rows'[e] = IF lock[e] = a THEN work[e] ELSE rows[e]
  BY DEF Commit, CommitTx, Visible
<1>2. \A t \in EventType : events'[e][t] = IF Mine(a, e, t) THEN events[e][t] + 1 ELSE events[e][t]
  BY DEF Commit, CommitTx, Mine
<1>3. Logged(e) /\ Closings(e) \in Nat
  BY DEF Closings, Typed, TypeOK, EventType
<1>4. Closings(e)' = IF Logs(a, e) THEN Closings(e) + 1 ELSE Closings(e)
  <2>1. events[e]["failed"] \in Nat /\ events[e]["expired"] \in Nat
    BY DEF Typed, TypeOK, EventType
  <2>2. ~ (Mine(a, e, "failed") /\ Mine(a, e, "expired"))
    BY DEF Spent, Logs
  <2> QED
    BY <1>2, <2>1, <2>2 DEF Closings, Logs, EventType
<1>5. Logs(a, e) => lock[e] = a /\ work[e].status \in Closed /\ a \in Webs \cup Pollers
  BY DEF Spent, Actors
<1>6. MayClose(e) \subseteq Webs \cup Pollers
  BY DEF MayClose
<1>7. MayClose(e)' \subseteq (Webs \cup Pollers) \ {a}
  <2>1. ~ Logs(a, e)'
    BY <1>1, AtClose DEF Logs, EventType
  <2>2. batch'[a] = {} /\ cur'[a] = NoRow
    BY <1>1 DEF Close, Typed, TypeOK
  <2> QED
    BY <2>1, <2>2 DEF MayClose, NoRow, AbsentRow
<1>8. PICK m, k, n : /\ m = Cardinality(MayClose(e)) /\ k = Cardinality(MayClose(e)')
                     /\ n = Cardinality(Webs \cup Pollers)
                     /\ m \in Nat /\ k \in Nat /\ n \in Nat
                     /\ MayClose(e)' \subseteq MayClose(e) => k <= m
                     /\ \A b \in MayClose(e) : MayClose(e)' \subseteq MayClose(e) \ {b} => k + 1 <= m
                     /\ \A b \in Webs \cup Pollers :
                           MayClose(e)' \subseteq (Webs \cup Pollers) \ {b} => k + 1 <= n
  <2>1. MayClose(e)' \subseteq Webs \cup Pollers
    BY <1>7
  <2>2. Webs \cup Pollers \subseteq Webs \cup Pollers
    OBVIOUS
  <2> QED
    BY <1>6, <2>1, <2>2, FewMayClose
<1>9. CASE rows[e].status \in Closed
  <2>1. rows'[e].status \in Closed
    <3>1. work[e].status \in Closed
      BY <1>9 DEF Moving, Lifecycle!Moves, Lifecycle!Closed, Closed
    <3> QED
      BY <1>1, <1>9, <3>1
  <2>2. MayClose(e)' \subseteq MayClose(e) \ {a}
    BY <1>1, <1>9, MayCloseShrinks
  <2>3. Logs(a, e) => a \in MayClose(e)
    BY <1>5 DEF MayClose
  <2>4. Closings(e) >= 1 /\ Closings(e) + m <= n
    BY <1>3, <1>8, <1>9 DEF Logged
  <2>5. k <= m /\ (Logs(a, e) => k + 1 <= m)
    BY <1>8, <2>2, <2>3
  <2>6. Closings(e)' >= 1 /\ Closings(e)' + k <= n
    BY <1>3, <1>4, <1>8, <2>4, <2>5
  <2> QED
    BY <1>8, <2>1, <2>6 DEF Logged
<1>10. CASE rows[e].status \notin Closed
  <2>1. Closings(e) = 0 /\ (work[e].status \in Closed => \E b \in Actors : Logs(b, e))
    BY <1>3, <1>10 DEF Logged
  <2>2. \A b \in Actors : Logs(b, e) => lock[e] = b
    BY DEF Spent
  <2>3. CASE Logs(a, e)
    <3>1. rows'[e].status \in Closed /\ Closings(e)' = 1
      BY <1>1, <1>4, <1>5, <2>1, <2>3
    <3>2. k + 1 <= n
      BY <1>5, <1>7, <1>8, <2>3
    <3>3. Closings(e)' >= 1 /\ Closings(e)' + k <= n
      BY <1>8, <3>1, <3>2
    <3> QED
      BY <1>8, <3>1, <3>3 DEF Logged
  <2>4. CASE ~ Logs(a, e)
    <3>1. Closings(e)' = 0
      BY <1>4, <2>1, <2>4
    <3>2. rows'[e].status \notin Closed
      BY <1>1, <1>10, <2>1, <2>2, <2>4
    <3>3. ASSUME NEW b \in Actors, Logs(b, e) PROVE Logs(b, e)'
      <4>1. drafts'[b] = drafts[b]
        BY <2>4, <3>3 DEF Apart
      <4> QED
        BY <3>3, <4>1 DEF Logs, Mine
    <3> QED
      BY <1>1, <2>1, <3>1, <3>2, <3>3 DEF Logged
  <2> QED
    BY <2>3, <2>4
<1> QED
  BY <1>9, <1>10

\* Every step keeps the account of closed rows.
LEMMA LoggedNext ==
    ASSUME Traced, Next, NEW e \in Exports, Stays(e)'
    PROVE  Logged(e)'
<1> USE DEF Traced, Steady, Exact, IInv
<1>1. Stays(e) /\ Logged(e)
  BY SubjectsStay
<1>2. \A b \in Actors : Logs(b, e) => lock[e] = b
  BY <1>1 DEF Spent
<1>3. CASE Tick
  <2>1. UNCHANGED <<store, batch, cur>>
    BY <1>3 DEF Tick, local
  <2> QED
    BY <1>1, <2>1 DEF store, Logged, Closings, MayClose, Logs, Mine
<1>4. ASSUME NEW a \in Actors, Acts(a), Apart(a), UNCHANGED <<rows, events>>,
             work'[e] = work[e], \A b \in Actors : Logs(b, e)' <=> Logs(b, e)
      PROVE  Logged(e)'
  <2>1. Logs(a, e)' => a \in MayClose(e)
    BY <1>1, <1>4 DEF MayClose, Spent, Actors
  <2>2. work'[e].status \in Closed /\ rows[e].status \notin Closed => \E b \in Actors : Logs(b, e)'
    BY <1>1, <1>4 DEF Logged
  <2> QED
    BY <1>1, <1>4, <2>1, <2>2, AccountKept
<1>5. ASSUME NEW a \in Actors, Acts(a), Apart(a), UNCHANGED store PROVE Logged(e)'
  BY <1>4, <1>5 DEF store, Logs, Mine
<1>6. ASSUME NEW a \in Actors, Acts(a), Apart(a), NEW u \in Users, CreateDataExport(a, u)
      PROVE  Logged(e)'
  <2>1. PICK r, ts : Write(a, r, ts) /\ r.status \notin Closed /\ ts \subseteq {"created", "started"}
    <3>1. PICK p : /\ p.status = "pending"
                   /\ p = [id |-> minted + 1, subject |-> u, status |-> "pending",
                           key |-> None, exp |-> None]
      OBVIOUS
    <3>2. [p EXCEPT !.status = "processing"].status = "processing"
      BY <3>1
    <3>3. /\ {"created"} \subseteq {"created", "started"}
          /\ {"created", "started"} \subseteq {"created", "started"}
      OBVIOUS
    <3> QED
      BY <1>6, <3>1, <3>2, <3>3 DEF CreateDataExport, Closed
  <2>2. /\ UNCHANGED <<rows, events>>
        /\ work'[e] = work[e] \/ work'[e] = r
        /\ \A b \in Actors : Logs(b, e)' <=> Logs(b, e)
    BY <2>1 DEF Write, Logs, Mine, Typed, TypeOK
  <2>3. Logs(a, e)' => a \in MayClose(e)
    BY <1>1, <2>2 DEF MayClose, Spent, Actors
  <2>4. work'[e].status \in Closed /\ rows[e].status \notin Closed => \E b \in Actors : Logs(b, e)'
    BY <1>1, <2>1, <2>2 DEF Logged
  <2> QED
    <3>1. UNCHANGED <<rows, events>>
      BY <2>2
    <3> QED
      BY <1>1, <1>6, <2>3, <2>4, <3>1, AccountKept
<1>7. ASSUME NEW a \in Actors, Acts(a), Apart(a), SaveFlush(a) PROVE Logged(e)'
  <2>1. UNCHANGED <<rows, events>>
    BY <1>7 DEF SaveFlush, Write
  <2>2. CASE e = cur[a].id
    <3>1. /\ Logs(a, e)' /\ rows[e].status \in Closed => a \in MayClose(e)
          /\ work'[e].status \in Closed /\ rows[e].status \notin Closed => Logs(a, e)'
      BY <1>1, <1>7, <2>2, FlushLogs
    <3> QED
      BY <1>1, <1>7, <2>1, <3>1, AccountKept
  <2>3. CASE e # cur[a].id
    <3>1. PICK r \in Row, ts \in SUBSET EventType : Write(a, r, ts) /\ r.id # e
      BY <1>7, <2>3, Flushed
    <3>2. work'[e] = work[e] /\ \A b \in Actors : Logs(b, e)' <=> Logs(b, e)
      BY <3>1 DEF Write, Logs, Mine, Typed, TypeOK
    <3> QED
      BY <1>4, <1>7, <2>1, <3>2
  <2> QED
    BY <2>2, <2>3
<1>8. ASSUME NEW a \in Actors, Acts(a), Apart(a), RollbackTx(a) PROVE Logged(e)'
  <2>1. /\ UNCHANGED <<rows, events>> /\ Close(a)
        /\ work'[e] = IF lock[e] = a THEN rows[e] ELSE work[e]
    BY <1>8 DEF RollbackTx
  <2>2. \A b \in Actors : Logs(b, e)' <=> b # a /\ Logs(b, e)
    BY <2>1, AtClose DEF Logs, EventType
  <2>3. work'[e].status \in Closed /\ rows[e].status \notin Closed => \E b \in Actors : Logs(b, e)'
    BY <1>1, <1>2, <2>1, <2>2 DEF Logged
  <2> QED
    BY <1>1, <1>8, <2>1, <2>2, <2>3, AccountKept
<1> QED
  BY <1>1, <1>3, <1>5, <1>6, <1>7, <1>8, AccountSettled, StoreSteps

\* With no rows and no events this holds.
LEMMA TracedInit == Init /\ OnePoll => Traced
<1> SUFFICES ASSUME Init, OnePoll PROVE Traced
  OBVIOUS
<1>1. \A e \in Exports : rows[e].status \notin Closed /\ work[e].status \notin Closed
  BY DEF Init, AbsentRow, Closed
<1>2. \A e \in Exports : Closings(e) = 0
  BY DEF Init, Closings, EventType
<1>3. \A a \in Actors : pc[a] = "idle" /\ batch[a] = {} /\ cur[a] = NoRow /\ drafts[a] = {}
  BY DEF Init
<1> QED
  BY <1>1, <1>2, <1>3, SteadyInit DEF Traced, Logged, AtHand, Spent, Logs, Mine

\* Every step keeps it.
LEMMA TracedNext == Traced /\ [Next]_vars => Traced'
<1> SUFFICES ASSUME Traced, [Next]_vars PROVE Traced'
  OBVIOUS
<1>1. Steady'
  BY SteadyNext DEF Traced
<1>2. CASE Next
  BY <1>1, <1>2, SpentNext, LoggedNext DEF Traced
<1>3. CASE UNCHANGED vars
  <2>1. \A a \in Actors : AtHand(a)' /\ Spent(a)'
    BY <1>3 DEF vars, Traced, AtHand, Spent, Logs, Mine, Stays
  <2>2. \A e \in Exports : Stays(e)' => Logged(e)'
    BY <1>3 DEF vars, Traced, Logged, Closings, MayClose, Logs, Mine, Stays
  <2> QED
    BY <1>1, <2>1, <2>2 DEF Traced
<1> QED
  BY <1>2, <1>3

\* With one poll at a time, the timeline of an export whose subject stays has a
\* closing event if and only if the export is closed, and never more of them than there
\* are tasks that may have decided to close it at the same time.
THEOREM ClosingsLogged == Spec => [](OnePoll => ClosingIsLogged)
<1>1. Init => (OnePoll => Traced)
  BY TracedInit
<1>2. (OnePoll => Traced) /\ [Next]_vars => (OnePoll => Traced)'
  BY TracedNext DEF OnePoll
<1>3. (OnePoll => Traced) => (OnePoll => ClosingIsLogged)
  <2> SUFFICES ASSUME Traced PROVE ClosingIsLogged
    OBVIOUS
  <2> USE DEF Traced, Steady, Exact, IInv
  <2>1. ASSUME NEW e \in Exports, Stays(e), rows[e].status \in Closed
        PROVE  Closings(e) \in 1 .. Cardinality(Webs \cup Pollers)
    <3>1. /\ Closings(e) >= 1
          /\ Closings(e) + Cardinality(MayClose(e)) <= Cardinality(Webs \cup Pollers)
      BY <2>1 DEF Logged
    <3>2. MayClose(e) \subseteq Webs \cup Pollers
      BY DEF MayClose
    <3>3. Cardinality(MayClose(e)) \in Nat /\ Cardinality(Webs \cup Pollers) \in Nat
      BY <3>2, FewMayClose
    <3>4. Closings(e) \in Nat
      BY DEF Closings, Typed, TypeOK, EventType
    <3> QED
      BY <3>1, <3>3, <3>4
  <2>2. \A e \in Exports : Stays(e) /\ rows[e].status \notin Closed => Closings(e) = 0
    BY DEF Logged
  <2> QED
    BY <2>1, <2>2 DEF ClosingIsLogged, Closings
<1> QED
  BY <1>1, <1>2, <1>3, PTL DEF Spec
=============================================================================
