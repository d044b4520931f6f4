---------------------------- MODULE PrivacyExport ----------------------------
(***************************************************************************)
(* Data-export requests of apps/privacy: the request rows and lifecycle    *)
(* events in the database, the artifact files on disk, and the three kinds *)
(* of process that work on them at the same time:                          *)
(*   - a web handler answers one HTTP request (create, status, download);  *)
(*   - a poller runs run_privacy_pending_export_poll;                      *)
(*   - an eraser runs the privacy eraser inside an erasure poll.           *)
(* Each of them holds one database session and commits once, at its end    *)
(* (READ COMMITTED, row locks).  Files are not part of the transaction.    *)
(***************************************************************************)
EXTENDS Naturals, FiniteSets

CONSTANTS
    Users,        \* subjects of exports
    Leavers,      \* bound: the subjects whose erasure may fall due
    Webs,         \* concurrent HTTP requests
    Pollers,      \* export polls: one per worker process (max_instances=1)
    Erasers,      \* erasure polls: one per worker process
    MaxExports,   \* bound: exports ever requested
    BatchLimit,   \* limit of list_ready and list_pending
    ExpiryHours,  \* retention of a ready artifact
    MaxNow,       \* bound: how far the clock runs
    MaxAborts,    \* bound: crashes, cancellations and database errors
    Routes,       \* bound: which GET routes web requests ask for
    DiskFaults,   \* whether write, unlink or stat of a file may raise OSError
    None          \* Python's None

Actors  == Webs \cup Pollers \cup Erasers
Exports == 1 .. MaxExports

ASSUME BoundsAssumption ==
    /\ MaxExports \in Nat /\ MaxNow \in Nat /\ MaxAborts \in Nat
    /\ BatchLimit \in Nat \ {0} /\ ExpiryHours \in Nat \ {0}
    /\ DiskFaults \in BOOLEAN /\ Routes \subseteq {"status", "download"}
ASSUME LeaversAssumption == Leavers \subseteq Users
ASSUME FiniteAssumption == IsFiniteSet(Webs) /\ IsFiniteSet(Pollers)
ASSUME NoneAssumption == None \notin Nat \cup Users \cup Actors
ASSUME ActorsAssumption ==
    /\ Webs \cap Pollers = {} /\ Webs \cap Erasers = {}
    /\ Pollers \cap Erasers = {}

\* PrivacyExportStatus; "absent" is the row that does not exist.
Status == {"absent", "pending", "processing", "ready", "failed", "expired"}

\* PrivacyExportLifecycleEventType, without the export_ prefix.
EventType == {"created", "started", "ready", "failed", "expired"}

\* PrivacyExportRequest.  An id is drawn when its request starts, so the order
\* of ids is the order of created_at.
Row == [id : Exports, subject : Users \cup {None}, status : Status,
        key : Exports \cup {None}, exp : Nat \cup {None}]

AbsentRow(e) ==
    [id |-> e, subject |-> None, status |-> "absent", key |-> None, exp |-> None]

NoRow == AbsentRow(0)

VARIABLES
    rows,    \* rows[e]: the last committed version of the row of export e
    events,  \* events[e][t]: committed lifecycle events of type t
    disk,    \* disk[e]: the file <artifact dir>/<e>.json
    now,     \* datetime.now(UTC)
    minted,  \* how many ids uuid4 has drawn
    aborts,  \* how many transactions were rolled back by a fault
    lock,    \* lock[e]: the transaction that has written row e and not ended
    work,    \* work[e]: the row as that transaction sees it
    drafts,  \* drafts[a]: lifecycle events a has inserted and not committed
    pc,      \* pc[a]: what a does next
    job,     \* job[a]: the route a web handler serves
    batch,   \* batch[a]: request snapshots still to be handled
    cur,     \* cur[a]: the snapshot in hand
    want,    \* want[a]: the request handed to save()
    seen     \* seen[a]: the row save() read before it assigned attributes

store == <<rows, events, lock, work, drafts>>
local == <<job, batch, cur, want, seen>>
vars  == <<rows, events, disk, now, minted, aborts, lock, work, drafts,
           pc, job, batch, cur, want, seen>>

Phase == {"idle", "reconcile", "process", "erase", "drop", "get", "flush",
          "open", "write", "probe", "authorise", "stream", "commit", "rollback"}
Job   == {"none", "create", "status", "download"}
File  == {"none", "partial", "whole"}

TypeOK ==
    /\ rows \in [Exports -> Row] /\ work \in [Exports -> Row]
    /\ events \in [Exports -> [EventType -> Nat]]
    /\ disk \in [Exports -> File]
    /\ now \in Nat /\ minted \in 0 .. MaxExports /\ aborts \in Nat
    /\ lock \in [Exports -> Actors \cup {None}]
    /\ drafts \in [Actors -> SUBSET (Exports \X EventType)]
    /\ pc \in [Actors -> Phase] /\ job \in [Actors -> Job]
    /\ batch \in [Actors -> SUBSET Row]
    /\ cur \in [Actors -> Row \cup {NoRow}]
    /\ want \in [Actors -> Row \cup {NoRow}]
    /\ seen \in [Actors -> Row \cup {NoRow}]

Init ==
    /\ rows = [e \in Exports |-> AbsentRow(e)] /\ work = rows
    /\ events = [e \in Exports |-> [t \in EventType |-> 0]]
    /\ disk = [e \in Exports |-> "none"]
    /\ now = 0 /\ minted = 0 /\ aborts = 0
    /\ lock = [e \in Exports |-> None]
    /\ drafts = [a \in Actors |-> {}]
    /\ pc = [a \in Actors |-> "idle"] /\ job = [a \in Actors |-> "none"]
    /\ batch = [a \in Actors |-> {}]
    /\ cur = [a \in Actors |-> NoRow] /\ want = [a \in Actors |-> NoRow]
    /\ seen = [a \in Actors |-> NoRow]

-----------------------------------------------------------------------------
(* The database session.                                                   *)

\* What a SELECT of transaction a returns: its own writes over the committed rows.
Visible(a, e) == IF lock[e] = a THEN work[e] ELSE rows[e]

\* Mutants: the status serves as event type; only the poll's own saves are logged
\* when they start from pending.
EventsByStatus(old, new) == {new}
EventsFromPending(old, new) ==
    IF old = "pending" THEN {"started", new} \cap EventType ELSE {}

\* _lifecycle_event_types_to_persist, for a row that exists.
LifecycleEvents(old, new) ==
    CASE old = "pending"    /\ new = "processing" -> {"started"}
      [] old = "processing" /\ new = "ready"      -> {"ready"}
      [] old = "processing" /\ new = "failed"     -> {"failed"}
      [] old = "ready"      /\ new = "expired"    -> {"expired"}
      [] old = "ready"      /\ new = "failed"     -> {"failed"}
      [] OTHER                                    -> {}

\* The flush UPDATEs only the columns whose value changed since the SELECT of
\* the same save(); the other columns keep what the row holds by then.
Merge(base, old, new) ==
    [base EXCEPT
        !.status = IF new.status # old.status THEN new.status ELSE @,
        !.key    = IF new.key # old.key THEN new.key ELSE @,
        !.exp    = IF new.exp # old.exp THEN new.exp ELSE @]

\* Transaction a writes row r and inserts events of types ts.
Write(a, r, ts) ==
    /\ work' = [work EXCEPT ![r.id] = r]
    /\ lock' = [lock EXCEPT ![r.id] = a]
    /\ drafts' = [drafts EXCEPT ![a] = @ \cup ({r.id} \X ts)]
    /\ UNCHANGED <<rows, events>>

Goto(a, phase) == pc' = [pc EXCEPT ![a] = phase]

\* Who is waiting for the row lock of e.
Waiters(e) == {b \in Actors : pc[b] = "flush" /\ cur[b].id = e /\ lock[e] # b}

\* The end of a transaction passes each of its row locks to a waiter.
ReleaseLocks(a) ==
    \E heir \in [Exports -> Actors \cup {None}] :
        /\ lock' = heir
        /\ \A e \in Exports :
              IF lock[e] # a THEN heir[e] = lock[e]
              ELSE IF Waiters(e) = {} THEN heir[e] = None
              ELSE heir[e] \in Waiters(e)

\* session.close(): the task ends and its locals are gone.
Close(a) ==
    /\ Goto(a, "idle")
    /\ job' = [job EXCEPT ![a] = "none"]
    /\ batch' = [batch EXCEPT ![a] = {}]
    /\ cur' = [cur EXCEPT ![a] = NoRow]
    /\ want' = [want EXCEPT ![a] = NoRow]
    /\ seen' = [seen EXCEPT ![a] = NoRow]
    /\ drafts' = [drafts EXCEPT ![a] = {}]
    /\ ReleaseLocks(a)

\* session.commit()
CommitTx(a) ==
    /\ rows' = [e \in Exports |-> Visible(a, e)]
    /\ events' = [e \in Exports |-> [t \in EventType |->
                    IF <<e, t>> \in drafts[a] THEN events[e][t] + 1
                                              ELSE events[e][t]]]
    /\ UNCHANGED work
    /\ Close(a)

\* Mutants: commit in a finally clause; the error leaves the session open.
CommitOnError(a) == CommitTx(a)
SessionStaysOpen(a) ==
    /\ Goto(a, "idle")
    /\ UNCHANGED <<rows, work, lock, events, drafts, job, batch, cur, want, seen>>

\* session.rollback()
RollbackTx(a) ==
    /\ work' = [e \in Exports |-> IF lock[e] = a THEN rows[e] ELSE work[e]]
    /\ UNCHANGED <<rows, events>>
    /\ Close(a)

-----------------------------------------------------------------------------
(* reconcile_ready_request, expire_request, fail_request.                  *)

\* Mutant: the expiry time is ignored.
EveryReadyExpires(r) == r.status = "ready"

IsRequestExpired(r) == r.status = "ready" /\ r.exp # None /\ r.exp <= now

\* Mutant: the key of the deleted file stays in the row.
ExpiredKeepsKey(r) == [r EXCEPT !.status = "expired"]

Expired(r) == [r EXCEPT !.status = "expired", !.key = None]
Failed(r)  == [r EXCEPT !.status = "failed", !.key = None, !.exp = None]

\* open_for_download on a half-written file depends on whether it is empty yet; an
\* OSError of stat is taken for a file that is missing.
MayOpen(r) == r.key # None /\ disk[r.key] # "none"
MayMiss(r) == r.key = None \/ disk[r.key] # "whole" \/ DiskFaults

\* Mutant: list_ready returns the latest expiry first.
ByLatestExpiry(S) ==
    {p \in S \X S : p[2].exp # None /\ (p[1].exp # None => p[2].exp < p[1].exp)}

\* list_ready orders by expires_at (NULLS LAST); list_pending and
\* list_all_for_subject_user order by created_at.
ByExpiry(S) ==
    {p \in S \X S : p[1].exp # None /\ (p[2].exp # None => p[1].exp < p[2].exp)}
ByCreation(S) == {p \in S \X S : p[1].id < p[2].id}

\* page is a possible result of selecting from S in the given order, with LIMIT.
IsPage(page, S, before) ==
    /\ page \subseteq S
    /\ Cardinality(page) = BatchLimit \/ page = S
    /\ Cardinality(page) <= BatchLimit
    /\ \A r \in page, s \in S \ page : <<s, r>> \notin before

\* r is a next element of a list fetched in the given order.
IsHead(r, S, before) == r \in S /\ \A s \in S : <<s, r>> \notin before
-----------------------------------------------------------------------------
(* Starting: a web request arrives, an interval job fires.                 *)

\* POST /privacy/exports.  The size of the subject's data decides between an
\* async request and a direct export; nobody else sees the direct export's
\* pending and processing versions.
CreateDataExport(a, u) ==
    LET e == minted + 1
        p == [id |-> e, subject |-> u, status |-> "pending",
              key |-> None, exp |-> None]
    IN  /\ a \in Webs /\ pc[a] = "idle" /\ minted < MaxExports
        /\ minted' = e
        /\ job' = [job EXCEPT ![a] = "create"]
        /\ \/ /\ Write(a, p, {"created"})
              /\ Goto(a, "commit")
              /\ UNCHANGED cur
           \/ /\ Write(a, [p EXCEPT !.status = "processing"], {"created", "started"})
              /\ cur' = [cur EXCEPT ![a] = p]
              /\ Goto(a, "open")
        /\ UNCHANGED <<disk, now, aborts, batch, want, seen>>

\* GET /privacy/exports/{id}, .../events and .../download: the row is
\* fetched; a missing row or another subject's row ends the request unchanged.
LookUp(a, u, e, route) ==
    /\ a \in Webs /\ pc[a] = "idle"
    /\ rows[e].status # "absent" /\ rows[e].subject = u
    /\ job' = [job EXCEPT ![a] = route]
    /\ batch' = [batch EXCEPT ![a] = {rows[e]}]
    /\ Goto(a, "reconcile")
    /\ UNCHANGED <<disk, now, minted, aborts, cur, want, seen, store>>

\* run_privacy_pending_export_poll opens a session and lists ready requests.
StartPoll(a) ==
    /\ a \in Pollers /\ pc[a] = "idle"
    /\ LET ready == {r \in {rows[e] : e \in Exports} : r.status = "ready"}
       IN  \E page \in SUBSET ready :
             /\ IsPage(page, ready, ByExpiry(ready))
             /\ batch' = [batch EXCEPT ![a] = page]
    /\ Goto(a, "reconcile")
    /\ UNCHANGED <<disk, now, minted, aborts, job, cur, want, seen, store>>

\* Mutant: list_all_for_subject_user forgets the subject.
EraseEverybody(a, u) ==
    /\ a \in Erasers /\ u \in Leavers /\ pc[a] = "idle"
    /\ batch' = [batch EXCEPT ![a] =
                   {r \in {rows[e] : e \in Exports} : r.status # "absent"}]
    /\ Goto(a, "erase")
    /\ UNCHANGED <<disk, now, minted, aborts, job, cur, want, seen, store>>

\* An erasure poll reaches the privacy eraser for subject u, whose erasure is due.
StartErase(a, u) ==
    /\ a \in Erasers /\ u \in Leavers /\ pc[a] = "idle"
    /\ batch' = [batch EXCEPT ![a] =
                   {r \in {rows[e] : e \in Exports} : r.subject = u}]
    /\ Goto(a, "erase")
    /\ UNCHANGED <<disk, now, minted, aborts, job, cur, want, seen, store>>
-----------------------------------------------------------------------------
(* Steps inside a transaction.                                             *)

\* Take r from the batch and go on with it; w is what save() will be asked to write.
Take(a, r, w, phase) ==
    /\ cur' = [cur EXCEPT ![a] = r]
    /\ want' = [want EXCEPT ![a] = w]
    /\ batch' = [batch EXCEPT ![a] = @ \ {r}]
    /\ Goto(a, phase)

\* Mutant: the poll returns after the first ready request it need not touch.
PollReturns(a, status) ==
    IF a \in Pollers \/ job[a] = "status" THEN "commit"
    ELSE IF status = "ready" THEN "authorise" ELSE "rollback"

\* The poll goes on with its list; a handler answers.  get_data_export_status
\* commits whatever it found, a download that is not ready ends in an
\* HTTPException.
AfterReconcile(a, status) ==
    IF a \in Pollers THEN "reconcile"
    ELSE CASE job[a] = "status"                       -> "commit"
           [] job[a] = "download" /\ status = "ready" -> "authorise"
           [] OTHER                                   -> "rollback"

\* reconcile_ready_request, for the next listed row of a poll or the row that
\* a web request fetched: its status and expiry ...
ReconcileReadyRequest(a) ==
    /\ pc[a] = "reconcile"
    /\ \E r \in batch[a] :
        /\ IsHead(r, batch[a], ByExpiry(batch[a]))
        /\ CASE r.status # "ready"    -> Take(a, r, NoRow, AfterReconcile(a, r.status))
             [] IsRequestExpired(r)   -> Take(a, r, Expired(r), "drop")
             [] OTHER                 -> Take(a, r, NoRow, "probe")
    /\ UNCHANGED <<disk, now, minted, aborts, job, seen, store>>

\* ... then its artifact.
ProbeArtifact(a) ==
    /\ pc[a] = "probe"
    /\ \/ /\ MayOpen(cur[a]) /\ Goto(a, AfterReconcile(a, "ready"))
          /\ UNCHANGED want
       \/ /\ MayMiss(cur[a])
          /\ want' = [want EXCEPT ![a] = Failed(cur[a])]
          /\ Goto(a, "drop")
    /\ UNCHANGED <<disk, now, minted, aborts, job, batch, cur, seen, store>>

\* list_pending, after the ready requests.
ListPending(a) ==
    /\ a \in Pollers /\ pc[a] = "reconcile" /\ batch[a] = {}
    /\ LET pending == {r \in {Visible(a, e) : e \in Exports} :
                          r.status = "pending"}
       IN  \E page \in SUBSET pending :
             /\ IsPage(page, pending, ByCreation(pending))
             /\ batch' = [batch EXCEPT ![a] = page]
    /\ Goto(a, "process")
    /\ UNCHANGED <<disk, now, minted, aborts, job, cur, want, seen, store>>

\* _process_one starts with save(PROCESSING); an empty list ends the poll.
ProcessOne(a) ==
    /\ pc[a] = "process"
    /\ \/ /\ batch[a] = {} /\ Goto(a, "commit")
          /\ UNCHANGED <<cur, want, batch>>
       \/ \E r \in batch[a] :
            /\ IsHead(r, batch[a], ByCreation(batch[a]))
            /\ Take(a, r, [r EXCEPT !.status = "processing", !.key = None,
                                    !.exp = None], "get")
    /\ UNCHANGED <<disk, now, minted, aborts, job, seen, store>>

\* PrivacyExportsSubjectDataEraser.erase_for_user
EraseForUser(a) ==
    /\ pc[a] = "erase"
    /\ \/ /\ batch[a] = {} /\ Goto(a, "commit")
          /\ UNCHANGED <<cur, want, batch>>
       \/ \E r \in batch[a] :
            /\ IsHead(r, batch[a], ByCreation(batch[a]))
            /\ Take(a, r, [r EXCEPT !.status = "expired", !.key = None,
                                    !.exp = None], "drop")
    /\ UNCHANGED <<disk, now, minted, aborts, job, seen, store>>

\* storage.delete(artifact_key): an absent file is no error, and the eraser
\* goes on after an OSError.
DropArtifact(a) ==
    /\ pc[a] = "drop"
    /\ \/ disk' = [e \in Exports |-> IF e = cur[a].key THEN "none" ELSE disk[e]]
       \/ DiskFaults /\ a \in Erasers /\ UNCHANGED disk
    /\ Goto(a, "get")
    /\ UNCHANGED <<now, minted, aborts, local, store>>

\* save(): session.get
SaveGet(a) ==
    /\ pc[a] = "get"
    /\ seen' = [seen EXCEPT ![a] = Visible(a, cur[a].id)]
    /\ Goto(a, "flush")
    /\ UNCHANGED <<disk, now, minted, aborts, job, batch, cur, want, store>>

AfterSave(a) ==
    IF want[a].status = "processing" THEN "open"
    ELSE CASE a \in Erasers                           -> "erase"
           [] a \in Pollers /\ cur[a].status = "ready" -> "reconcile"
           [] a \in Pollers /\ cur[a].status # "ready" -> "process"
           [] a \in Webs /\ job[a] = "download"        -> "rollback"
           [] OTHER                                   -> "commit"

\* save(): assignments and flush.  The UPDATE waits for the row lock.
SaveFlush(a) ==
    LET e == cur[a].id IN
    /\ pc[a] = "flush"
    /\ lock[e] \in {None, a}
    /\ Write(a, Merge(work[e], seen[a], want[a]),
             LifecycleEvents(seen[a].status, want[a].status))
    /\ Goto(a, AfterSave(a))
    /\ cur' = [cur EXCEPT ![a] = IF want[a].status = "processing" THEN @ ELSE NoRow]
    /\ want' = [want EXCEPT ![a] = NoRow]
    /\ seen' = [seen EXCEPT ![a] = NoRow]
    /\ UNCHANGED <<disk, now, minted, aborts, job, batch>>

\* Mutants: the poll logs the error and goes on with its list; the error of
\* write_bytes goes unnoticed.
ExportForgotten(a) == UNCHANGED want /\ Goto(a, "process")
ErrorUnnoticed(a) ==
    /\ want' = [want EXCEPT ![a] =
          [cur[a] EXCEPT !.status = "ready", !.key = cur[a].id, !.exp = now + 1]]
    /\ Goto(a, "get")

\* The export document could not be built or written.  The poll records that;
\* the direct export's request fails as a whole.
ExportFails(a) ==
    IF a \in Pollers
      THEN /\ want' = [want EXCEPT ![a] = Failed(cur[a])]
           /\ Goto(a, "get")
      ELSE UNCHANGED want /\ Goto(a, "rollback")

\* write_json_bytes truncates the file ...
OpenArtifact(a) ==
    /\ pc[a] = "open"
    /\ \/ /\ disk' = [disk EXCEPT ![cur[a].id] = "partial"]
          /\ Goto(a, "write")
          /\ UNCHANGED want
       \/ DiskFaults /\ ExportFails(a) /\ UNCHANGED disk
    /\ UNCHANGED <<now, minted, aborts, job, batch, cur, seen, store>>

\* ... and fills it; then the request is ready.
WriteArtifact(a) ==
    /\ pc[a] = "write"
    /\ \/ /\ disk' = [disk EXCEPT ![cur[a].id] = "whole"]
          /\ want' = [want EXCEPT ![a] =
                [cur[a] EXCEPT !.status = "ready", !.key = cur[a].id,
                               !.exp = now + ExpiryHours]]
          /\ Goto(a, "get")
       \/ DiskFaults /\ ExportFails(a) /\ UNCHANGED disk
    /\ UNCHANGED <<now, minted, aborts, job, batch, cur, seen, store>>

\* DownloadDataExport opens the artifact a second time before it authorises.
AuthoriseDownload(a) ==
    /\ pc[a] = "authorise"
    /\ \/ /\ MayOpen(cur[a]) /\ Goto(a, "stream")
          /\ UNCHANGED want
       \/ /\ MayMiss(cur[a])
          /\ want' = [want EXCEPT ![a] = Failed(cur[a])]
          /\ Goto(a, "drop")
    /\ UNCHANGED <<disk, now, minted, aborts, job, batch, cur, seen, store>>

\* FileResponse reads the file, or finds it gone and answers 500.
StreamArtifact(a) ==
    /\ pc[a] = "stream"
    /\ Goto(a, "commit")
    /\ UNCHANGED <<disk, now, minted, aborts, local, store>>

Commit(a) ==
    /\ pc[a] = "commit"
    /\ CommitTx(a)
    /\ UNCHANGED <<disk, now, minted, aborts>>

\* The router turned an error of the use case into an HTTPException, which
\* get_session sees.
Rollback(a) ==
    /\ pc[a] = "rollback"
    /\ RollbackTx(a)
    /\ UNCHANGED <<disk, now, minted, aborts>>
-----------------------------------------------------------------------------
(* Faults and time.                                                        *)

\* A crash, a cancellation at worker shutdown or a database error ends the
\* transaction; a write that a thread had begun may still complete.
Abort(a) ==
    /\ pc[a] # "idle" /\ aborts < MaxAborts
    /\ aborts' = aborts + 1
    /\ RollbackTx(a)
    /\ \/ UNCHANGED disk
       \/ pc[a] = "write" /\ disk' = [disk EXCEPT ![cur[a].id] = "whole"]
    /\ UNCHANGED <<now, minted>>

Blocked(a) == a \in Waiters(cur[a].id) /\ lock[cur[a].id] # None

\* PostgreSQL aborts one of the transactions that wait for each other.
DeadlockVictim(a) ==
    /\ \E S \in SUBSET Actors :
        /\ a \in S
        /\ \A b \in S : Blocked(b) /\ lock[cur[b].id] \in S
        /\ \A b \in S : \E c \in S : lock[cur[c].id] = b
    /\ RollbackTx(a)
    /\ UNCHANGED <<disk, now, minted, aborts>>

Tick ==
    /\ now < MaxNow
    /\ now' = now + 1
    /\ UNCHANGED <<disk, minted, aborts, pc, local, store>>

Step(a) ==
    \/ ReconcileReadyRequest(a) \/ ProbeArtifact(a) \/ ListPending(a) \/ ProcessOne(a)
    \/ EraseForUser(a) \/ DropArtifact(a) \/ SaveGet(a) \/ SaveFlush(a)
    \/ OpenArtifact(a) \/ WriteArtifact(a) \/ AuthoriseDownload(a)
    \/ StreamArtifact(a) \/ Commit(a) \/ Rollback(a) \/ DeadlockVictim(a)

Next ==
    \/ \E a \in Actors : Step(a) \/ StartPoll(a) \/ Abort(a)
    \/ \E a \in Actors, u \in Users : CreateDataExport(a, u) \/ StartErase(a, u)
    \/ \E a \in Actors, u \in Users, e \in Exports, route \in Routes :
          LookUp(a, u, e, route)
    \/ Tick

\* Running handlers and jobs go on, the scheduler fires the poll again and time
\* passes; nobody has to send a request.
Fairness ==
    /\ \A a \in Actors : WF_vars(Step(a))
    /\ \A a \in Pollers : WF_vars(StartPoll(a))
    /\ WF_vars(Tick)

Spec == Init /\ [][Next]_vars

FairSpec == Spec /\ Fairness
-----------------------------------------------------------------------------
(* Properties.                                                             *)

Closed == {"failed", "expired"}

\* The subject of e, if e exists, does not leave.
Stays(e) == rows[e].subject \notin Leavers

\* No committed row is in processing: a poll commits its whole batch at once,
\* so after a crash every unfinished request is pending again and list_pending,
\* which never looks at processing rows, finds it.
NoCommittedProcessing == \A e \in Exports : rows[e].status # "processing"

\* A committed ready row has everything a download and the expiry need: the
\* key of its own file, an expiry time, and an export_ready event.  It holds
\* although save() writes only changed columns over a row that another
\* transaction may have changed in between.
ReadyIsComplete ==
    \A e \in Exports : rows[e].status = "ready" =>
        /\ rows[e].key = e /\ rows[e].exp # None
        /\ events[e]["ready"] = 1 /\ events[e]["created"] = 1

\* Nobody can be sent half a document: the file of a ready export, or of a
\* download that has been authorised, is never one being written, although
\* write_bytes is not atomic and a rolled-back poll leaves its file behind.
NoTornArtifact ==
    /\ \A e \in Exports : rows[e].status = "ready" => disk[e] # "partial"
    /\ \A a \in Actors : pc[a] = "stream" => disk[cur[a].id] # "partial"

\* A failed or expired export names no file and has none on disk, unless its
\* subject's erasure was at work on it.
ClosedLeavesNothing ==
    \A e \in Exports : rows[e].status \in Closed /\ Stays(e) =>
        rows[e].key = None /\ disk[e] = "none"

\* The file of a ready export stays until its retention is over, as long as the disk
\* makes no errors (one of stat makes the next reader delete it): concurrent
\* reconciliations, and the erasure of another subject, never delete a file that
\* somebody may still download.
LiveArtifactIsKept ==
    [][\A e \in Exports :
          rows[e].status = "ready" /\ rows[e].exp > now /\ disk[e] = "whole" /\ Stays(e)
            => disk'[e] = "whole"]_vars

\* The committed statuses behave as the lifecycle promises, whatever polls and
\* web requests do to the same row at the same time, and erasures to other rows.
Lifecycle == INSTANCE ExportLifecycle
                 WITH status <- [e \in Exports |->
                                   IF Stays(e) THEN rows[e].status ELSE "absent"]
ImplementsLifecycle == Lifecycle!Spec

\* The timeline of an export says whether it is over: the commit that closes its
\* row adds a closing event. Tasks that decided to close it at the same time may add
\* one each, so there can be several, but never more than polls and request handlers.
ClosingIsLogged ==
    \A e \in Exports : Stays(e) =>
        LET closings == events[e]["failed"] + events[e]["expired"]
        IN  IF rows[e].status \in Closed
              THEN closings \in 1 .. Cardinality(Webs \cup Pollers)
              ELSE closings = 0

\* Once the transactions on a row have ended, an expired export names no file
\* and has none: what the erasure design promises of the subject's exports.
ErasureRemovesArtifacts ==
    \A e \in Exports : rows[e].status = "expired" /\ lock[e] = None =>
        rows[e].key = None /\ disk[e] = "none"

\* A failed or expired export never becomes available again.
ClosedStaysClosed ==
    [][\A e \in Exports : rows[e].status \in Closed => rows'[e].status \in Closed]_vars

\* Whatever the batch limits, the order of the lists, deadlocks between
\* polls and erasures and concurrent requests do, a pending export is settled,
PendingIsSettled ==
    \A e \in Exports : rows[e].status = "pending" ~> rows[e].status \in Closed \cup {"ready"}

\* an export whose retention is over is closed without anybody asking for it,
LapsedIsClosed ==
    \A e \in Exports : (rows[e].status = "ready" /\ rows[e].exp <= now)
                          ~> rows[e].status \in Closed

\* and no request and no poll waits for ever on a row lock.
EveryTaskEnds == \A a \in Actors : pc[a] # "idle" ~> pc[a] = "idle"
=============================================================================
