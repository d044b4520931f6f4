# Formal model of shipster

TLA+ modules, TLC configurations and TLAPS proofs for the shipster backend
(FastAPI web process, APScheduler worker process, PostgreSQL, local export files).
Five state machines are modelled: the data exports and the erasures of
`apps/privacy`, the reset tokens of `apps/auth`, the memberships and invitations of
`apps/organizations`, and the two message backends of `apps/messaging`.

## 1. Inventory

shipster runs as two processes over one database:

- **web** (`main.py`, `shipster/platform/app.py`): FastAPI on one asyncio loop. A
  request opens one `AsyncSession`, commits after the handler and rolls back on
  any exception, an `HTTPException` included
  (`shipster/platform/persistence/deps.py:14-24`).
- **worker** (`shipster/platform/worker.py`): an `AsyncIOScheduler` with three interval
  jobs, `max_instances=1` and `coalesce=True`
  (`shipster/platform/scheduler/runner.py:16-31`): password-reset mails, pending exports,
  pending erasures. A job uses one session and commits once, at the end of its batch.

| Component | State | Operations | What is hard | What makes it correct |
|---|---|---|---|---|
| privacy export (`apps/privacy`) | `privacy_export_requests`, `privacy_export_lifecycle_events`, `<id>.json` files | create (direct or queued), status, events, download, poll (reconcile ready, process pending) | files are outside the transaction; snapshots are used across awaits; batch commit; row locks; expiry | statuses follow the life cycle; a ready export is complete and whole; a closed one leaves nothing; nothing is stuck |
| privacy erasure | `privacy_erasure_requests`, the subject's rows everywhere | request, status, poll with four erasers | check-then-insert, one failing eraser of four, races with exports and profile changes | one active request per subject; after completion no personal data is left |
| auth, password reset | `user_password_reset_tokens`, JWTs | login, change password, request reset, mail poll, (complete reset) | mail is sent before the commit; revoke against the mail poll; tokens used once | a token that was superseded, used or expired never resets a password |
| users | `users` | create, read, save | snapshot saves against the erasure | the erased user stays erased |
| organizations | `organizations`, members, invitations | create, invite, accept, list | check-then-insert, double accept, mail before commit, foreign keys against an erasure | members were invited, one membership per user, bounded pending invitations, no waiting for ever |
| orders | `orders` | create, list | none | - |
| notifications | none | send by SMTP or Telegram | failing sends | - |
| messaging | Redis streams or RabbitMQ queues, the in-memory map of deliveries | publish, pull, acknowledge | redelivery, reconnect, several subscriptions | a message is pulled until it is acknowledged |
| scheduler and worker, persistence, http audit, settings, logging, shared | job registry, engine and session factory | start, stop, lazy creation | shutdown cancels a running job | duplicate job ids are refused |

Interaction: web handlers and jobs share nothing in memory. They meet in the
database (READ COMMITTED, row locks taken by `UPDATE`) and in the artifact
directory. The erasure poll calls the erasers of exports, invitations, users (with their
reset tokens) and orders, in this order, inside its own transaction. Mails leave the
program inside a transaction that may still fail. Messaging has no caller yet.

## 2. The modules

| Module | What it is |
|---|---|
| `PrivacyExport` | rows, events, files, clock and transactions; every step of a web request, an export poll and an export erasure |
| `ExportLifecycle` | the abstract specification: what a subject sees of the status of an export |
| `MCPrivacyExport` | the instance for TLC, with the symmetry of web requests and users |
| `PrivacyExport_proofs` | the theorems about it, checked by TLAPS, among them that it implements `ExportLifecycle` |
| `Transactions` | sessions over one PostgreSQL: visible rows, row locks and their queues, commit, rollback, deadlocks. The next three modules extend it |
| `PasswordReset`, `MCPasswordReset` | reset tokens: request, mail poll, use |
| `PasswordReset_proofs` | types, mails before marks, single use |
| `PasswordResetTokens_proofs` | the lock discipline of the token rows, and what follows from it: successors, overlap, retries |
| `Erasure`, `MCErasure` | one account from registration through login, password changes and personal data to its erasure; the worker that starts, stops and polls |
| `Erasure_proofs` | types, requests in processing, the erased address, the answers |
| `ErasureEffects_proofs` | what the commit of an erasure leaves and locks, and how many erasures may overlap |
| `Organizations`, `MCOrganizations` | organizations, members, invitations, and the part of an erasure that touches them |
| `Organizations_proofs` | types, creators, acceptances |
| `OrganizationInvites_proofs` | where members come from, pending invitations, who waits for whom |
| `MessageDelivery` | the abstract specification: what the messaging ports promise of a copy of a message |
| `Messaging`, `MCMessaging` | both backends of the ports: Redis Streams and RabbitMQ |
| `Messaging_proofs` | the theorems about it, among them that it implements `MessageDelivery` |

`Transactions` has no `Init` or `Next` of its own: a component gives it the row each task is
about to write (`Waits`), and its actions are built from `WriteRow`, `CommitRows` and `RollbackRows`. A row id
stands for whatever makes the row unique, so that a second `INSERT` under one slug, or of one
membership, waits for the first and then fails, as PostgreSQL's unique indexes make it. Foreign keys are in
`Organizations`, where an erasure changes what they refer to while they are locked. The other modules leave them out: of
the tables of `apps/privacy` only events have one, on a request whose key nobody changes, and nobody changes the key of a
users row in `PasswordReset`. In `Erasure` a reset token refers to the user; the wait would only put its `INSERT` before or after the update
of the address, both of which happen there.

### How `PrivacyExport` corresponds to the code

*State.* `rows`, `events` are the committed tables, `disk` the artifact files
(`"partial"` while `write_bytes` is under way), `now` the clock in hours. A transaction
that has written a row holds its `lock`; `work` is the row as that transaction sees
it, `drafts` are its uncommitted events. `pc`, `job`, `batch`, `cur`, `want`, `seen` are the
local variables of a running task: the list it iterates over, the request in
hand, the request given to `save()`, and the row `save()` read.

*Grain.* A step ends where the code awaits something another task can see: a
`SELECT`, an `UPDATE` with its flush, a file operation, a commit. `save()` is two steps,
`SaveGet` (`session.get`) and `SaveFlush` (assignments and flush): between them another
transaction may commit. SQLAlchemy writes only attributes that changed since
the read, so `Merge` updates only these columns of whatever the row holds when the lock
is granted. Because the ORM's identity map holds rows weakly and the
repository converts them to domain objects at once, every `save()` reads its row anew.

| Action | Code |
|---|---|
| `CreateDataExport` | `CreateDataExport.execute`, both the queued and the direct branch |
| `LookUp`, `ReconcileReadyRequest`, `ProbeArtifact` | `GetDataExportStatus` (also behind `/events`), the start of `DownloadDataExport`, `reconcile_ready_request` |
| `AuthoriseDownload`, `StreamArtifact` | the second half of `DownloadDataExport`, the `FileResponse` |
| `StartPoll`, `ListPending`, `ProcessOne`, `OpenArtifact`, `WriteArtifact`, `ExportFails` | `run_privacy_pending_export_poll` and `ProcessPendingExports` |
| `StartErase`, `EraseForUser` | `PrivacyExportsSubjectDataEraser` |
| `DropArtifact`, `SaveGet`, `SaveFlush` | `storage.delete` and `save()`, shared by all of them |
| `Commit`, `Rollback`, `Abort` | the ends of a session |
| `DeadlockVictim`, `Waiters`, `ReleaseLocks` | PostgreSQL (external) |

A download that ends in 404, 409 or 410 is the `"rollback"` phase: the router turns the
error into an `HTTPException`, which `get_session` sees.

*Left out.* `updated_at` and `failure_reason` (columns no decision reads except as the
tie-break of `list_ready`), the content and size of the document (both outcomes of
the direct-export decision are possible), the temporary file of a direct
download, requests for rows that do not exist or belong to others (they change
nothing). An erasure here handles one subject and commits; the real job goes on
with further subjects and erasers in the same transaction.

### How `PasswordReset` corresponds to the code

*State.* `rows` is `user_password_reset_tokens`, numbered by `created_at`; `mails` counts what left the
program, `resets` the committed password changes of each token; `todo` is what a running task
has listed (rows an `UPDATE` has found, or a batch of the poll), `cur` the token in hand.

| Action | Code |
|---|---|
| `RequestReset`, `NextRevoked`, `RevokeRow`, `SaveToken` | `RequestPasswordReset.execute`; `revoke_active_for_user` finds its rows, then locks each and looks at its status again (READ COMMITTED) |
| `StartPoll`, `SendMail`, `SendFails`, `MarkNotified` | `run_password_reset_notification_poll` with `ProcessPasswordResetNotifications`; a failing send may or may not have delivered |
| `CompleteReset`, `MarkUsed`, `SavePassword` | `find_valid_notified_by_token_hash` and `mark_used_if_notified`; the use case between them is missing from the repository |
| `Commit`, `Abort`, `DeadlockVictim`, `Tick` | the ends of a session, PostgreSQL, the clock |

*Left out.* Users that are deleted (none ever is), the text of the mail, requests for unknown addresses
(they change nothing), `mark_notified_if_pending` (nothing calls it).

### How `Erasure` corresponds to the code

*State.* The rows of `users`, of `privacy_erasure_requests` and, as `items`, of the tables an eraser cleans:
reset tokens, invitations to the user's address, exports. A user row is two values: the address with
the username (`own` or `erased`) and the password (`known` to the subject, or `unusable`). `tokens` are the
users with a bearer token that has not expired, `running` the worker processes whose scheduler runs.
`want` and `seen` are the user given to `save()` and the row `save()` has read; `known` is what led back
to a subject when the poll made its list.

| Action | Code |
|---|---|
| `Register`, `InsertUser` | `CreateUser`, whose insert happens at the commit |
| `Login`, `IssueToken`, `IsAuthenticated`, `Expire` | `AuthenticateUser`, `JwtAccessTokenService`, `get_current_user_id`: the row is read once at login and never by a bearer token |
| `RequestErasure`, `FileErasure`, `ErasureStatus` | `RequestErasure`, `GetErasureStatus` |
| `ChangePassword`, `RereadUser`, `SaveChange` | `ChangePassword`, with the read and the flush of the repository's `save()` apart |
| `LeaveItem` | the requests that store a reset token, an invitation or an export of the subject |
| `StartPoll`, `ProcessOne`, `ErasePrivacy`, `EraseInvitations`, `DeleteTokens`, `ReadUser`, `AnonymiseUser`, `CompleteErasure`, `EraserRaises` | `ProcessPendingErasureRequests` and its erasers; all requests of a batch share one transaction |
| `StartWorker`, `StopWorker` | `_run_worker`: the shutdown cancels a running poll |
| `Commit`, `Abort` | the ends of a session. A database error inside an eraser is `Abort`: the session cannot save `failed` either |

*Left out.* Files of exports (an expired export is an item that is gone; `PrivacyExport` has the files),
`failure_reason`, a second worker process (`OneWorker`: docker-compose runs one, and two polls would
wait for each other's rows).

### How `Organizations` corresponds to the code

*State.* Rows of `users` (the address, or `erased`), `organizations` by slug (their creator), members by organization
and user, invitations. A user stands for the own address. `snap` is the invitation given to `save()`, `found`
whether its `session.get` returned a row, `address` the address given to `save()` of a user, which becomes `None` when the row
read by that `save()` has it already (SQLAlchemy then leaves the column alone), `todo` what an erasure has still to
delete, `closed` the users of whom an erasure request is completed or failed.

*Waits.* A statement waits for whoever has written the same row or unique key (`Waits`), and because of foreign keys. An
`INSERT` takes the users row it refers to `FOR KEY SHARE` (`Referenced`: the user of a membership, the sender of an
invitation; `organization_member.py:28-32`, `organization_invitation.py:24-28` of the schema), and an `UPDATE` that changes the
unique email and username needs it `FOR UPDATE` (`ChangesKey`, `user.py:15-16` of the schema); each waits for the other. `Blockers` is
all of that, `Circles` the sets of tasks that wait for each other, of which PostgreSQL aborts one (`DeadlockVictim`).
The foreign key to `organizations` makes nobody wait: no code updates or deletes an organization.

| Action | Code |
|---|---|
| `CreateOrganization`, `InsertOrganization`, `InsertCreator` | `CreateOrganization` |
| `InviteMember`, `CheckPending`, `CheckMember`, `InsertInvitation` | `InviteOrganizationMember`; the token is known to others from the commit on, as no row answers to it before |
| `AcceptInvitation`, `CheckAccount`, `FindMembership`, `JoinOrganization`, `GetInvitation`, `MarkAccepted` | `AcceptOrganizationInvitation`, one read or flush each |
| `ChangePassword`, `RereadUser`, `SaveChange` | `ChangePassword` of `apps/auth`, as far as it writes the address of its snapshot |
| `StartErasure`, `NextInvitation`, `DeleteInvitation`, `ReadUser`, `AnonymiseUser`, `UserEraserRaises` | `OrganizationInvitationsSubjectDataEraser`, then `UserSubjectDataEraser`, whose failure leaves the request `failed` and commits the deletions; erasures of one user wait for each other at the user row |
| `ListOrganizationMembers`, `ListUserOrganizations` | the reads, in terms of which the properties are stated |
| `Commit`, `Abort`, `DeadlockVictim`, `Tick` | the ends of a session, PostgreSQL, the clock |

*Left out.* Names, the mail, reading one organization, organizations that are deleted and members that leave
(no code does either), invitations to addresses nobody registered. An erasure here handles one request and commits; the batch is
in `Erasure`. A further request for a user whose row holds the placeholder is not processed, as no invitation is
addressed to that; one for a user whose address a password change has brought back is.

### How `Messaging` corresponds to the code

*State.* Of the broker: `sent`, `since` (what was published before a group or queue existed), `ready`, `unacked`. Of a
process's adapter: `closed` and `pending` (`_pending_messages`), with `conn`, the number of its connection, in every
delivery. Of a consuming coroutine: what it has pulled (`got`) and popped (`acks`). `processed` is what was
handled for each subscription.

| Action | Code |
|---|---|
| `AddEntry`, `Publish`, `Enqueue` | `publish` of each adapter, and the broker's copies |
| `EnsureConsumerGroup`, `ReadGroup`, `LoseBatch`, `AcknowledgeEntries` | `RedisStreamMessaging.pull` and `acknowledge` |
| `EnsureQueueAndBind`, `GetMessage`, `ReturnBatch`, `PopDeliveries`, `AckDelivery`, `EndAcknowledge`, `EnsureConnection` | `RabbitMqMessaging.pull` and `acknowledge` |
| `Handle` | the caller, who handles before acknowledging (external: no code calls the ports) |
| `Disconnect`, `Requeue`, `Crash` | aio_pika, RabbitMQ, a process that dies |

`MessageDelivery` gives every copy (message and subscription) a place: none, ready, out, done. The refinement mapping
computes it from `since`, `ready` and `unacked`, and says which copies an acknowledgement may settle. There are two mappings. `PortPromise`
is what the ports say: a copy is settled only once its message was handled for its own subscription (`Handled`). RabbitMQ's adapter
breaks it when a process serves two subscriptions, as it remembers deliveries by message id alone (run `shared_process`).
`Promise` is what is left then: on Redis the same; on RabbitMQ a copy may also be settled once another subscription of
the process that holds it has handled the message (`Settleable`). Where no process serves two subscriptions the two are one.

*Left out.* Message bodies, headers, argument checks, waiting times, messages that another program writes
(except as a batch that cannot be decoded), the id by delivery tag of messages without an id, which this adapter does not send.

### Bounds

`MaxExports`, `MaxNow`, `MaxAborts` and `Routes` only bound the instance: they are guards of
`CreateDataExport`, `Tick`, `Abort` and `LookUp`. `BatchLimit` and `ExpiryHours` are
parameters of the program. `DiskFaults` turns on `OSError` from writing, unlinking and `stat`, which the code takes for a missing file. `Leavers` are the
subjects whose erasure may fall due while an instance runs (a guard of `StartErase`): several properties speak of
the exports of everybody else (`Stays`). In the other modules too, every
constant called `Max...` is a bound of the instance, guards of the actions that draw numbers
(tokens, erasures, items, invitations, messages), of the clock, and of faults (in `Organizations` `MaxEvents` bounds
the invitations, clock ticks, faults, password changes and users whose erasure is closed together); `BatchLimit`, `TokenTTL` and `Lifetime`
are parameters of the program.

## 3. The runs

| Run | Instance | Shows |
|---|---|---|
| `export_web` | 1 export, 2 web requests, 1 poll, clock 0..2, 1 fault | `TypeOK`, `ClosedLeavesNothing`, `ClosingIsLogged`, `LiveArtifactIsKept`, and that the model implements `ExportLifecycle` |
| `export_erasure` | 2 users of whom one leaves, 1 export, 1 web request, 1 poll, 1 erasure, clock 0..1, disk faults, 1 fault | `NoCommittedProcessing`, `ReadyIsComplete`, `NoTornArtifact`; if the export is that of the one who stays, also `ClosingIsLogged`, and that the model implements `ExportLifecycle` |
| `export_progress` | 2 exports, batch of 1, 1 web request, 1 poll, 1 fault, fair | `PendingIsSettled`, `LapsedIsClosed` |
| `export_locks` | 2 exports, batch of 1, poll and erasure, fair | `EveryTaskEnds` |
| `erased_export_returns` | 1 export, poll and erasure | **violated**: `ClosedStaysClosed` |
| `erased_artifact_survives` | 1 export, poll and erasure | **violated**: `ErasureRemovesArtifacts` |
| `password_reset` | 1 user, 2 web requests, 1 poll, batch of 2, 3 tokens, clock 0..1, 1 fault, fair | `TypeOK`, `ActiveTokensOverlap`, `RevokedHasSuccessor`, `NotifiedWasMailed`, `MailsArePaidFor`, `SingleUse`, `EverythingIsServed` |
| `erasure_requests` | 1 user, 2 web requests, 1 worker, batch of 2, 3 erasures, 1 item, 1 password change, 1 fault, fair | `TypeOK`, `NoCommittedProcessing`, `ActiveErasuresOverlap`, `ErasedOnlyByCompletion`, `CompletionLocksAccount`, `CompletionRemovesData`, `LockedOut`, `AnswerIsFinal`, `EveryErasureIsAnswered` |
| `erasure_undone` | the same with 1 erasure | **violated**: `ErasedStaysErased` |
| `organizations` | 2 users, 1 slug, 2 web requests, 1 erasure poll, 3 events (invitations, ticks, faults, password changes, users with a closed erasure) | `TypeOK`, `CreatorIsMember`, `AcceptedIsMember`, `MembersWereInvited`, `PendingInvitesOverlap`, `WaitsEnd` |
| `messaging` | 2 processes, 2 subscriptions, 3 consumers, 2 messages, batch of 2, 1 fault, either backend | `TypeOK`, `StreamHandsOutOnce`, `AckReachesBroker`, and that the model implements `MessageDelivery` as far as `Promise` goes (`ImplementsDelivery`) |
| `shared_process` | the same | **violated**: `SettlesOnlyHandled`, the whole promise |

*Why the bounds are enough.* The safety properties speak of one export at a time, and
exports share no column and no file, so one export shows every interleaving of
the tasks on it; two web requests and a poll give three concurrent
reconciliations. `export_web` has the reconciliations; `export_erasure` has the faults and an erasure, which must not touch the export
when it belongs to the other subject. Two exports with a batch of one are needed, and sufficient,
for starvation by list order and for opposite lock orders. A retention of one
hour with the clock up to 2 covers "not yet", "exactly at" and "after" the
expiry of an export made late. One fault already meets every step; a second one only
repeats the recovery from a state that is consistent by `NoCommittedProcessing`
and `ReadyIsComplete`.

For reset tokens, three tokens are the least that let one be used or revoked, its successor be
revoked by the second request, and a third be active beside it; users share no token, so one is enough. The clock
reaches the expiry of the first token. For erasures, two requests that overlap file two active
erasures, and a third follows the answers to both; a batch of two puts one request's failure after another's success
in one transaction. One item of any kind shows every order of storing and deleting it. For organizations, two
users and one slug give every race to a constraint. Three events are two invitations that overlap, or an invitation that is
accepted, and one or two of a further invitation, a password change, a fault or a tick: an address that comes back after an
erasure takes one invitation, one password change and the closed erasure, and the circle of an acceptance and an erasure only the invitation. For messages, the three consumers are two subscriptions in one process and
two processes on one subscription, and two messages are a batch with an order. One fault is enough to lose a
connection, a process or a reply; the number of a connection tells an old delivery from a new one.

*What is not promised by a property.* `ActiveTokensOverlap`, `ActiveErasuresOverlap` and `PendingInvitesOverlap` bound what the
check-then-insert code lets happen: two requests at once can leave two active rows, as no constraint backs the check, but
never more than requests overlap. `CompletionRemovesData` is about what led back to the subject when the poll began;
what is stored later than that survives. Of invitations it speaks for the first erasure of a subject only:
`organization_invitations_subject_data_eraser.py:21` finds them by the address the user row holds at that moment, and
three password changes that overlap two erasures can bring the address back before the second poll makes its list and
erase it again before the eraser reads it (`change_password.py:16-27`, see `erasure_undone`). `CompletionLocksAccount` is about the commit of the erasure; that a password change may
undo it afterwards is `erasure_undone`. `LockedOut` starts when the last bearer token has expired: until then an
erased user's token works.

*What the safety runs of exports leave out, and why.* `ClosedLeavesNothing`, `LiveArtifactIsKept`, `ClosingIsLogged` and
`ImplementsLifecycle` are about exports whose subject stays; of the exports of somebody who is being erased the first
fails, and so do the last two: an erased export may come back or keep its file, as the violation runs show, and its move from `pending` (or `failed`)
to `expired` has no event, as `_lifecycle_event_types_to_persist` does not know that transition
(`export_request.py:60-83`; the timeline design wants an event with every change of status). The file of a live
export is what an erasure is there to delete. `ClosedLeavesNothing` is also run
without disk faults, as the eraser deliberately goes on after an `OSError`; and so is `LiveArtifactIsKept`, as any
`OSError` of `stat`, on a whole file that has not expired too, is taken for a missing file
(`export_request_lifecycle.py:91`, `download_data_export.py:70`), so that the request fails and the file is deleted.

*What the members of an organization can show.* `MembersWereInvited` exempts a user of whom an erasure request was completed or failed: it has
deleted the accepted invitation with the others. What counts is the request and not the row, because a failed request leaves the address as it
was, and after a completed one a password change with an older snapshot can bring it back (`erasure_undone`). `WaitsEnd` has one
exception as well: an acceptance that has inserted its membership waits for the invitation which an erasure of the same user
has deleted, while that erasure waits for the user's key, which the membership shares. PostgreSQL aborts one of the two, and either end is
consistent.

`ClosingIsLogged` allows several closing events of one export: reconciliations that read the same ready row
all append one, which the timeline design asks callers to avoid and the API tolerates. What it excludes is a closed export
without any, an open one with one, and more of them than there are polls and request handlers.

### What the violation runs show

1. `process_pending_exports.py:44-51` works on a list of snapshots. If the subject's erasure commits
   `expired` after the list was read, `_process_one` saves `processing` and `ready` over it
   and writes a new file: the erased export is back. The erasure design asks for "export artifacts removed /
   export rows terminal".
2. `privacy_exports_subject_data_eraser.py:26-54` decides by its snapshot whether there is a file
   to delete, but its `save()` clears the key of the row as it is by then. If the poll
   committed `ready` in between, the key is lost and the file stays for ever.
3. `change_password.py:16-27` saves the address and username it read before it hashed the password. If the erasure commits
   before `save()` reads the row again, the row is back with the own address and a password the subject knows, while the
   erasure is `completed`. The erasure design asks to "verify user row PII fields are anonymized and
   user cannot log in".
4. `rabbitmq_messaging.py:177` stores a delivery under the message id, and `acknowledge` drops its `subscription` (line 195). With
   two subscriptions in one process, the second pull of a message replaces the delivery of the first, and the
   first one's acknowledgement settles the second one's copy before it was handled; a crash then loses it. The port says that
   `subscription` maps to a queue and that acknowledging confirms processing.

Exploring the same instances also shows what is not a promise of any
document: a row that one reconciliation has closed as `expired` may be saved as `failed` by
another, and the other way round (`ExportLifecycle` has these moves), each with its event, and
an erasure's own commit can leave behind a file for a poll that was writing it.

### Fairness

`FairSpec` assumes weak fairness of each running task's next step (asyncio and the
database go on), of starting the export poll (the interval trigger fires again
after each run; `max_instances=1` only skips overlapping ones) and of time. Nothing
is assumed of users: no request and no erasure has to arrive. A row lock is passed to one
of the tasks queued for it when it is released, as PostgreSQL does; without that, two
tasks that re-lock the rows could starve a third in the model. With three or more tasks on
one lock the model does not order the queue, so `EveryTaskEnds` is checked with one
poll and one erasure plus the creating request, not with many.

The fair specifications of `PasswordReset` and `Erasure` assume the same of running tasks and of their polls. A failing send, a
failing eraser, a crash and a stopped worker are bounded and never forced. `Erasure` also assumes that a stopped
worker is started again: docker-compose sets no restart policy, so this is an assumption about the
operator, and `EveryErasureIsAnswered` cannot do without it. `Organizations` and `Messaging` state no fairness: nothing in them runs by itself,
and `WaitsEnd` says as a state property that nobody waits for an ended transaction, or in a circle but the one PostgreSQL has to break.

## 4. Proofs

`PrivacyExport_proofs` proves, for every value of the constants (with
`BoundsAssumption`, `NoneAssumption`, `ActorsAssumption`, `LeaversAssumption` and, where tasks are counted,
`FiniteAssumption`):

- `TypeCorrect == Spec => []TypeOK`. `TypeOK` alone is not inductive: `save()` needs to know that the
  snapshot in hand is a row. `Typed` adds `Ids` (a row keeps its id) and `Busy` (a task in the
  middle of an operation holds the snapshots the operation uses).
- `NeverStuckInProcessing == Spec => []NoCommittedProcessing`. A task that wrote `processing` must not be able
  to commit before it has overwritten it. `IInv` adds to `Typed` two facts:
  `ProcessingIsInHand`: the writer of a `processing` row owns its lock and is between `open` and the
  flush of another status, or rolls back; `ProcessingIsSeen`: at that flush, `save()` has read
  `processing`. The second is what makes the column-wise `UPDATE` safe: had `save()` read the status it wants to
  write, it would leave the column alone and the row would stay in processing.

The argument per step: a commit happens only in phase `commit`, which no owner of a `processing` row is in; a
rollback restores a committed row, which is not in processing; a flush either starts
processing (and the writer has it in hand) or ends it; all other steps write no row. Each group of actions is
one lemma (`TypedReads`, `TypedWrites`, `TypedEnds`; `OwnedAtReads`, `OwnedAtSaveFlush`, `OwnedAtCommit`, ...).

Two further groups of theorems have a hypothesis on the constants, stated in each of them.

*One poll at a time* (`OnePoll == \A p, q \in Pollers : p = q`). The worker is one process and its scheduler runs the
job with `max_instances=1`. Two polls could list one pending row and both write its file and commit `ready`, so
none of this would hold of them; requests and erasures may be as many as they like.

- `ReadyHasAll == Spec => [](OnePoll => ReadyIsComplete)`.
- `DownloadsAreWhole == Spec => [](OnePoll => NoTornArtifact)`.

The row alone does not say enough: a row that shows `expired` may have been ready before, or may have been erased
while it was pending. The committed `export_ready` event is the memory that tells the two apart, and the invariant
`Exact` is organised around it. `Tables` says what rows, uncommitted versions, events and files have to do with each other: a row is
born with its `export_created` event (`Births`); any version that is ready is complete (`Versions`); before its
event the row was never ready and has neither key nor expiry, but for one uncommitted version whose transaction has drafted
the event (`Unready`, `Drafted`); after it the row can only close and nobody writes its file again (`Readied`).
`InStep(a)` says what each task contributes: what its snapshots prove about the events (`Lists`), what it does in which
phase (`Roles`), what its save will write (`Closes`, `Processes`), what `save()` has read and why that makes the
column-wise `UPDATE` come out right (`Sees`), and that what it still has to settle has never been ready
(`Settlers`). The last one makes settlers unique (`OneSettler`), which is where `OnePoll` is needed.
The proof has one lemma for what a move of one task leaves to the others (`OthersInStep`, from `Relied`), one for each
kind of step on the tables (`AtRead`, `AtWrite`, `AtCommit`, `AtRollback`), and one per action for the task that moves.

*An export whose subject stays* (`Stays(e)`; `OnePoll` as before). Requests, the poll and the erasures of other subjects
may do as they like beside it; with its own subject's erasure these statements fail, as the violation runs show.

- `KeepsLifecycle`: under `OnePoll`, `Spec => ImplementsLifecycle`, step by step: a commit moves each export by a move of
  `ExportLifecycle`, every other step stutters. `Moving` says that an uncommitted version is at most one move ahead of
  the committed one, or in processing, and `NeverStuckInProcessing` excludes the latter at the commit.
- `RetentionIsKept`: under `OnePoll` and `~ DiskFaults`, `Spec => LiveArtifactIsKept`. `Current(a)` says that a snapshot of a row which is still
  ready shows its expiry, so a decision by an old snapshot is as good as one by the row; and that whoever is
  about to delete a file has seen it lapsed or not whole.
- `ClosedIsEmpty == Spec => [](OnePoll /\ ~ DiskFaults => ClosedLeavesNothing)`. `Emptied` extends the property to uncommitted
  versions; `Empties(a)` says that the file is deleted before the save that closes its row, and that this save
  has read a key, so that clearing it is a change and reaches the `UPDATE`, or has found the row closed and its key cleared.
- `ClosingsLogged == Spec => [](OnePoll => ClosingIsLogged)`. The event is decided by what `save()` read and the column is
  written on whatever the row has become, so a row and its timeline agree only because of the order of steps. `Spent(a)` says that who has
  logged an end still holds the row, in a closed version, and has it neither in hand nor on the list any more, so no task logs
  two in one transaction. `Logged(e)` keeps an account: the closing events committed, and the tasks that may still add one
  (`MayClose`: they have seen the export ready, or have drafted the event), are together no more than there are tasks.
  A commit turns a task of the account into an event; no task joins it once the row is closed, as no snapshot taken from then on shows it
  ready (`ReadySeen`). What no erasure does to these exports is `Belongs` and `Leaves`: a row keeps its subject, and an
  eraser has only rows of its own subject in hand.

`PasswordReset_proofs` proves, from `TasksAssumption`, `TokensAssumption`, `BoundsAssumption`, `NoneAssumption` and `NoTaskIsNone`:

- `TypeCorrect == Spec => []TypeOK`, with `Busy`: whoever is about to write a token has one in hand.
- `NotifiedOnlyIfMailed == Spec => []NotifiedWasMailed`. `MailedFirst` says the same of the row as its writer sees it, and
  of the token between the send and the mark.
- `UsedAtMostOnce == Spec => []SingleUse`. `SingleUse` counts committed changes against the committed row, and two
  requests may both have found the token usable. `UsedOnce` adds: `Unborn`, a token not yet
  generated has no row; `UsedIsFinal`, a used row is used for its next writer too; `UseIsInHand`, an uncommitted use belongs to
  the request that saves the password next; `HandIsUse`, that request owns the lock and wrote
  `used` over a row that was not used. So the one step that counts a change also commits the only `used` of its token.

Both arguments go by what a commit, a rollback and a flush do to the tables (`Written`, `Committed`, `RolledBack`), stated once
for all actions.

`PasswordResetTokens_proofs` proves, from these and `FiniteAssumption` (tasks can be counted):

- `RevokedIsReplaced == Spec => []RevokedHasSuccessor`. `Locking` states the discipline of the token rows: whoever holds one
  was given it while waiting, found nothing to do, or wrote what its kind of task writes (`Held`); what a task has
  listed is a committed row of its user, or of the batch (`Chosen`); a request mints one token, after it has revoked the others (`MintsOne`). So a revocation is committed only
  together with a token that counts.
- `UsableTokensBounded == Spec => []ActiveTokensOverlap`. A function from active tokens to the requests that minted them is
  carried along (`Minters`, an existential over the function); it is one-to-one because a request that starts again first
  revokes what it minted before, and `FS_Injection` turns it into the bound.
- `RetriesArePaidFor == Spec => []MailsArePaidFor`. `PaidFor` keeps the accounts of a token in two phases: while it can still be mailed, its
  mails are those of polls that have not committed their mark yet (`Mailers`) and those paid for by an abort; afterwards each poll that
  still has it on its list (`Listers`) may mail it once more. The commit of the first mark moves the account from one phase to the other,
  and no poll is in both sets.

`Erasure_proofs` proves, from the assumptions of `Erasure` (`OneWorker` among them) and `NoTaskIsNone`:

- `TypeCorrect == Spec => []TypeOK`. A user row is written by merging columns, so its type rests on `Registered`: tokens, tasks
  and requests belong to users who have a row, and no row goes away.
- `NeverStuckInProcessing == Spec => []NoCommittedProcessing`. `ProcessingIsInHand`: an uncommitted `processing` belongs to a poll between
  `privacy` and `close`, phases in which no commit is possible.
- `ErasedOnlyWithAnswer == Spec => []ErasedOnlyByCompletion`. The poll and password changes write the same user row.
  `ErasedIsAnswered` looks at every version of it: an erased address that is not committed is the poll's, which is about to
  complete the request or has done so in the same transaction (`ErasedInHand`); a password change carries one only if it
  was committed when it read the row (`WorksOnUser`).
- `AnsweredOnce == Spec => AnswerIsFinal`. By `Owned`, a web request holds the lock only of a row it inserts and the poll only of
  pending ones, so nobody can commit over an answer (`AnswersUnlocked`, `AnswerStays`).

`IInv` is these facts with `InOrder`, what each task may rely on by itself: the request in hand is locked and in
processing (`Processes`), those still listed are pending and unlocked (`Polls`; here `OneWorker` is needed, as a
second poll could list what the first has taken up), and nobody else has a lock on a request (`OwnsNothing`). A step of one
task keeps the `InOrder` of the others (`OthersInOrder`); then there is one lemma per kind of step: reads and writes of items
(`InvQuiet`), flush of a user (`InvUserFlush`), flush of a request (`InvErasureFlush`), commit (`InvCommit`), rollback (`InvRollback`).

`ErasureEffects_proofs` proves, from the assumptions of `Erasure` (`FiniteAssumption` among them):

- `CompletionLocks == Spec => CompletionLocksAccount`. `Holding` says who may hold which row, and what of it: a poll that is about to
  complete an erasure, or has done so in its transaction, holds the user row in a version without a usable password (`PollHolds`).
  Of the address the theorem says nothing: where a first erasure has made it `erased`, the `save()` of a second one leaves the column alone, and a stale
  password change may have brought the own address back in between.
- `OutOfReach == Spec => LockedOut`. The steps fall into kinds by what they may do to users, tokens and items (`StepKinds`); each
  of them needs a live token, a login or a task of the subject, none of which a locked-out user has.
- `CompletionCleans == Spec => CompletionRemovesData`. `Cleaning` follows the poll's list through its phases: after each
  eraser, the known items of its kind are gone from the version the poll will commit, and no later step of anybody brings one of
  them back; an item that is known was stored before, and ids are not used twice.
- `ActiveErasuresBounded == Spec => []ActiveErasuresOverlap`. As for reset tokens: a one-to-one function from active erasures to the
  requests that filed them (`Filers`), as a request that files a second one has found no active one.

`Organizations_proofs` proves, from the assumptions of `Organizations` and `NoTaskIsNone`:

- `TypeCorrect == Spec => []TypeOK`, with `WorksOn`: what each task knows of the rows it is about to write.
- `CreatorBelongs == Spec => []CreatorIsMember`. `OrganizationOwned`: a lock on an organization belongs to a request that waits
  for it and has written nothing, or to its creator, who reaches `commit` only with the membership inserted. `MemberOwned`: the
  memberships of an organization that is not committed are its creator's, as there is no invitation to accept
  (`InvitesExist`); so the insert of the creator's membership cannot meet another one and fail.
- `AcceptedBelongs == Spec => []AcceptedIsMember`. `AcceptedJoins`: an accepted version of an invitation that is not committed belongs to a
  task that commits the membership in the same transaction, or the membership is committed already, which `Accepts`
  says of every task on the way to the mark.

Rows are committed one transaction at a time, and its locks go to tasks that wait: `LocksEnd` shows that these have
written nothing, and `Settled` that rows without a lock are as committed.

`OrganizationInvites_proofs` proves, from the assumptions of `Organizations` (`FiniteAssumption` and `NoneIsNoInvitation` among them):

- `NobodyUninvited == Spec => []MembersWereInvited`. All versions of an invitation agree on the organization and the address, and an
  erasure deletes only what was sent to its user (`Agreed`, an existential over the function that gives each invitation its origin). A
  membership is committed together with the organization or with the acceptance (`Welcomes`), and a deletion together with the end of the
  erasure request, which stays closed (`ClosedStay`).
- `PendingInvitesBounded == Spec => []PendingInvitesOverlap`, with a one-to-one function as before.
- `WaitsAreForWorkers == Spec => [](OneErasurePerUser => WaitsEnd)`. Whoever blocks a task is at work (`BlocksHow`), and requests lock
  the organization before the membership before the invitation, an erasure the invitations before the user; so a circle must go through a task
  that deletes or marks an invitation and one that changes an address (`CirclePhases`), and these are an acceptance and the erasure of its own user. The
  hypothesis, that no two erasures of one user run at the same time, holds with one worker; without it two erasures delete the same
  invitations in an order the code does not fix, and may wait for each other.

`Messaging_proofs` proves, from `MessagingAssumption`:

- `TypeCorrect == Spec => []TypeOK`.
- `GroupsHandOutOnce == Spec => StreamHandsOutOnce`, from what each step does to the entries that were read (`HandsOut`).
- `DeliveryIsRemembered == Spec => []AckReachesBroker`. `IInv` adds: a copy
  is in one place, the queue or one consumer (`OnePlace`), and only where a group or queue existed
  for it (`CopiesRouted`); a coroutine acknowledges only what it has pulled and handled (`CallsInOrder`); nothing is
  out over a closed connection (`Connected`).
- `DeliveryKept == Spec => ImplementsDelivery`. `Delivers` says what a step may do to copies: go out, be settled, or go back, each only from the right
  place; `Allowed` shows that such a step is one of `MessageDelivery` under the refinement mapping, and each action has a lemma that
  it is such a step.
- `DedicatedDeliveryKept`: if no process serves two subscriptions (`Dedicated`), `Spec => SettlesOnlyHandled`, because then
  `Settleable` is `Handled`.

Only model-checked, and why: all liveness (`PendingIsSettled`, `LapsedIsClosed`, `EveryTaskEnds`, `EverythingIsServed`,
`EveryErasureIsAnswered`), as fairness and `ENABLED` are out of the prover's reach. Every invariant, action property and refinement that a
passing run checks is a theorem too, those about the artifacts, life cycle and timeline of exports and `WaitsEnd` under the hypotheses named above. The four violation runs check statements that are false;
`DedicatedDeliveryKept` says when one of them is true.

## 5. Not modelled

Orders (single inserts and reads), notifications (input and output), http audit, settings, logging and application wiring have no state
machine of their own (see `PROJECT.json`). The use case that completes a password reset is not in the repository:
`auth_router.py:7` imports `apps.auth.application.complete_password_reset`, which does not exist. `PasswordReset` models what the
token repository and the router provide for it, marks the rest external, and claims nothing about its
own checks. Faults that never go away (an address that is always refused, a file that cannot be deleted) are not modelled: with
them the head of a batch blocks those behind it, by design of the batches. More than one worker process is allowed by the constants of
`PrivacyExport` and `PasswordReset`, but not part of the runs, and excluded in `Erasure`.

## 6. Plan

Done: the five components above, and theorems for all their safety properties and refinements. Left, in order of worth:

1. The theorems about artifacts, the life cycle and the timeline of exports state their hypothesis on polls; what two polls do to one row (a second worker by mistake) deserves
   a run of its own.
2. What can be proved of the exports of a subject that is being erased: that the erasure never leaves a row ready that its save found pending or ready.
3. Larger instances: a second user in `Erasure`, with batches that mix subjects; two workers in `PasswordReset`.
