------------------------------- MODULE Erasure -------------------------------
(***************************************************************************)
(* An account from its registration to its erasure: apps/auth logs the     *)
(* subject in with a bearer token, the subject asks apps/privacy for an    *)
(* erasure, a poll of the worker process runs the four erasers in one      *)
(* transaction for its whole batch, and meanwhile the subject changes the  *)
(* password and requests leave new personal data behind.                   *)
(***************************************************************************)
EXTENDS Transactions

CONSTANTS
    Users,        \* users who may register
    Webs,         \* concurrent HTTP requests
    Pollers,      \* the worker process and its erasure poll (max_instances=1)
    BatchLimit,   \* _PENDING_ERASURE_BATCH_SIZE
    MaxErasures,  \* bound: erasure requests ever stored
    MaxItems,     \* bound: reset tokens, invitations and exports ever stored
    MaxChanges,   \* bound: password changes begun
    MaxAborts     \* bound: failing erasers, crashes, worker stops and database errors

UserId(u) == <<"user", u>>
ErasureId(e) == <<"erasure", e>>
ItemId(i) == <<"item", i>>

\* Numbers are drawn in the order of created_at.
Erasures == 1 .. MaxErasures
Items    == 1 .. MaxItems

ASSUME TasksAssumption == Tasks = Webs \cup Pollers /\ Webs \cap Pollers = {}
\* docker-compose.yml runs one worker; two polls would wait for each other's requests.
ASSUME OneWorker == \A p, q \in Pollers : p = q
ASSUME BoundsAssumption ==
    /\ MaxErasures \in Nat /\ MaxItems \in Nat /\ MaxChanges \in Nat
    /\ MaxAborts \in Nat /\ BatchLimit \in Nat \ {0}
ASSUME FiniteAssumption == IsFiniteSet(Webs)
ASSUME RowIdsAssumption ==
    RowIds = {UserId(u) : u \in Users} \cup {ErasureId(e) : e \in Erasures}
                \cup {ItemId(i) : i \in Items}
ASSUME NoneAssumption == None \notin Users \cup RowIds

\* PrivacyErasureStatus; no code assigns "rejected".
Status == {"absent", "pending", "processing", "completed", "rejected", "failed"}

\* The rows of users (email stands for username too), privacy_erasure_requests,
\* and of the tables an eraser deletes from or expires.
UserRow    == [email : {"own", "erased"}, password : {"known", "unusable"}]
ErasureRow == [subject : Users \cup {None}, status : Status]
ItemRow    == [subject : Users \cup {None}, kind : {"none", "token", "invitation", "export"}]

AbsentErasure == [subject |-> None, status |-> "absent"]
AbsentItem    == [subject |-> None, kind |-> "none"]
\* Mutant: the password hash is cleared.
ErasedHasNoHash == [email |-> "erased", password |-> None]

ErasedUser    == [email |-> "erased", password |-> "unusable"]
NoUser        == [email |-> "none", password |-> "none"]

VARIABLES
    tokens,   \* the users with a bearer token that has not expired
    running,  \* the worker processes whose scheduler is running
    filed,    \* erasure requests numbered so far
    stored,   \* items numbered so far
    changes,  \* password changes begun
    aborts,   \* faults so far
    pc,       \* pc[a]: what task a does next
    subject,  \* subject[a]: the user a works on
    todo,     \* todo[a]: numbers of the erasure requests still to process
    cur,      \* cur[a]: the request in hand
    want,     \* want[a]: the user given to save()
    seen,     \* seen[a]: the user row that save() read
    known     \* known[a]: the items that were reachable when poll a made its list

local  == <<subject, todo, cur, want, seen, known>>
counts == <<filed, stored, changes, aborts>>
env    == <<tokens, running>>
vars   == <<tables, env, counts, pc, local>>

Phase == {"idle", "insert", "issue", "file", "item", "reread", "change", "commit", "next", "privacy",
          "organizations", "tokens", "user", "anonymise", "close"}

TypeOK ==
    /\ \A table \in {rows, work} :
         /\ DOMAIN table = RowIds
         /\ \A u \in Users : table[UserId(u)] \in UserRow \cup {NoUser}
         /\ \A e \in Erasures : table[ErasureId(e)] \in ErasureRow
         /\ \A i \in Items : table[ItemId(i)] \in ItemRow
    /\ lock \in [RowIds -> Tasks \cup {None}]
    /\ tokens \subseteq Users /\ running \subseteq Pollers
    /\ filed \in 0 .. MaxErasures /\ stored \in 0 .. MaxItems
    /\ changes \in 0 .. MaxChanges /\ aborts \in Nat
    /\ pc \in [Tasks -> Phase] /\ subject \in [Tasks -> Users \cup {None}]
    /\ todo \in [Tasks -> SUBSET Erasures]
    /\ cur \in [Tasks -> Erasures \cup {None}]
    /\ want \in [Tasks -> UserRow \cup {NoUser}]
    /\ seen \in [Tasks -> UserRow \cup {NoUser}]
    /\ known \in [Tasks -> SUBSET Items]

Init ==
    /\ rows = [k \in RowIds |->
                 CASE k[1] = "user"    -> NoUser
                   [] k[1] = "erasure" -> AbsentErasure
                   [] k[1] = "item"    -> AbsentItem]
    /\ work = rows
    /\ lock = [k \in RowIds |-> None]
    /\ tokens = {} /\ running = {}
    /\ filed = 0 /\ stored = 0 /\ changes = 0 /\ aborts = 0
    /\ pc = [a \in Tasks |-> "idle"] /\ subject = [a \in Tasks |-> None]
    /\ todo = [a \in Tasks |-> {}] /\ cur = [a \in Tasks |-> None]
    /\ want = [a \in Tasks |-> NoUser] /\ seen = [a \in Tasks |-> NoUser]
    /\ known = [a \in Tasks |-> {}]

Goto(a, phase) == pc' = [pc EXCEPT ![a] = phase]

\* The only rows two tasks write are those of users.
Waits == [a \in Tasks |->
            IF pc[a] \in {"insert", "anonymise", "change"} THEN UserId(subject[a]) ELSE None]

EndTask(a) ==
    /\ Goto(a, "idle")
    /\ subject' = [subject EXCEPT ![a] = None]
    /\ todo' = [todo EXCEPT ![a] = {}]
    /\ cur' = [cur EXCEPT ![a] = None]
    /\ want' = [want EXCEPT ![a] = NoUser]
    /\ seen' = [seen EXCEPT ![a] = NoUser]
    /\ known' = [known EXCEPT ![a] = {}]

\* What save() of the user repository writes: the columns that differ from its
\* own read.  A new password hash is salted and always differs.
Merge(base, read, new) ==
    [email    |-> IF new.email # read.email THEN new.email ELSE base.email,
     password |-> new.password]
-----------------------------------------------------------------------------
(* Registration and login.                                                 *)

\* get_by_email finds the user.
FoundByEmail(u) == rows[UserId(u)].email = "own"

\* POST /auth/register: email and username are not taken.  Registering the
\* address of an erased user makes another user.
Register(a, u) ==
    /\ a \in Webs /\ pc[a] = "idle"
    /\ rows[UserId(u)] = NoUser
    /\ subject' = [subject EXCEPT ![a] = u]
    /\ Goto(a, "insert")
    /\ UNCHANGED <<tables, env, counts, todo, cur, want, seen, known>>

\* save() inserts at the commit; of two registrations the unique columns refuse
\* the later one, which is answered 500.
InsertUser(a) ==
    LET k == UserId(subject[a]) IN
    /\ pc[a] = "insert" /\ MayWrite(a, k)
    /\ IF rows[k] = NoUser
         THEN /\ WriteRow(a, k, [email |-> "own", password |-> "known"])
              /\ Goto(a, "commit")
              /\ UNCHANGED local
         ELSE RollbackRows(Waits, a) /\ EndTask(a)
    /\ UNCHANGED <<env, counts>>

\* verify() of the password the subject knows.
Verifies(u) == rows[UserId(u)].password = "known"

\* POST /auth/login: the user has this address and this password; a second token
\* of a user would be the same here ...
Login(a, u) ==
    /\ a \in Webs /\ pc[a] = "idle" /\ u \notin tokens
    /\ FoundByEmail(u) /\ Verifies(u)
    /\ subject' = [subject EXCEPT ![a] = u]
    /\ Goto(a, "issue")
    /\ UNCHANGED <<tables, env, counts, todo, cur, want, seen, known>>

\* ... and gets a token, though the row may have changed since.
IssueToken(a) ==
    /\ pc[a] = "issue"
    /\ tokens' = tokens \cup {subject[a]}
    /\ EndTask(a)
    /\ UNCHANGED <<tables, running, counts>>

\* get_current_user_id: the token has not expired.  The user row is not read, and
\* nothing but time takes a token back.
IsAuthenticated(u) == u \in tokens

\* The last token of the user expires.
Expire(u) ==
    /\ u \in tokens
    /\ tokens' = tokens \ {u}
    /\ UNCHANGED <<tables, running, counts, pc, local>>
-----------------------------------------------------------------------------
(* POST /privacy/erasure-requests.                                         *)

\* The statuses find_active_for_subject selects.
Active == {"pending", "processing"}

\* Mutants: no look for an active request; a subject who need not be logged in.
RequestUnchecked(a, u) ==
    /\ a \in Webs /\ pc[a] = "idle" /\ IsAuthenticated(u)
    /\ filed + Cardinality({b \in Webs : pc[b] = "file"}) < MaxErasures
    /\ subject' = [subject EXCEPT ![a] = u]
    /\ Goto(a, "file")
    /\ UNCHANGED <<tables, env, counts, todo, cur, want, seen, known>>

RequestForAnyone(a, u) ==
    /\ a \in Webs /\ pc[a] = "idle" /\ rows[UserId(u)] # NoUser
    /\ filed + Cardinality({b \in Webs : pc[b] = "file"}) < MaxErasures
    /\ ~\E e \in Erasures : /\ rows[ErasureId(e)].subject = u
                            /\ rows[ErasureId(e)].status \in Active
    /\ subject' = [subject EXCEPT ![a] = u]
    /\ Goto(a, "file")
    /\ UNCHANGED <<tables, env, counts, todo, cur, want, seen, known>>

\* RequestErasure: the subject exists and has no active request that this
\* transaction can see; otherwise 404 or 409 and nothing is written.
RequestErasure(a, u) ==
    /\ a \in Webs /\ pc[a] = "idle" /\ IsAuthenticated(u)
    /\ filed + Cardinality({b \in Webs : pc[b] = "file"}) < MaxErasures
    /\ ~\E e \in Erasures : /\ rows[ErasureId(e)].subject = u
                            /\ rows[ErasureId(e)].status \in Active
    /\ subject' = [subject EXCEPT ![a] = u]
    /\ Goto(a, "file")
    /\ UNCHANGED <<tables, env, counts, todo, cur, want, seen, known>>

\* save() inserts the pending row.
FileErasure(a) ==
    /\ pc[a] = "file" /\ filed < MaxErasures
    /\ filed' = filed + 1
    /\ WriteRow(a, ErasureId(filed + 1), [subject |-> subject[a], status |-> "pending"])
    /\ Goto(a, "commit")
    /\ UNCHANGED <<env, stored, changes, aborts, local>>
-----------------------------------------------------------------------------
(* What the subject and others do meanwhile.                               *)

\* POST /auth/me/password: get_by_id, and verify of the current password, which
\* nobody knows of an erased user.
ChangePassword(a, u) ==
    /\ a \in Webs /\ pc[a] = "idle" /\ changes < MaxChanges
    /\ IsAuthenticated(u) /\ Verifies(u)
    /\ changes' = changes + 1
    /\ subject' = [subject EXCEPT ![a] = u]
    /\ want' = [want EXCEPT ![a] = rows[UserId(u)]]
    /\ Goto(a, "reread")
    /\ UNCHANGED <<tables, env, filed, stored, aborts, todo, cur, seen, known>>

\* save(): session.get reads the row again ...
RereadUser(a) ==
    /\ pc[a] = "reread"
    /\ seen' = [seen EXCEPT ![a] = rows[UserId(subject[a])]]
    /\ Goto(a, "change")
    /\ UNCHANGED <<tables, env, counts, subject, todo, cur, want, known>>

\* ... and commit flushes what differs from that.
SaveChange(a) ==
    LET k == UserId(subject[a]) IN
    /\ pc[a] = "change" /\ MayWrite(a, k)
    /\ WriteRow(a, k, Merge(work[k], seen[a], want[a]))
    /\ Goto(a, "commit")
    /\ UNCHANGED <<env, counts, local>>

\* A reset request (get_by_email finds the user), an invitation that somebody
\* sends to the user's address, an export request of the user.
LeaveItem(a, u, kind) ==
    /\ a \in Webs /\ pc[a] = "idle" /\ stored < MaxItems
    /\ kind = "token" => FoundByEmail(u)
    /\ kind = "export" => IsAuthenticated(u)
    /\ stored' = stored + 1
    /\ WriteRow(a, ItemId(stored + 1), [subject |-> u, kind |-> kind])
    /\ subject' = [subject EXCEPT ![a] = IF kind = "invitation" THEN None ELSE u]
    /\ Goto(a, "commit")
    /\ UNCHANGED <<env, filed, changes, aborts, todo, cur, want, seen, known>>
-----------------------------------------------------------------------------
(* run_privacy_pending_erasure_poll.                                       *)

IsPage(page, S) ==
    /\ page \subseteq S
    /\ Cardinality(page) = BatchLimit \/ page = S
    /\ Cardinality(page) <= BatchLimit
    /\ \A e \in page, f \in S \ page : e < f

\* Mutant: a retry of failed requests.
FailedIsRetried(r) == r.status \in {"pending", "failed"}

IsPending(r) == r.status = "pending"

\* A row that its subject's user row leads to: by the user's id, or by the address.
IsReachable(r) ==
    \/ r.kind \in {"token", "export"}
    \/ r.kind = "invitation" /\ FoundByEmail(r.subject)

\* list_pending in a new session.
StartPoll(a) ==
    /\ a \in running /\ pc[a] = "idle"
    /\ LET pending == {e \in Erasures : IsPending(rows[ErasureId(e)])}
       IN  \E page \in SUBSET pending :
             IsPage(page, pending) /\ todo' = [todo EXCEPT ![a] = page]
    /\ known' = [known EXCEPT ![a] = {i \in Items : IsReachable(rows[ItemId(i)])}]
    /\ Goto(a, "next")
    /\ UNCHANGED <<tables, env, counts, subject, cur, want, seen>>

\* save() of the request in hand with another status.
SaveStatus(a, e, status) ==
    WriteRow(a, ErasureId(e), [Visible(a, ErasureId(e)) EXCEPT !.status = status])

\* _process_one begins.
ProcessOne(a) ==
    /\ pc[a] = "next"
    /\ \E e \in todo[a] :
         /\ \A f \in todo[a] : e <= f
         /\ todo' = [todo EXCEPT ![a] = @ \ {e}]
         /\ cur' = [cur EXCEPT ![a] = e]
         /\ subject' = [subject EXCEPT ![a] = rows[ErasureId(e)].subject]
         /\ SaveStatus(a, e, "processing")
    /\ Goto(a, "privacy")
    /\ UNCHANGED <<env, counts, want, seen, known>>

\* Delete the items of a kind that belong to user u, as far as task a sees them.
DeleteItems(a, u, kind) ==
    LET gone == {k \in RowIds : k[1] = "item"
                    /\ Visible(a, k) = [subject |-> u, kind |-> kind]}
    IN  /\ work' = [k \in RowIds |-> IF k \in gone THEN AbsentItem ELSE work[k]]
        /\ lock' = [k \in RowIds |-> IF k \in gone THEN a ELSE lock[k]]
        /\ UNCHANGED rows

\* PrivacyExportsSubjectDataEraser: here an expired export is one that is gone.
ErasePrivacy(a) ==
    /\ pc[a] = "privacy"
    /\ DeleteItems(a, subject[a], "export")
    /\ Goto(a, "organizations")
    /\ UNCHANGED <<env, counts, local>>

\* Mutant: invitations are looked up by the address the user has afterwards.
AddressAfterwards(a) ==
    /\ pc[a] = "organizations"
    /\ UNCHANGED tables
    /\ Goto(a, "tokens")
    /\ UNCHANGED <<env, counts, local>>

\* OrganizationInvitationsSubjectDataEraser deletes by the address of the user
\* row, so it finds nothing under the placeholder of an erased user.
EraseInvitations(a) ==
    /\ pc[a] = "organizations"
    /\ IF Visible(a, UserId(subject[a])).email = "own"
         THEN DeleteItems(a, subject[a], "invitation")
         ELSE UNCHANGED tables
    /\ Goto(a, "tokens")
    /\ UNCHANGED <<env, counts, local>>

\* UserSubjectDataEraser: delete_all_for_user,
DeleteTokens(a) ==
    /\ pc[a] = "tokens"
    /\ DeleteItems(a, subject[a], "token")
    /\ Goto(a, "user")
    /\ UNCHANGED <<env, counts, local>>

\* the read of save(),
ReadUser(a) ==
    /\ pc[a] = "user"
    /\ want' = [want EXCEPT ![a] = ErasedUser]
    /\ seen' = [seen EXCEPT ![a] = Visible(a, UserId(subject[a]))]
    /\ Goto(a, "anonymise")
    /\ UNCHANGED <<tables, env, counts, subject, todo, cur, known>>

\* Mutant: a user who is erased already is left as is.
SkipsErasedUser(a) ==
    LET k == UserId(subject[a]) IN
    /\ pc[a] = "anonymise" /\ MayWrite(a, k)
    /\ IF seen[a].email = "erased" THEN UNCHANGED tables
         ELSE WriteRow(a, k, Merge(work[k], seen[a], want[a]))
    /\ Goto(a, "close")
    /\ UNCHANGED <<env, counts, local>>

\* and the flush that the next SELECT triggers.  OrderSubjectDataEraser does
\* nothing.
AnonymiseUser(a) ==
    LET k == UserId(subject[a]) IN
    /\ pc[a] = "anonymise" /\ MayWrite(a, k)
    /\ WriteRow(a, k, Merge(work[k], seen[a], want[a]))
    /\ Goto(a, "close")
    /\ UNCHANGED <<env, counts, local>>

\* The request in hand is done.
NextRequest(a) ==
    /\ Goto(a, "next")
    /\ cur' = [cur EXCEPT ![a] = None]
    /\ subject' = [subject EXCEPT ![a] = None]
    /\ want' = [want EXCEPT ![a] = NoUser] /\ seen' = [seen EXCEPT ![a] = NoUser]
    /\ UNCHANGED <<todo, known>>

CompleteErasure(a) ==
    /\ pc[a] = "close"
    /\ SaveStatus(a, cur[a], "completed")
    /\ NextRequest(a)
    /\ UNCHANGED <<env, counts>>

\* Mutants: an eraser after the users' can raise; the error is logged and the
\* next request is taken.
LaterEraserRaises(a) ==
    /\ pc[a] = "close" /\ aborts < MaxAborts
    /\ aborts' = aborts + 1
    /\ SaveStatus(a, cur[a], "failed")
    /\ NextRequest(a)
    /\ UNCHANGED <<env, filed, stored, changes>>
ErrorIsLogged(a) ==
    /\ pc[a] \in {"privacy", "organizations", "tokens"} /\ aborts < MaxAborts
    /\ aborts' = aborts + 1
    /\ NextRequest(a)
    /\ UNCHANGED <<tables, env, filed, stored, changes>>

\* An eraser raises something other than a database error: FAILED joins what
\* the earlier erasers wrote.  A database error leaves a session that cannot
\* save FAILED either, see Abort.
EraserRaises(a) ==
    /\ pc[a] \in {"privacy", "organizations", "tokens"} /\ aborts < MaxAborts
    /\ aborts' = aborts + 1
    /\ SaveStatus(a, cur[a], "failed")
    /\ NextRequest(a)
    /\ UNCHANGED <<env, filed, stored, changes>>
-----------------------------------------------------------------------------
\* Mutant: the poll closes its session without a commit.
PollForgetsCommit(a) ==
    /\ pc[a] = "commit" \/ (pc[a] = "next" /\ todo[a] = {})
    /\ IF a \in Pollers THEN RollbackRows(Waits, a) ELSE CommitRows(Waits, a)
    /\ EndTask(a)
    /\ UNCHANGED <<env, counts>>

\* A request that is done, a poll at the end of its list.
Commit(a) ==
    /\ pc[a] = "commit" \/ (pc[a] = "next" /\ todo[a] = {})
    /\ CommitRows(Waits, a) /\ EndTask(a)
    /\ UNCHANGED <<env, counts>>

\* A crash, a cancellation or a database error ends the whole batch.
Abort(a) ==
    /\ pc[a] # "idle" /\ aborts < MaxAborts
    /\ aborts' = aborts + 1
    /\ RollbackRows(Waits, a) /\ EndTask(a)
    /\ UNCHANGED <<env, filed, stored, changes>>

\* A worker process, with the background jobs enabled: its scheduler starts.
StartWorker(a) ==
    /\ a \notin running
    /\ running' = running \cup {a}
    /\ UNCHANGED <<tables, tokens, counts, pc, local>>

\* SIGTERM: the shutdown cancels a running poll, and the close of its session
\* rolls back.
StopWorker(a) ==
    /\ a \in running /\ aborts < MaxAborts
    /\ aborts' = aborts + 1
    /\ running' = running \ {a}
    /\ RollbackRows(Waits, a) /\ EndTask(a)
    /\ UNCHANGED <<tokens, filed, stored, changes>>

Step(a) ==
    \/ InsertUser(a) \/ IssueToken(a) \/ FileErasure(a) \/ RereadUser(a) \/ SaveChange(a) \/ ProcessOne(a)
    \/ ErasePrivacy(a) \/ EraseInvitations(a) \/ DeleteTokens(a) \/ ReadUser(a)
    \/ AnonymiseUser(a) \/ CompleteErasure(a) \/ Commit(a)

Next ==
    \/ \E a \in Tasks : Step(a) \/ StartPoll(a) \/ EraserRaises(a) \/ Abort(a)
    \/ \E a \in Pollers : StartWorker(a) \/ StopWorker(a)
    \/ \E u \in Users : Expire(u)
    \/ \E a \in Tasks, u \in Users :
          \/ Register(a, u) \/ Login(a, u)
          \/ RequestErasure(a, u) \/ ChangePassword(a, u)
    \/ \E a \in Tasks, u \in Users, kind \in {"token", "invitation", "export"} :
          LeaveItem(a, u, kind)

\* Running tasks go on, a stopped worker is started again and its interval job
\* fires again.
Fairness ==
    /\ \A a \in Tasks : WF_vars(Step(a))
    /\ \A a \in Pollers : WF_vars(StartWorker(a)) /\ WF_vars(StartPoll(a))

Spec == Init /\ [][Next]_vars

FairSpec == Spec /\ Fairness
-----------------------------------------------------------------------------
(* Properties.                                                             *)

\* GET /privacy/erasure-requests/{id}
ErasureStatus(e) == rows[ErasureId(e)].status

\* No crash and no failing eraser leaves a request in processing, which no list
\* selects and which would refuse the subject every further request.
NoCommittedProcessing == \A e \in Erasures : ErasureStatus(e) # "processing"

\* The conflict check is not backed by a constraint, so a subject can have two
\* active requests; it never has more than requests can overlap.
ActiveErasuresOverlap ==
    \A u \in Users :
        Cardinality({e \in Erasures : /\ rows[ErasureId(e)].subject = u
                                      /\ rows[ErasureId(e)].status \in Active})
            <= Cardinality(Webs)

\* An erasure of the user was completed.
Answered(u) ==
    \E e \in Erasures : rows[ErasureId(e)] = [subject |-> u, status |-> "completed"]

\* An account is anonymised only together with the completion of a request: a
\* failure reported to the subject never comes with a lost account.
ErasedOnlyByCompletion == \A u \in Users : rows[UserId(u)].email = "erased" => Answered(u)

\* The commit that completes a request leaves no password that anybody knows,
\* though a password change may commit between the eraser's read and its write,
CompletionLocksAccount ==
    [][\A e \in Erasures :
          ErasureStatus(e) # "completed" /\ ErasureStatus(e)' = "completed"
            => rows'[UserId(rows'[ErasureId(e)].subject)].password = "unusable"]_vars

\* and nothing of what led back to the subject when the poll began; the
\* invitations must be found before the address they are found by is erased, so
\* they are promised to the first erasure only: a later one may find the address
\* back, see ErasedStaysErased, and a password change that erases it once more
\* behind the poll's list.
CompletionRemovesData ==
    [][\A a \in Pollers, e \in Erasures :
          ErasureStatus(e) # "completed" /\ ErasureStatus(e)' = "completed"
          => LET u == rows[ErasureId(e)].subject
             IN  \A i \in known[a] :
                    rows'[ItemId(i)].subject = u =>
                        rows[ItemId(i)].kind = "invitation" /\ Answered(u)]_vars

\* An erased account whose token has expired, with no request of its subject
\* left, is out of reach for good: no request of the subject gets past login or
\* token, no poll brings the row back, and the subject's rows only become fewer.
\* Before that the token of an erased user works.
IsLockedOut(u) ==
    /\ rows[UserId(u)] = ErasedUser /\ u \notin tokens
    /\ \A a \in Webs : subject[a] # u
OwnedBy(u, table) ==
    {k \in RowIds : /\ k[1] \in {"erasure", "item"} /\ table[k].subject = u
                    /\ k[1] = "item" => table[k].kind # "invitation"}
LockedOut ==
    [][\A u \in Users : IsLockedOut(u) =>
          IsLockedOut(u)' /\ OwnedBy(u, rows') \subseteq OwnedBy(u, rows)]_vars

\* A request that was answered, with success or failure, is not taken up again.
AnswerIsFinal ==
    [][\A e \in Erasures : ErasureStatus(e) \in {"completed", "failed"}
          => UNCHANGED ErasureStatus(e)]_vars

\* After the erasure, when nobody works on the account any more, the user row
\* is anonymised: the design wants to verify just that of a completed erasure.
ErasedStaysErased ==
    \A u \in Users, e \in Erasures :
        (rows[ErasureId(e)] = [subject |-> u, status |-> "completed"]
           /\ \A a \in Tasks : subject[a] # u)
        => rows[UserId(u)].email = "erased"

\* Requests stop arriving in an instance; then every erasure is answered.
EveryErasureIsAnswered ==
    []<>(\A e \in Erasures : ErasureStatus(e) \notin Active)
=============================================================================
