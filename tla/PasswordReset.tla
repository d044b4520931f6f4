---------------------------- MODULE PasswordReset ----------------------------
(***************************************************************************)
(* Password reset tokens of apps/auth and apps/users: a request revokes    *)
(* the user's active tokens and stores a pending one, a poll mails pending *)
(* tokens and marks them, and the holder of a mailed token completes the   *)
(* reset.  The mail leaves the program before the poll commits.            *)
(***************************************************************************)
EXTENDS Transactions

CONSTANTS
    Users,       \* registered users
    Webs,        \* concurrent HTTP requests
    Pollers,     \* mail polls: one per worker process (max_instances=1)
    BatchLimit,  \* _PASSWORD_RESET_NOTIFICATION_BATCH_SIZE
    TokenTTL,    \* lifetime of a token
    MaxTokens,   \* bound: tokens ever requested
    MaxNow,      \* bound: how far the clock runs
    MaxAborts    \* bound: failing sends, crashes and database errors

\* A token's number is the order of created_at.
Tokens == 1 .. MaxTokens

ASSUME TasksAssumption == Tasks = Webs \cup Pollers /\ Webs \cap Pollers = {}
ASSUME TokensAssumption == MaxTokens \in Nat /\ RowIds = Tokens
ASSUME BoundsAssumption ==
    /\ BatchLimit \in Nat \ {0} /\ TokenTTL \in Nat \ {0}
    /\ MaxNow \in Nat /\ MaxAborts \in Nat
ASSUME NoneAssumption == None \notin Nat \cup Users
ASSUME FiniteAssumption == IsFiniteSet(Webs) /\ IsFiniteSet(Pollers)

\* UserPasswordResetTokenStatus; "absent" is the row that does not exist.
Status == {"absent", "pending", "notified", "revoked", "used"}

\* The columns of user_password_reset_tokens; plain: pending_plain_token is set.
Row == [user : Users \cup {None}, status : Status, plain : BOOLEAN, exp : Nat]

AbsentRow == [user |-> None, status |-> "absent", plain |-> FALSE, exp |-> 0]

VARIABLES
    mails,   \* mails[t]: how often token t was mailed
    resets,  \* resets[t]: committed password changes made with token t
    now,     \* datetime.now(UTC)
    minted,  \* tokens generated so far
    aborts,  \* transactions that a fault rolled back
    pc,      \* pc[a]: what task a does next
    user,    \* user[a]: the user whose reset a requests
    todo,    \* todo[a]: token ids still to revoke or to mail
    cur      \* cur[a]: the token in hand

local == <<user, todo, cur>>
world == <<mails, resets, now, minted, aborts>>
vars  == <<tables, world, pc, local>>

Phase == {"idle", "revoke", "mail", "mark", "use", "password", "commit"}

TypeOK ==
    /\ rows \in [Tokens -> Row] /\ work \in [Tokens -> Row]
    /\ lock \in [Tokens -> Tasks \cup {None}]
    /\ mails \in [Tokens -> Nat] /\ resets \in [Tokens -> Nat]
    /\ now \in Nat /\ minted \in 0 .. MaxTokens /\ aborts \in Nat
    /\ pc \in [Tasks -> Phase] /\ user \in [Tasks -> Users \cup {None}]
    /\ todo \in [Tasks -> SUBSET Tokens]
    /\ cur \in [Tasks -> Tokens \cup {None}]

Init ==
    /\ rows = [t \in Tokens |-> AbsentRow] /\ work = rows
    /\ lock = [t \in Tokens |-> None]
    /\ mails = [t \in Tokens |-> 0] /\ resets = [t \in Tokens |-> 0]
    /\ now = 0 /\ minted = 0 /\ aborts = 0
    /\ pc = [a \in Tasks |-> "idle"] /\ user = [a \in Tasks |-> None]
    /\ todo = [a \in Tasks |-> {}] /\ cur = [a \in Tasks |-> None]

Goto(a, phase) == pc' = [pc EXCEPT ![a] = phase]

\* The row a task is about to update.
Waits == [a \in Tasks |-> IF pc[a] \in {"revoke", "mark", "use"} THEN cur[a] ELSE None]

\* The task ends and its locals are gone.
EndTask(a) ==
    /\ Goto(a, "idle")
    /\ user' = [user EXCEPT ![a] = None]
    /\ todo' = [todo EXCEPT ![a] = {}]
    /\ cur' = [cur EXCEPT ![a] = None]

\* Mutant: only mailed tokens are revoked.
RevokesNotified == {"notified"}

\* The statuses revoke_active_for_user selects.
Active == {"pending", "notified"}

\* The rows list_pending_notifications and the mark's WHERE clause select.
IsMailable(r) == r.status = "pending" /\ r.plain

\* Mutant: the mark clears the plain token and leaves the status alone.
ClearsPlainOnly(r) == [r EXCEPT !.plain = FALSE]

Notified(r) == [r EXCEPT !.status = "notified", !.plain = FALSE]

-----------------------------------------------------------------------------
(* POST /auth/password-reset/request for a registered address.             *)

\* get_by_email, and the rows the revoking UPDATE finds when it starts.
RequestReset(a, u) ==
    /\ a \in Webs /\ pc[a] = "idle"
    /\ minted + Cardinality({b \in Webs : pc[b] = "revoke"}) < MaxTokens
    /\ user' = [user EXCEPT ![a] = u]
    /\ todo' = [todo EXCEPT ![a] =
                  {t \in Tokens : rows[t].user = u /\ rows[t].status \in Active}]
    /\ Goto(a, "revoke")
    /\ UNCHANGED <<tables, world, cur>>

\* The UPDATE goes to the next row it found ...
NextRevoked(a) ==
    /\ pc[a] = "revoke" /\ cur[a] = None
    /\ \E t \in todo[a] :
          /\ cur' = [cur EXCEPT ![a] = t]
          /\ todo' = [todo EXCEPT ![a] = @ \ {t}]
    /\ UNCHANGED <<tables, world, pc, user>>

\* ... and, once it has the row's lock, looks at its status again.
RevokeRow(a) ==
    LET t == cur[a] IN
    /\ pc[a] = "revoke" /\ t # None /\ MayWrite(a, t)
    /\ IF work[t].status \in Active
         THEN WriteRow(a, t, [work[t] EXCEPT !.status = "revoked"])
         ELSE UNCHANGED tables
    /\ cur' = [cur EXCEPT ![a] = None]
    /\ UNCHANGED <<world, pc, user, todo>>

\* Mutants: the row is saved without its expires_at; the token is saved before
\* the revoking UPDATE, which then finds it too.
TokenNeverExpires(a) ==
    /\ pc[a] = "revoke" /\ todo[a] = {} /\ cur[a] = None /\ minted < MaxTokens
    /\ minted' = minted + 1
    /\ WriteRow(a, minted + 1, [user |-> user[a], status |-> "pending",
                                plain |-> TRUE, exp |-> None])
    /\ Goto(a, "commit")
    /\ UNCHANGED <<mails, resets, now, aborts, local>>
SaveBeforeRevoke(a) ==
    /\ pc[a] = "revoke" /\ todo[a] = {} /\ cur[a] = None /\ minted < MaxTokens
    /\ minted' = minted + 1
    /\ WriteRow(a, minted + 1, [user |-> user[a], status |-> "revoked",
                                plain |-> TRUE, exp |-> now + TokenTTL])
    /\ Goto(a, "commit")
    /\ UNCHANGED <<mails, resets, now, aborts, local>>

\* The new token is added to the session; commit inserts it.
SaveToken(a) ==
    /\ pc[a] = "revoke" /\ todo[a] = {} /\ cur[a] = None /\ minted < MaxTokens
    /\ minted' = minted + 1
    /\ WriteRow(a, minted + 1, [user |-> user[a], status |-> "pending",
                                plain |-> TRUE, exp |-> now + TokenTTL])
    /\ Goto(a, "commit")
    /\ UNCHANGED <<mails, resets, now, aborts, local>>
-----------------------------------------------------------------------------
(* run_password_reset_notification_poll.                                   *)

\* page: the oldest BatchLimit elements of S.
IsPage(page, S) ==
    /\ page \subseteq S
    /\ Cardinality(page) = BatchLimit \/ page = S
    /\ Cardinality(page) <= BatchLimit
    /\ \A t \in page, s \in S \ page : t < s

\* A session is opened and the pending tokens are listed.
StartPoll(a) ==
    /\ a \in Pollers /\ pc[a] = "idle"
    /\ LET pending == {t \in Tokens : IsMailable(rows[t])}
       IN  \E page \in SUBSET pending :
             IsPage(page, pending) /\ todo' = [todo EXCEPT ![a] = page]
    /\ Goto(a, "mail")
    /\ UNCHANGED <<tables, world, user, cur>>

\* The next listed token is mailed to its user's address ...
SendMail(a) ==
    /\ pc[a] = "mail"
    /\ \E t \in todo[a] :
          /\ \A s \in todo[a] : t <= s
          /\ todo' = [todo EXCEPT ![a] = @ \ {t}]
          /\ cur' = [cur EXCEPT ![a] = t]
          /\ mails' = [mails EXCEPT ![t] = @ + 1]
    /\ Goto(a, "mark")
    /\ UNCHANGED <<tables, resets, now, minted, aborts, user>>

\* Mutant: a failing send is logged and the row is marked all the same.
SendFailsQuietly(a) ==
    /\ pc[a] = "mail" /\ aborts < MaxAborts
    /\ \E t \in todo[a] :
          /\ todo' = [todo EXCEPT ![a] = @ \ {t}]
          /\ cur' = [cur EXCEPT ![a] = t]
    /\ Goto(a, "mark")
    /\ UNCHANGED <<tables, world, user>>

\* ... or the sender raises, with the mail delivered or not: the poll ends and
\* its earlier marks are undone.
SendFails(a) ==
    /\ pc[a] = "mail" /\ aborts < MaxAborts
    /\ \E t \in todo[a] :
          /\ \A s \in todo[a] : t <= s
          /\ mails' \in {mails, [mails EXCEPT ![t] = @ + 1]}
    /\ aborts' = aborts + 1
    /\ RollbackRows(Waits, a) /\ EndTask(a)
    /\ UNCHANGED <<resets, now, minted>>

\* mark_notified_and_clear_pending_plain_token: no row is updated if the token
\* was revoked while its mail was sent.
MarkNotified(a) ==
    LET t == cur[a] IN
    /\ pc[a] = "mark" /\ MayWrite(a, t)
    /\ IF IsMailable(work[t]) THEN WriteRow(a, t, Notified(work[t])) ELSE UNCHANGED tables
    /\ cur' = [cur EXCEPT ![a] = None]
    /\ Goto(a, "mail")
    /\ UNCHANGED <<world, user, todo>>
-----------------------------------------------------------------------------
(* POST /auth/password-reset/complete.  The use case itself is imported    *)
(* but not in the repository; it is modelled from the two operations the   *)
(* token repository offers it and from the router's handling of its error. *)

\* find_valid_notified_by_token_hash: only somebody who got the mail has the token.
CompleteReset(a, t) ==
    /\ a \in Webs /\ pc[a] = "idle" /\ mails[t] > 0
    /\ rows[t].status = "notified" /\ rows[t].exp > now
    /\ cur' = [cur EXCEPT ![a] = t]
    /\ Goto(a, "use")
    /\ UNCHANGED <<tables, world, user, todo>>

\* Mutant: the UPDATE relies on the status that the SELECT has seen.
UseWhatWasFound(r) == TRUE

IsNotified(r) == r.status = "notified"

\* mark_used_if_notified; no row updated is an invalid token, answered with 400.
MarkUsed(a) ==
    LET t == cur[a] IN
    /\ pc[a] = "use" /\ MayWrite(a, t)
    /\ IF IsNotified(work[t])
         THEN /\ WriteRow(a, t, [work[t] EXCEPT !.status = "used"])
              /\ Goto(a, "password")
              /\ UNCHANGED local
         ELSE RollbackRows(Waits, a) /\ EndTask(a)
    /\ UNCHANGED world

\* The new password is saved and the request commits.
SavePassword(a) ==
    LET t == cur[a] IN
    /\ pc[a] = "password"
    /\ resets' = [resets EXCEPT ![t] = @ + 1]
    /\ CommitRows(Waits, a) /\ EndTask(a)
    /\ UNCHANGED <<mails, now, minted, aborts>>
-----------------------------------------------------------------------------
(* The end of a session, faults and time.                                  *)

\* Mutant: the poll closes its session without a commit.
PollForgetsCommit(a) ==
    /\ pc[a] = "commit" \/ (pc[a] = "mail" /\ todo[a] = {})
    /\ IF a \in Pollers THEN RollbackRows(Waits, a) ELSE CommitRows(Waits, a)
    /\ EndTask(a)
    /\ UNCHANGED world

\* A request that is done, a poll at the end of its list.
Commit(a) ==
    /\ pc[a] = "commit" \/ (pc[a] = "mail" /\ todo[a] = {})
    /\ CommitRows(Waits, a) /\ EndTask(a)
    /\ UNCHANGED world

\* A crash, a cancellation or a database error.
Abort(a) ==
    /\ pc[a] # "idle" /\ aborts < MaxAborts
    /\ aborts' = aborts + 1
    /\ RollbackRows(Waits, a) /\ EndTask(a)
    /\ UNCHANGED <<mails, resets, now, minted>>

DeadlockVictim(a) ==
    /\ Deadlocked(Waits, a)
    /\ aborts' = aborts + 1
    /\ RollbackRows(Waits, a) /\ EndTask(a)
    /\ UNCHANGED <<mails, resets, now, minted>>

Tick ==
    /\ now < MaxNow /\ now' = now + 1
    /\ UNCHANGED <<tables, mails, resets, minted, aborts, pc, local>>

Step(a) ==
    \/ NextRevoked(a) \/ RevokeRow(a) \/ SaveToken(a)
    \/ SendMail(a) \/ MarkNotified(a) \/ MarkUsed(a) \/ SavePassword(a)
    \/ Commit(a) \/ DeadlockVictim(a)

Next ==
    \/ \E a \in Tasks : Step(a) \/ StartPoll(a) \/ SendFails(a) \/ Abort(a)
    \/ \E a \in Tasks, u \in Users : RequestReset(a, u)
    \/ \E a \in Tasks, t \in Tokens : CompleteReset(a, t)
    \/ Tick

\* Running tasks go on and the interval job fires again.
Fairness ==
    /\ \A a \in Tasks : WF_vars(Step(a))
    /\ \A a \in Pollers : WF_vars(StartPoll(a))

Spec == Init /\ [][Next]_vars

FairSpec == Spec /\ Fairness
-----------------------------------------------------------------------------
(* Properties.                                                             *)

\* A user never has more usable tokens than requests can overlap: a request
\* revokes every active token committed before it, pending or mailed, even one
\* that the poll is marking meanwhile.  The table has no constraint for it.
ActiveTokensOverlap ==
    \A u \in Users :
        Cardinality({t \in Tokens : rows[t].user = u /\ rows[t].status \in Active})
            <= Cardinality(Webs)

\* Whoever asked for a reset is left with a token that is not revoked: the
\* revocation of the old tokens and the insertion of the new one are committed
\* together, and another request revokes the new one only for its own.
RevokedHasSuccessor ==
    \A t \in Tokens : rows[t].status = "revoked" =>
        \E s \in Tokens : rows[s].user = rows[t].user
                         /\ rows[s].status \in Active \cup {"used"}

\* A token counts as notified only if its mail went out, whatever fails between
\* the send, the mark and the commit of the batch.
NotifiedWasMailed ==
    \A t \in Tokens : rows[t].status \in {"notified", "used"} => mails[t] > 0

\* Retries are paid for by faults: apart from one mail per worker a token is
\* mailed again only when a poll that mailed it was rolled back.
MailsArePaidFor ==
    \A t \in Tokens : mails[t] <= Cardinality(Pollers) + aborts

\* A token changes the password once, however many requests present it at the
\* same time, and never after it was revoked.
SingleUse ==
    \A t \in Tokens : resets[t] = IF rows[t].status = "used" THEN 1 ELSE 0

\* Requests stop arriving in an instance.  Then every token is mailed or
\* superseded and every request ends, although a failing send undoes the marks
\* of its batch and polls and requests wait for each other's row locks.
EverythingIsServed ==
    []<>(/\ \A t \in Tokens : rows[t].status # "pending"
         /\ \A a \in Webs : pc[a] = "idle")
=============================================================================
