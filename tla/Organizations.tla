----------------------------- MODULE Organizations -----------------------------
(***************************************************************************)
(* Organizations, members and invitations of apps/organizations, with the  *)
(* two checks the database backs by a unique constraint (slug, member) and *)
(* the one it does not (pending invitation), the part of an erasure that   *)
(* works on the same rows, and the password change, which writes the       *)
(* address of the user as well.                                            *)
(*                                                                         *)
(* Waits are PostgreSQL's: for whoever has written the same row or unique  *)
(* key, and for the foreign key of an INSERT, which takes the user it      *)
(* names FOR KEY SHARE, against an UPDATE of that user's unique address.   *)
(* No one updates or deletes an organization, so no one waits for that     *)
(* foreign key.                                                            *)
(***************************************************************************)
EXTENDS Transactions

CONSTANTS
    Users,       \* registered users; a user also stands for the user's address
    Slugs,       \* organizations by their slug
    Webs,        \* concurrent HTTP requests
    Erasers,     \* erasure polls
    Lifetime,    \* _DEFAULT_INVITATION_DAYS
    MaxEvents    \* bound: invitations, ticks of the clock, faults, password changes and
                 \* users whose erasure is closed, together

Invites == 1 .. MaxEvents

UserId(u) == <<"user", u>>
OrganizationId(s) == <<"organization", s>>
MemberId(s, u) == <<"member", s, u>>
InviteId(i) == <<"invite", i>>

ASSUME TasksAssumption == Tasks = Webs \cup Erasers /\ Webs \cap Erasers = {}
ASSUME BoundsAssumption == Lifetime \in Nat /\ MaxEvents \in Nat
ASSUME RowIdsAssumption ==
    RowIds = {UserId(u) : u \in Users} \cup {OrganizationId(s) : s \in Slugs}
                \cup {MemberId(s, u) : s \in Slugs, u \in Users}
                \cup {InviteId(i) : i \in Invites}
ASSUME NoneAssumption == None \notin Users \cup Slugs \cup RowIds /\ None \notin Invites
ASSUME FiniteAssumption == IsFiniteSet(Webs)
ASSUME ErasedIsNoUser == "erased" \notin Users

\* InvitationStatus; no code assigns "revoked".
InvitationStatus == {"pending", "accepted", "revoked"}

\* OrganizationInvitation without its token, which is its number.
Invitation == [organization : Slugs, email : Users, by : Users,
               status : InvitationStatus, exp : Nat]

ASSUME NoneIsNoInvitation == None \notin Invitation

\* A row is None if it does not exist, else the address of a user, the creator of
\* an organization, the user of a membership, or an invitation.
VARIABLES
    now,      \* datetime.now(UTC)
    issued,   \* invitations numbered so far
    aborts,   \* transactions and erasers that a fault hit
    changes,  \* password changes so far
    closed,   \* users of whom an erasure request is completed or failed
    pc,       \* pc[a]: what task a does next
    org,      \* org[a]: the organization a works on
    user,     \* user[a]: the user who creates, invites, accepts or is erased
    guest,    \* guest[a]: the user whose address is invited
    cur,      \* cur[a]: the number of the invitation in hand
    snap,     \* snap[a]: the invitation given to save()
    address,  \* address[a]: the address given to save(), then None if the row has it
    found,    \* found[a]: whether save() has read a row
    todo      \* todo[a]: invitations an erasure has still to delete

local  == <<org, user, guest, cur, snap, address, found, todo>>
world  == <<now, issued, aborts, changes, closed>>
vars   == <<tables, world, pc, local>>

Phase == {"idle", "organization", "creator", "pending", "member", "invite",
          "account", "lookup", "join", "get", "accept",
          "reread", "change", "delete", "user", "anonymise", "commit"}

TypeOK ==
    /\ \A table \in {rows, work} :
         /\ DOMAIN table = RowIds
         /\ \A u \in Users : table[UserId(u)] \in {u, "erased"}
         /\ \A s \in Slugs : table[OrganizationId(s)] \in Users \cup {None}
         /\ \A s \in Slugs, u \in Users : table[MemberId(s, u)] \in {u, None}
         /\ \A i \in Invites : table[InviteId(i)] = None \/ table[InviteId(i)] \in Invitation
    /\ lock \in [RowIds -> Tasks \cup {None}]
    /\ now \in Nat /\ issued \in 0 .. MaxEvents /\ aborts \in Nat /\ changes \in Nat
    /\ closed \subseteq Users
    /\ pc \in [Tasks -> Phase] /\ org \in [Tasks -> Slugs \cup {None}]
    /\ user \in [Tasks -> Users \cup {None}] /\ guest \in [Tasks -> Users \cup {None}]
    /\ cur \in [Tasks -> Invites \cup {None}]
    /\ DOMAIN snap = Tasks /\ \A a \in Tasks : snap[a] = None \/ snap[a] \in Invitation
    /\ address \in [Tasks -> Users \cup {"erased", None}]
    /\ found \in [Tasks -> BOOLEAN] /\ todo \in [Tasks -> SUBSET Invites]

Init ==
    /\ rows = [k \in RowIds |-> IF k[1] = "user" THEN k[2] ELSE None] /\ work = rows
    /\ lock = [k \in RowIds |-> None]
    /\ now = 0 /\ issued = 0 /\ aborts = 0 /\ changes = 0 /\ closed = {}
    /\ pc = [a \in Tasks |-> "idle"] /\ org = [a \in Tasks |-> None]
    /\ user = [a \in Tasks |-> None] /\ guest = [a \in Tasks |-> None]
    /\ cur = [a \in Tasks |-> None] /\ snap = [a \in Tasks |-> None]
    /\ address = [a \in Tasks |-> None]
    /\ found = [a \in Tasks |-> FALSE] /\ todo = [a \in Tasks |-> {}]

\* What has happened, and the invitations under way, are within the bound.
EventsLeft ==
    issued + Cardinality({b \in Webs : pc[b] \in {"pending", "member", "invite"}})
        + now + aborts + changes + Cardinality(closed) < MaxEvents

Goto(a, phase) == pc' = [pc EXCEPT ![a] = phase]

\* The row a task is about to insert, update or delete.
Waits == [a \in Tasks |->
    CASE pc[a] = "organization" -> OrganizationId(org[a])
      [] pc[a] = "join"         -> MemberId(org[a], user[a])
      [] pc[a] = "accept" \/ (pc[a] = "delete" /\ cur[a] # None) -> InviteId(cur[a])
      [] pc[a] \in {"change", "anonymise"} -> UserId(user[a])
      [] OTHER                  -> None]

\* The user that the INSERT of a task refers to: a membership to its user, an
\* invitation to whoever sent it.
Referenced == [a \in Tasks |->
    CASE pc[a] \in {"creator", "invite"}                   -> user[a]
      [] pc[a] = "join" /\ work[Waits[a]] = None            -> user[a]
      [] pc[a] = "accept" /\ ~found[a] /\ work[Waits[a]] = None -> snap[a].by
      [] OTHER                                             -> None]

\* Task b has user u FOR KEY SHARE: it has inserted a row that refers to u.
Inserted(b, k) == lock[k] = b /\ rows[k] = None /\ work[k] # None
SharesKey(b, u) ==
    \/ \E s \in Slugs : Inserted(b, MemberId(s, u))
    \/ \E i \in Invites : Inserted(b, InviteId(i)) /\ work[InviteId(i)].by = u

\* The UPDATE of a task changes the address, so it needs the row FOR UPDATE.
ChangesKey(a) ==
    /\ pc[a] \in {"change", "anonymise"}
    /\ address[a] \notin {None, work[UserId(user[a])]}

\* The tasks whose transactions the next statement of task a has to wait for.
Blockers(a) == {b \in Tasks \ {a} :
    \/ Waits[a] # None /\ lock[Waits[a]] = b
    \/ /\ Referenced[a] # None /\ lock[UserId(Referenced[a])] = b
       /\ work[UserId(Referenced[a])] # rows[UserId(Referenced[a])]
    \/ ChangesKey(a) /\ SharesKey(b, user[a])}

\* Tasks that wait for each other.
Waiting == {b \in Tasks : Blockers(b) # {}}
Circles == {S \in (SUBSET Waiting) \ {{}} : \A b \in S : Blockers(b) \cap S # {}}

EndTask(a) ==
    /\ Goto(a, "idle")
    /\ org' = [org EXCEPT ![a] = None] /\ user' = [user EXCEPT ![a] = None]
    /\ guest' = [guest EXCEPT ![a] = None] /\ cur' = [cur EXCEPT ![a] = None]
    /\ snap' = [snap EXCEPT ![a] = None] /\ address' = [address EXCEPT ![a] = None]
    /\ found' = [found EXCEPT ![a] = FALSE] /\ todo' = [todo EXCEPT ![a] = {}]

\* Mutant: the error leaves the session open.
SessionStaysOpen(a) == EndTask(a) /\ UNCHANGED tables

\* A domain error becomes an HTTPException, an IntegrityError or StaleDataError
\* a 500: either way get_session rolls back.
Refuse(a) == RollbackRows(Waits, a) /\ EndTask(a)

IsMember(a, s, u) == Visible(a, MemberId(s, u)) # None
-----------------------------------------------------------------------------
(* POST /organizations                                                     *)

SlugIsFree(s) == rows[OrganizationId(s)] = None

\* The handler up to the insert: a taken slug is answered 409.
CreateOrganization(a, u, s) ==
    /\ a \in Webs /\ pc[a] = "idle" /\ SlugIsFree(s)
    /\ org' = [org EXCEPT ![a] = s] /\ user' = [user EXCEPT ![a] = u]
    /\ Goto(a, "organization")
    /\ UNCHANGED <<tables, world, guest, cur, snap, address, found, todo>>

\* Mutant: a conflict on the slug is taken for success.
ConflictIsSuccess(a) ==
    /\ pc[a] = "organization" /\ Blockers(a) = {}
    /\ WriteRow(a, OrganizationId(org[a]), user[a])
    /\ Goto(a, "commit")
    /\ UNCHANGED <<world, local>>

\* The INSERT waits for another with the same slug, and fails if that committed.
InsertOrganization(a) ==
    LET k == OrganizationId(org[a]) IN
    /\ pc[a] = "organization" /\ Blockers(a) = {}
    /\ IF work[k] = None
         THEN WriteRow(a, k, user[a]) /\ Goto(a, "creator") /\ UNCHANGED local
         ELSE Refuse(a)
    /\ UNCHANGED world

\* The creator becomes a member in the same transaction.
InsertCreator(a) ==
    /\ pc[a] = "creator" /\ Blockers(a) = {}
    /\ WriteRow(a, MemberId(org[a], user[a]), user[a])
    /\ Goto(a, "commit")
    /\ UNCHANGED <<world, local>>
-----------------------------------------------------------------------------
(* POST /organizations/{id}/invitations                                    *)

\* The organization exists and the caller is a member; neither ever ends.
MayInvite(u, s) == rows[OrganizationId(s)] # None /\ rows[MemberId(s, u)] # None

InviteMember(a, u, s, v) ==
    /\ a \in Webs /\ pc[a] = "idle" /\ MayInvite(u, s)
    /\ EventsLeft
    /\ org' = [org EXCEPT ![a] = s] /\ user' = [user EXCEPT ![a] = u]
    /\ guest' = [guest EXCEPT ![a] = v]
    /\ Goto(a, "pending")
    /\ UNCHANGED <<tables, world, cur, snap, address, found, todo>>

\* find_pending_by_organization_and_email, which counts lapsed invitations too.
IsPendingFor(r, s, v) ==
    r # None /\ r.organization = s /\ r.email = v /\ r.status = "pending"

\* Mutant: the caller is trusted not to ask twice.
CheckNothing(a) ==
    /\ pc[a] = "pending"
    /\ Goto(a, "member") /\ UNCHANGED <<tables, local>>
    /\ UNCHANGED world

CheckPending(a) ==
    /\ pc[a] = "pending"
    /\ IF \E i \in Invites : IsPendingFor(rows[InviteId(i)], org[a], guest[a])
         THEN Refuse(a)
         ELSE Goto(a, "member") /\ UNCHANGED <<tables, local>>
    /\ UNCHANGED world

\* get_by_email and the membership of that user; then the invitation is added
\* to the session.  The mail with the token follows at once, the response with the
\* token after the commit; before that no request finds the token.
CheckMember(a) ==
    /\ pc[a] = "member"
    /\ IF rows[UserId(guest[a])] = guest[a] /\ IsMember(a, org[a], guest[a])
         THEN Refuse(a)
         ELSE /\ snap' = [snap EXCEPT ![a] =
                    [organization |-> org[a], email |-> guest[a], by |-> user[a],
                     status |-> "pending", exp |-> now + Lifetime]]
              /\ Goto(a, "invite")
              /\ UNCHANGED <<tables, org, user, guest, cur, address, found, todo>>
    /\ UNCHANGED world

\* The INSERT, at the flush of commit; the token is new.
InsertInvitation(a) ==
    /\ pc[a] = "invite" /\ Blockers(a) = {} /\ issued < MaxEvents
    /\ issued' = issued + 1
    /\ WriteRow(a, InviteId(issued + 1), snap[a])
    /\ cur' = [cur EXCEPT ![a] = issued + 1]
    /\ Goto(a, "commit")
    /\ UNCHANGED <<now, aborts, changes, closed, org, user, guest, snap, address, found, todo>>
-----------------------------------------------------------------------------
(* POST /organizations/invitations/accept                                  *)

\* An invitation that is there, pending and not lapsed.
IsUsable(r) == r # None /\ r.status = "pending" /\ now <= r.exp

\* find_by_token_hash.
FindByTokenHash(i) == rows[InviteId(i)]

\* The handler up to the reads that follow; any other token is refused.
AcceptInvitation(a, u, i) ==
    LET r == FindByTokenHash(i) IN
    /\ a \in Webs /\ pc[a] = "idle" /\ IsUsable(r)
    /\ org' = [org EXCEPT ![a] = r.organization] /\ user' = [user EXCEPT ![a] = u]
    /\ cur' = [cur EXCEPT ![a] = i]
    /\ snap' = [snap EXCEPT ![a] = [r EXCEPT !.status = "accepted"]]
    /\ Goto(a, "account")
    /\ UNCHANGED <<tables, world, guest, address, found, todo>>

\* Mutant: whoever has the token may use it.
TokenIsEnough(a) ==
    /\ pc[a] = "account"
    /\ Goto(a, "lookup") /\ UNCHANGED <<tables, local>>
    /\ UNCHANGED world

\* get_by_id of the caller, whose address must be the invited one.
CheckAccount(a) ==
    /\ pc[a] = "account"
    /\ IF rows[UserId(user[a])] = snap[a].email
         THEN Goto(a, "lookup") /\ UNCHANGED <<tables, local>>
         ELSE Refuse(a)
    /\ UNCHANGED world

\* A member already: only the invitation is marked.
FindMembership(a) ==
    /\ pc[a] = "lookup"
    /\ Goto(a, IF IsMember(a, org[a], user[a]) THEN "get" ELSE "join")
    /\ UNCHANGED <<tables, world, local>>

\* Mutant: an IntegrityError is swallowed, and the INSERT with it.
JoinFailsQuietly(a) ==
    /\ pc[a] = "join"
    /\ IF Blockers(a) = {}
         THEN WriteRow(a, MemberId(org[a], user[a]), user[a])
         ELSE UNCHANGED tables
    /\ Goto(a, "get")
    /\ UNCHANGED <<world, local>>

\* The INSERT of the member, flushed by the next SELECT; uq_organization_member_org_user
\* makes it wait for a concurrent one and fail if that committed, and the foreign
\* key makes it wait for an erasure of the user.
JoinOrganization(a) ==
    LET k == MemberId(org[a], user[a]) IN
    /\ pc[a] = "join" /\ Blockers(a) = {}
    /\ IF work[k] = None
         THEN WriteRow(a, k, user[a]) /\ Goto(a, "get") /\ UNCHANGED local
         ELSE Refuse(a)
    /\ UNCHANGED world

\* save() of the invitation: session.get decides between UPDATE and INSERT.
GetInvitation(a) ==
    /\ pc[a] = "get"
    /\ found' = [found EXCEPT ![a] = rows[InviteId(cur[a])] # None]
    /\ Goto(a, "accept")
    /\ UNCHANGED <<tables, world, org, user, guest, cur, snap, address, todo>>

\* The flush of commit: an UPDATE of a row that is gone by then, or an INSERT of
\* one that is back, raises.
MarkAccepted(a) ==
    LET k == InviteId(cur[a]) IN
    /\ pc[a] = "accept" /\ Blockers(a) = {}
    /\ IF found[a] = (work[k] # None)
         THEN WriteRow(a, k, snap[a]) /\ Goto(a, "commit") /\ UNCHANGED local
         ELSE Refuse(a)
    /\ UNCHANGED world
-----------------------------------------------------------------------------
(* POST /auth/me/password.                                                 *)

\* get_by_id, and verify of the current password, which may fail or not.  Nothing
\* but the address matters here.
ChangePassword(a, u) ==
    /\ a \in Webs /\ pc[a] = "idle" /\ EventsLeft
    /\ changes' = changes + 1
    /\ user' = [user EXCEPT ![a] = u] /\ address' = [address EXCEPT ![a] = rows[UserId(u)]]
    /\ Goto(a, "reread")
    /\ UNCHANGED <<tables, now, issued, aborts, closed, org, guest, cur, snap, found, todo>>

\* save() reads the row again, and will write the address if that differs.
ToWrite(new, seen) == IF new = seen THEN None ELSE new

RereadUser(a) ==
    /\ pc[a] = "reread"
    /\ address' = [address EXCEPT ![a] = ToWrite(@, rows[UserId(user[a])])]
    /\ Goto(a, "change")
    /\ UNCHANGED <<tables, world, org, user, guest, cur, snap, found, todo>>

\* The UPDATE of a user, which an INSERT that refers to the user keeps waiting if it
\* changes the address.
UpdateUser(a) ==
    LET k == UserId(user[a]) IN
    /\ Blockers(a) = {}
    /\ WriteRow(a, k, IF address[a] = None THEN work[k] ELSE address[a])
    /\ Goto(a, "commit")
    /\ UNCHANGED <<world, local>>

SaveChange(a) == pc[a] = "change" /\ UpdateUser(a)
-----------------------------------------------------------------------------
(* The erasure of a user: invitations by address, then the user row.       *)

\* The address of the user row selects the invitations.  Bound: of a user who is
\* erased, whose placeholder selects none, no further request is processed.
StartErasure(a, u) ==
    /\ a \in Erasers /\ pc[a] = "idle" /\ rows[UserId(u)] = u
    /\ user' = [user EXCEPT ![a] = u]
    /\ todo' = [todo EXCEPT ![a] =
          {i \in Invites : rows[InviteId(i)] # None /\ rows[InviteId(i)].email = u}]
    /\ Goto(a, "delete")
    /\ UNCHANGED <<tables, world, org, guest, cur, snap, address, found>>

\* delete_all_for_email goes from row to row
NextInvitation(a) ==
    /\ pc[a] = "delete" /\ cur[a] = None
    /\ \/ \E i \in todo[a] :
            /\ cur' = [cur EXCEPT ![a] = i]
            /\ todo' = [todo EXCEPT ![a] = @ \ {i}]
            /\ UNCHANGED pc
       \/ todo[a] = {} /\ Goto(a, "user") /\ UNCHANGED <<cur, todo>>
    /\ UNCHANGED <<tables, world, org, user, guest, snap, address, found>>

\* and waits for each of them.
DeleteInvitation(a) ==
    /\ pc[a] = "delete" /\ cur[a] # None /\ Blockers(a) = {}
    /\ WriteRow(a, InviteId(cur[a]), None)
    /\ cur' = [cur EXCEPT ![a] = None]
    /\ UNCHANGED <<world, pc, org, user, guest, snap, address, found, todo>>

\* The eraser of users raises: the request is FAILED, and what was deleted stays so.
UserEraserRaises(a) ==
    /\ pc[a] = "user" /\ EventsLeft
    /\ aborts' = aborts + 1
    /\ Goto(a, "commit")
    /\ UNCHANGED <<tables, now, issued, changes, closed, local>>

\* UserSubjectDataEraser, the read of save()
ReadUser(a) ==
    /\ pc[a] = "user"
    /\ address' = [address EXCEPT ![a] = ToWrite("erased", rows[UserId(user[a])])]
    /\ Goto(a, "anonymise")
    /\ UNCHANGED <<tables, world, org, user, guest, cur, snap, found, todo>>

\* Mutant: the user is deleted.
DeleteUser(a) ==
    /\ pc[a] = "anonymise" /\ Blockers(a) = {}
    /\ WriteRow(a, UserId(user[a]), None)
    /\ Goto(a, "commit")
    /\ UNCHANGED <<world, local>>

\* and the flush; the row stays.
AnonymiseUser(a) == pc[a] = "anonymise" /\ UpdateUser(a)
-----------------------------------------------------------------------------
\* session.commit() of the request, or of the poll, whose erasure is closed with it.
Commit(a) ==
    /\ pc[a] = "commit"
    /\ CommitRows(Waits, a) /\ EndTask(a)
    /\ closed' = IF a \in Erasers THEN closed \cup {user[a]} ELSE closed
    /\ UNCHANGED <<now, issued, aborts, changes>>

\* A crash, a cancellation or a database error.
Abort(a) ==
    /\ pc[a] # "idle" /\ EventsLeft
    /\ aborts' = aborts + 1
    /\ RollbackRows(Waits, a) /\ EndTask(a)
    /\ UNCHANGED <<now, issued, changes, closed>>

\* PostgreSQL aborts one of the transactions that wait for each other.
DeadlockVictim(a) ==
    /\ Blockers(a) # {} /\ a \in UNION Circles
    /\ Refuse(a)
    /\ UNCHANGED world

Tick ==
    /\ EventsLeft /\ now' = now + 1
    /\ UNCHANGED <<tables, issued, aborts, changes, closed, pc, local>>

Step(a) ==
    \/ InsertOrganization(a) \/ InsertCreator(a)
    \/ CheckPending(a) \/ CheckMember(a) \/ InsertInvitation(a)
    \/ CheckAccount(a) \/ FindMembership(a) \/ JoinOrganization(a)
    \/ GetInvitation(a) \/ MarkAccepted(a)
    \/ RereadUser(a) \/ SaveChange(a)
    \/ NextInvitation(a) \/ DeleteInvitation(a) \/ UserEraserRaises(a)
    \/ ReadUser(a) \/ AnonymiseUser(a) \/ Commit(a) \/ DeadlockVictim(a)

Next ==
    \/ \E a \in Tasks : Step(a) \/ Abort(a)
    \/ \E a \in Tasks, u \in Users, s \in Slugs : CreateOrganization(a, u, s)
    \/ \E a \in Tasks, u, v \in Users, s \in Slugs : InviteMember(a, u, s, v)
    \/ \E a \in Tasks, u \in Users, i \in Invites : AcceptInvitation(a, u, i)
    \/ \E a \in Tasks, u \in Users : ChangePassword(a, u) \/ StartErasure(a, u)
    \/ Tick

Spec == Init /\ [][Next]_vars
-----------------------------------------------------------------------------
(* What the reads answer.                                                  *)

\* GET /organizations/{id}/members
ListOrganizationMembers(s) == {u \in Users : rows[MemberId(s, u)] # None}

\* GET /auth/me: the memberships of the user, without those whose organization
\* is not found.
ListUserOrganizations(u) ==
    {s \in Slugs : rows[MemberId(s, u)] # None /\ rows[OrganizationId(s)] # None}
-----------------------------------------------------------------------------
(* Properties.                                                             *)

\* The members of an organization always include the one who created it: two
\* requests for one slug race to the constraint, and the loser's membership goes
\* with it.
CreatorIsMember ==
    \A s \in Slugs : LET u == rows[OrganizationId(s)]
                     IN  u # None => u \in ListOrganizationMembers(s)

\* The user who accepted an invitation finds the organization among the own
\* ones, also when two requests presented it, or two invitations, at the same time.
AcceptedIsMember ==
    \A i \in Invites : LET r == rows[InviteId(i)]
        IN  r # None /\ r.status = "accepted"
              => r.organization \in ListUserOrganizations(r.email)

\* Nobody else is a member: an accepted invitation to their own address shows
\* why, unless an erasure request of theirs, completed or failed, has deleted it
\* with all invitations to the address.  What counts is the request and not the
\* row, to which a password change can bring the address back.
MembersWereInvited ==
    \A s \in Slugs, u \in Users :
        u \in ListOrganizationMembers(s) =>
            \/ rows[OrganizationId(s)] = u
            \/ u \in closed
            \/ \E i \in Invites : LET r == rows[InviteId(i)]
                  IN  r # None /\ r.organization = s /\ r.email = u /\ r.status = "accepted"

\* No constraint backs the check for a pending invitation: an address can have
\* two in an organization, but no more than requests can overlap.
PendingInvitesOverlap ==
    \A s \in Slugs, v \in Users :
        Cardinality({i \in Invites : IsPendingFor(rows[InviteId(i)], s, v)})
            <= Cardinality(Webs)

\* Nobody waits for a transaction that has ended, and in a circle only because of
\* one pair: an acceptance that has joined, so that its foreign key keeps the
\* erasure of the same user from changing the address, and waits for the
\* invitation which that erasure has deleted.
WaitsEnd ==
    /\ \A a \in Tasks : \A b \in Blockers(a) : pc[b] # "idle"
    /\ \A S \in Circles :
          \E e \in S \cap Erasers, w \in S :
              pc[e] = "anonymise" /\ pc[w] = "accept" /\ user[w] = user[e]
=============================================================================
