---------------------- MODULE OrganizationInvites_proofs ----------------------
(***************************************************************************)
(* Proofs about the invitations of Organizations, for every number of      *)
(* users, organizations, requests, erasures and events: who is a member    *)
(* and did not create the organization was invited, an address has no more *)
(* pending invitations than requests can overlap, and nobody waits for a   *)
(* transaction that has ended, or in a circle other than the one of an     *)
(* acceptance and the erasure of the same user.                            *)
(***************************************************************************)
EXTENDS Organizations_proofs, FiniteSetTheorems

\* Who does what: requests create, invite and accept, erasures delete, and a task
\* that has ended has nothing left to do.
Kinds(a) ==
    /\ pc[a] = "idle" => cur[a] = None /\ todo[a] = {}
    /\ pc[a] \in {"organization", "creator", "reread", "change"} \cup Inviting \cup Accepting =>
          a \in Webs
    /\ pc[a] \in {"delete", "user", "anonymise"} => a \in Erasers
    /\ pc[a] \in {"user", "anonymise"} => cur[a] = None
    /\ pc[a] \in Accepting => snap[a].status = "accepted"

\* Invitations that are not issued yet are nowhere.
Issued ==
    \A i \in Invites : i > issued =>
        /\ rows[InviteId(i)] = None /\ work[InviteId(i)] = None /\ lock[InviteId(i)] = None
        /\ \A a \in Tasks : cur[a] # i /\ i \notin todo[a]

\* Task a has the lock on invitation i: it waited for it and has not written it
\* yet, has issued it, has marked it or has deleted it.
HoldsInvite(a, i) ==
    LET c == rows[InviteId(i)]
        w == work[InviteId(i)]
    IN  \/ pc[a] \in {"accept", "delete"} /\ cur[a] = i /\ w = c
        \/ pc[a] = "commit" /\ a \in Webs /\ cur[a] = i /\ c = None /\ w # None /\ w.status = "pending"
        \/ pc[a] = "commit" /\ a \in Webs /\ w # None /\ w.status = "accepted"
        \/ pc[a] \in {"delete", "user", "anonymise", "commit"} /\ a \in Erasers /\ w = None

InvitesHeld ==
    \A i \in Invites :
        /\ lock[InviteId(i)] = None => work[InviteId(i)] = rows[InviteId(i)]
        /\ \A a \in Tasks : lock[InviteId(i)] = a => HoldsInvite(a, i)

\* So it is with users: only what is done to a user locks the row.
UsersHeld ==
    \A u \in Users :
        /\ lock[UserId(u)] = None => work[UserId(u)] = rows[UserId(u)]
        /\ \A a \in Tasks : lock[UserId(u)] = a =>
              /\ pc[a] \in {"change", "anonymise", "commit"} /\ user[a] = u
              /\ pc[a] # "commit" => work[UserId(u)] = rows[UserId(u)]

\* A membership commits with the organization or with the acceptance.
Welcomes(a) ==
    \A s \in Slugs, u \in Users : pc[a] = "commit" /\ Joins(a, s, u) =>
        \/ lock[OrganizationId(s)] = a
        \/ \E i \in Invites : LET r == work[InviteId(i)]
              IN  /\ lock[InviteId(i)] = a /\ r # None
                  /\ r.organization = s /\ r.email = u /\ r.status = "accepted"

Follows(a) == Kinds(a) /\ Welcomes(a)

Locking == Issued /\ InvitesHeld /\ UsersHeld /\ \A a \in Tasks : Follows(a)
-------------------------------------------------------------------------------
(* What the steps do to the invitations.                                     *)

\* A request or an erasure begins.
Starts(a) ==
    /\ pc[a] = "idle" /\ UNCHANGED <<rows, work, lock, issued>> /\ OthersStay(a)
    /\ \/ /\ a \in Webs /\ pc'[a] \in {"organization", "pending", "reread"}
          /\ cur'[a] = cur[a] /\ todo'[a] = todo[a]
       \/ /\ a \in Webs /\ pc'[a] = "account" /\ todo'[a] = todo[a]
          /\ \E i \in Invites : /\ cur'[a] = i /\ rows[InviteId(i)] # None
                                /\ snap'[a] = [rows[InviteId(i)] EXCEPT !.status = "accepted"]
       \/ /\ a \in Erasers /\ pc'[a] = "delete" /\ cur'[a] = cur[a]
          /\ todo'[a] = {i \in Invites : rows[InviteId(i)] # None
                                           /\ rows[InviteId(i)].email = user'[a]}

\* A check passes, or an erasure goes on to the next invitation.
Reads(a) ==
    /\ UNCHANGED <<rows, work, lock, issued>> /\ OthersStay(a)
    /\ org'[a] = org[a] /\ user'[a] = user[a] /\ guest'[a] = guest[a]
    /\ pc'[a] \in Accepting => snap'[a] = snap[a]
    /\ \/ /\ pc[a] = "pending" /\ pc'[a] = "member"
          /\ cur'[a] = cur[a] /\ todo'[a] = todo[a]
          /\ \A i \in Invites : ~IsPendingFor(rows[InviteId(i)], org[a], guest[a])
       \/ /\ <<pc[a], pc'[a]>> \in {<<"account", "lookup">>, <<"lookup", "get">>,
                                    <<"lookup", "join">>, <<"get", "accept">>,
                                    <<"member", "invite">>, <<"reread", "change">>,
                                    <<"user", "anonymise">>, <<"user", "commit">>}
          /\ cur'[a] = cur[a] /\ todo'[a] = todo[a]
       \/ /\ pc[a] = "delete" /\ pc'[a] = "delete" /\ cur[a] = None
          /\ \E i \in todo[a] : cur'[a] = i /\ todo'[a] = todo[a] \ {i}
       \/ /\ pc[a] = "delete" /\ pc'[a] = "user" /\ cur[a] = None
          /\ cur'[a] = None /\ todo'[a] = todo[a]

\* Task a writes row k.
Writes(a, k, r) ==
    /\ lock[k] \in {None, a} /\ rows' = rows /\ work'[k] = r /\ lock'[k] = a
    /\ \A j \in RowIds \ {k} : work'[j] = work[j] /\ lock'[j] = lock[j]

\* A flush, of one row.
Flushes(a) ==
    /\ OthersStay(a)
    /\ org'[a] = org[a] /\ user'[a] = user[a] /\ guest'[a] = guest[a]
    /\ snap'[a] = snap[a] /\ todo'[a] = todo[a]
    /\ \/ /\ pc[a] = "organization" /\ pc'[a] = "creator" /\ issued' = issued /\ cur'[a] = cur[a]
          /\ org[a] \in Slugs /\ user[a] \in Users /\ Writes(a, OrganizationId(org[a]), user[a])
       \/ /\ <<pc[a], pc'[a]>> \in {<<"creator", "commit">>, <<"join", "get">>}
          /\ issued' = issued /\ cur'[a] = cur[a]
          /\ org[a] \in Slugs /\ user[a] \in Users /\ Writes(a, MemberId(org[a], user[a]), user[a])
       \/ /\ pc[a] = "invite" /\ pc'[a] = "commit"
          /\ issued + 1 \in Invites /\ issued' = issued + 1 /\ cur'[a] = issued + 1
          /\ snap[a] \in Invitation /\ snap[a] # None /\ snap[a].status = "pending"
          /\ snap[a].organization = org[a] /\ snap[a].email = guest[a]
          /\ Writes(a, InviteId(issued + 1), snap[a])
       \/ /\ pc[a] = "accept" /\ pc'[a] = "commit" /\ issued' = issued /\ cur'[a] = cur[a]
          /\ cur[a] \in Invites /\ snap[a] \in Invitation /\ Writes(a, InviteId(cur[a]), snap[a])
       \/ /\ pc[a] = "delete" /\ pc'[a] = "delete" /\ issued' = issued /\ cur'[a] = None
          /\ cur[a] \in Invites /\ Writes(a, InviteId(cur[a]), None)
       \/ /\ pc[a] \in {"change", "anonymise"} /\ pc'[a] = "commit"
          /\ issued' = issued /\ cur'[a] = cur[a]
          /\ user[a] \in Users /\ \E r : Writes(a, UserId(user[a]), r)

\* A commit or a rollback: every row the task has locked is as committed, and goes
\* to a task that waits for it.
Ends(a) ==
    /\ OthersStay(a) /\ issued' = issued
    /\ pc'[a] = "idle" /\ cur'[a] = None /\ todo'[a] = {}
    /\ \A k \in RowIds : lock[k] # a =>
          rows'[k] = rows[k] /\ work'[k] = work[k] /\ lock'[k] = lock[k]
    /\ \A k \in RowIds : lock[k] = a =>
          /\ rows'[k] = work'[k] /\ lock'[k] # a
          /\ lock'[k] # None => Waits[lock'[k]] = k
    /\ \/ /\ pc[a] = "commit" /\ \A k \in RowIds : lock[k] = a => rows'[k] = work[k]
          /\ a \in Erasers => user[a] \in closed'
       \/ rows' = rows

\* The clock and the faults are nothing to an invitation that is there.
Passes == UNCHANGED <<rows, work, lock, issued, pc, local>>
-------------------------------------------------------------------------------
(* Each action is one of these.                                              *)

\* A request or an erasure that begins has read what it starts from.
LEMMA StartKinds ==
    ASSUME IInv, NEW a \in Tasks, NEW u \in Users,
           \/ StartErasure(a, u) \/ ChangePassword(a, u)
           \/ \E s \in Slugs : CreateOrganization(a, u, s)
           \/ \E v \in Users, s \in Slugs : InviteMember(a, u, s, v)
           \/ \E i \in Invites : AcceptInvitation(a, u, i)
    PROVE  Starts(a)
<1>1. LocalsTyped
  BY TypeParts DEF IInv
<1>2. CASE StartErasure(a, u)
  BY <1>1, <1>2 DEF StartErasure, Starts, OthersStay, LocalsTyped, Goto, tables, world
<1>3. CASE \E s \in Slugs : CreateOrganization(a, u, s)
  BY <1>1, <1>3 DEF CreateOrganization, Starts, OthersStay, LocalsTyped, Goto, tables, world
<1>4. CASE \E v \in Users, s \in Slugs : InviteMember(a, u, s, v)
  BY <1>1, <1>4 DEF InviteMember, Starts, OthersStay, LocalsTyped, Goto, tables, world
<1>5. CASE \E i \in Invites : AcceptInvitation(a, u, i)
  BY <1>1, <1>5
  DEF AcceptInvitation, FindByTokenHash, IsUsable, Starts, OthersStay, LocalsTyped, Goto, tables, world
<1>6. CASE ChangePassword(a, u)
  BY <1>1, <1>6 DEF ChangePassword, Starts, OthersStay, LocalsTyped, Goto, tables
<1> QED
  BY <1>2, <1>3, <1>4, <1>5, <1>6

\* A refusal, a fault or the commit.
LEMMA EndKinds ==
    ASSUME IInv, NEW a \in Tasks, issued' = issued,
           \/ Refuse(a)
           \/ /\ pc[a] = "commit" /\ CommitRows(Waits, a) /\ EndTask(a)
              /\ closed' = IF a \in Erasers THEN closed \cup {user[a]} ELSE closed
    PROVE  Ends(a)
<1>1. TablesTyped /\ LocalsTyped
  BY TypeParts DEF IInv
<1>2. EndTask(a)
  BY DEF Refuse
<1>3. OthersStay(a) /\ pc'[a] = "idle" /\ cur'[a] = None /\ todo'[a] = {}
  BY <1>1, <1>2 DEF EndTask, Goto, OthersStay, LocalsTyped
<1>4. \A k \in RowIds : lock[k] = a => lock'[k] # a
  <2>1. ReleaseLocks(Waits, a)
    BY DEF Refuse, RollbackRows, CommitRows
  <2> QED
    BY <1>1, <2>1, Released, NoTaskIsNone
<1>5. CASE Refuse(a)
  BY <1>1, <1>3, <1>4, <1>5, RolledBack DEF Refuse, Ends
<1>6. CASE /\ pc[a] = "commit" /\ CommitRows(Waits, a)
           /\ closed' = IF a \in Erasers THEN closed \cup {user[a]} ELSE closed
  BY <1>1, <1>3, <1>4, <1>6, Committed DEF Ends
<1> QED
  BY <1>5, <1>6

\* The reads and checks of a running task.
LEMMA ReadKinds ==
    ASSUME IInv, NEW a \in Tasks,
           CheckPending(a) \/ CheckAccount(a) \/ FindMembership(a) \/ GetInvitation(a)
             \/ NextInvitation(a) \/ CheckMember(a) \/ RereadUser(a) \/ ReadUser(a)
             \/ UserEraserRaises(a)
    PROVE  Reads(a) \/ Ends(a)
<1>1. LocalsTyped
  BY TypeParts DEF IInv
<1>2. CASE CheckPending(a)
  BY <1>1, <1>2, EndKinds
  DEF CheckPending, Reads, OthersStay, LocalsTyped, Goto, tables, local, world
<1>3. CASE CheckAccount(a)
  BY <1>1, <1>3, EndKinds
  DEF CheckAccount, Reads, OthersStay, LocalsTyped, Goto, tables, local, world
<1>4. CASE FindMembership(a)
  BY <1>1, <1>4 DEF FindMembership, Reads, OthersStay, LocalsTyped, Goto, tables, local, world
<1>5. CASE GetInvitation(a)
  BY <1>1, <1>5 DEF GetInvitation, Reads, OthersStay, LocalsTyped, Goto, tables, world
<1>6. CASE NextInvitation(a)
  BY <1>1, <1>6 DEF NextInvitation, Reads, OthersStay, LocalsTyped, Goto, Accepting, tables, world
<1>7. CASE CheckMember(a)
  BY <1>1, <1>7, EndKinds
  DEF CheckMember, Reads, OthersStay, LocalsTyped, Goto, Accepting, tables, world
<1>8. CASE RereadUser(a) \/ ReadUser(a)
  BY <1>1, <1>8
  DEF RereadUser, ReadUser, Reads, OthersStay, LocalsTyped, Goto, Accepting, tables, world
<1>9. CASE UserEraserRaises(a)
  BY <1>1, <1>9
  DEF UserEraserRaises, Reads, OthersStay, LocalsTyped, Goto, Accepting, tables, local
<1> QED
  BY <1>2, <1>3, <1>4, <1>5, <1>6, <1>7, <1>8, <1>9

\* The effect of WriteRow on a row that is there.
LEMMA WriteKinds ==
    ASSUME TablesTyped, NEW a \in Tasks, NEW k \in RowIds, NEW r, MayWrite(a, k), WriteRow(a, k, r)
    PROVE  Writes(a, k, r)
  BY DEF TablesTyped, MayWrite, WriteRow, Writes

\* The inserts of organizations and memberships.
LEMMA JoinKinds ==
    ASSUME IInv, NEW a \in Tasks,
           InsertOrganization(a) \/ InsertCreator(a) \/ JoinOrganization(a)
    PROVE  Flushes(a) \/ Ends(a)
<1>1. TablesTyped /\ LocalsTyped /\ InOrder(a) /\ MemberOwned /\ OrganizationOwned
  BY TypeParts DEF IInv
<1>2. pc[a] \in {"organization", "creator", "join"} => org[a] \in Slugs /\ user[a] \in Users
  BY <1>1 DEF InOrder, WorksOn, Accepting
<1>3. CASE InsertOrganization(a)
  <2>1. CASE work[OrganizationId(org[a])] = None
    <3>1. OrganizationId(org[a]) \in RowIds
      BY <1>2, <1>3, IdsDiffer DEF InsertOrganization
    <3>2. Writes(a, OrganizationId(org[a]), user[a])
      BY <1>1, <1>3, <2>1, <3>1, WaitsAt, Unblocked, WriteKinds DEF InsertOrganization
    <3> QED
      BY <1>1, <1>2, <1>3, <2>1, <3>2
      DEF InsertOrganization, Flushes, OthersStay, LocalsTyped, Goto, local, world
  <2> QED
    BY <1>3, <2>1, EndKinds DEF InsertOrganization, world
<1>4. CASE InsertCreator(a)
  <2>1. lock[OrganizationId(org[a])] = a /\ rows[OrganizationId(org[a])] = None
    BY <1>1, <1>2, <1>4 DEF InsertCreator, InOrder, Creates, OrganizationOwned
  <2>2. MemberId(org[a], user[a]) \in RowIds
    BY <1>2, <1>4, IdsDiffer DEF InsertCreator
  <2>3. lock[MemberId(org[a], user[a])] \notin Tasks
    BY <1>1, <1>2, <1>4, <2>1 DEF InsertCreator, MemberOwned, Exists
  <2>4. Writes(a, MemberId(org[a], user[a]), user[a])
    BY <1>1, <1>4, <2>2, <2>3, WriteKinds DEF InsertCreator, TablesTyped, MayWrite
  <2> QED
    BY <1>1, <1>2, <1>4, <2>4
    DEF InsertCreator, Flushes, OthersStay, LocalsTyped, Goto, local, world
<1>5. CASE JoinOrganization(a)
  <2>1. CASE work[MemberId(org[a], user[a])] = None
    <3>1. MemberId(org[a], user[a]) \in RowIds
      BY <1>2, <1>5, IdsDiffer DEF JoinOrganization
    <3>2. Writes(a, MemberId(org[a], user[a]), user[a])
      BY <1>1, <1>5, <2>1, <3>1, WaitsAt, Unblocked, WriteKinds DEF JoinOrganization
    <3> QED
      BY <1>1, <1>2, <1>5, <2>1, <3>2
      DEF JoinOrganization, Flushes, OthersStay, LocalsTyped, Goto, local, world
  <2> QED
    BY <1>5, <2>1, EndKinds DEF JoinOrganization, world
<1> QED
  BY <1>3, <1>4, <1>5

\* The writes of invitations and users.
LEMMA InviteKinds ==
    ASSUME IInv, Issued, NEW a \in Tasks,
           \/ InsertInvitation(a) \/ MarkAccepted(a) \/ DeleteInvitation(a)
           \/ SaveChange(a) \/ AnonymiseUser(a)
    PROVE  Flushes(a) \/ Ends(a)
<1>1. TablesTyped /\ LocalsTyped /\ InOrder(a)
  BY TypeParts DEF IInv
<1>2. CASE InsertInvitation(a)
  <2> DEFINE i == issued + 1
  <2>1. /\ pc[a] = "invite" /\ pc' = [pc EXCEPT ![a] = "commit"]
        /\ issued < MaxEvents /\ issued' = i /\ cur' = [cur EXCEPT ![a] = i]
        /\ WriteRow(a, InviteId(i), snap[a])
        /\ UNCHANGED <<org, user, guest, snap, address, found, todo>>
        /\ snap[a] \in Invitation /\ snap[a].status = "pending"
        /\ snap[a].organization = org[a] /\ snap[a].email = guest[a]
    BY <1>1, <1>2 DEF InsertInvitation, Goto, InOrder, WorksOn
  <2>2. i \in Invites /\ i > issued
    BY <1>1, <2>1, BoundsAssumption DEF LocalsTyped, Invites
  <2>3. InviteId(i) \in RowIds /\ MayWrite(a, InviteId(i)) /\ snap[a] # None
    BY <2>1, <2>2, IdsDiffer, NoneIsNoInvitation DEF Issued, MayWrite
  <2>4. Writes(a, InviteId(i), snap[a])
    BY <1>1, <2>1, <2>3, WriteKinds
  <2>5. OthersStay(a) /\ pc'[a] = "commit" /\ cur'[a] = i
    BY <1>1, <2>1 DEF OthersStay, LocalsTyped
  <2> QED
    BY <2>1, <2>2, <2>3, <2>4, <2>5 DEF Flushes
<1>3. CASE MarkAccepted(a)
  <2>1. CASE found[a] = (work[InviteId(cur[a])] # None)
    <3>1. cur[a] \in Invites /\ snap[a] \in Invitation /\ InviteId(cur[a]) \in RowIds
      BY <1>1, <1>3, IdsDiffer DEF MarkAccepted, InOrder, WorksOn, Accepting
    <3>2. Writes(a, InviteId(cur[a]), snap[a])
      BY <1>1, <1>3, <2>1, <3>1, WaitsAt, Unblocked, WriteKinds DEF MarkAccepted
    <3> QED
      BY <1>1, <1>3, <2>1, <3>1, <3>2
      DEF MarkAccepted, Flushes, OthersStay, LocalsTyped, Goto, local, world
  <2> QED
    BY <1>3, <2>1, EndKinds DEF MarkAccepted, world
<1>4. CASE DeleteInvitation(a)
  <2>1. cur[a] \in Invites /\ InviteId(cur[a]) \in RowIds
    BY <1>1, <1>4, IdsDiffer DEF DeleteInvitation, LocalsTyped
  <2>2. Writes(a, InviteId(cur[a]), None)
    BY <1>1, <1>4, <2>1, WaitsAt, Unblocked, WriteKinds DEF DeleteInvitation
  <2> QED
    BY <1>1, <1>4, <2>1, <2>2
    DEF DeleteInvitation, Flushes, OthersStay, LocalsTyped, world
<1>5. CASE SaveChange(a) \/ AnonymiseUser(a)
  <2> DEFINE r == IF address[a] = None THEN work[UserId(user[a])] ELSE address[a]
  <2>1. /\ pc[a] \in {"change", "anonymise"} /\ user[a] \in Users /\ Blockers(a) = {}
        /\ WriteRow(a, UserId(user[a]), r)
    BY <1>1, <1>5 DEF SaveChange, AnonymiseUser, UpdateUser, InOrder, WorksOn
  <2> HIDE DEF r
  <2>2. UserId(user[a]) \in RowIds /\ Waits[a] = UserId(user[a])
    BY <2>1, WaitsAt, IdsDiffer
  <2>3. Writes(a, UserId(user[a]), r)
    BY <1>1, <2>1, <2>2, Unblocked, WriteKinds
  <2>4. OthersStay(a) /\ pc'[a] = "commit" /\ UNCHANGED <<world, local>>
    BY <1>1, <1>5 DEF SaveChange, AnonymiseUser, UpdateUser, Goto, LocalsTyped, OthersStay, local
  <2> QED
    BY <2>1, <2>3, <2>4 DEF Flushes, world, local
<1> QED
  BY <1>2, <1>3, <1>4, <1>5

\* Every step that is not of the clock is of a task and of one of the four kinds.
LEMMA StepKinds ==
    ASSUME IInv, Issued, [Next]_vars
    PROVE  (\E a \in Tasks : Starts(a) \/ Reads(a) \/ Flushes(a) \/ Ends(a)) \/ Passes
<1>1. CASE \E a \in Tasks : Step(a) \/ Abort(a)
  <2>1. PICK a \in Tasks : Step(a) \/ Abort(a)
    BY <1>1
  <2>2. CASE Abort(a)
    BY <2>2, EndKinds DEF Abort, Refuse
  <2>3. CASE Commit(a)
    BY <2>3, EndKinds DEF Commit, world
  <2>4. CASE CheckPending(a) \/ CheckAccount(a) \/ FindMembership(a) \/ GetInvitation(a)
               \/ NextInvitation(a) \/ CheckMember(a) \/ RereadUser(a) \/ ReadUser(a)
               \/ UserEraserRaises(a)
    BY <2>4, ReadKinds
  <2>5. CASE InsertOrganization(a) \/ InsertCreator(a) \/ JoinOrganization(a)
    BY <2>5, JoinKinds
  <2>6. CASE \/ InsertInvitation(a) \/ MarkAccepted(a) \/ DeleteInvitation(a)
             \/ SaveChange(a) \/ AnonymiseUser(a)
    BY <2>6, InviteKinds
  <2>7. CASE DeadlockVictim(a)
    BY <2>7, EndKinds DEF DeadlockVictim, world
  <2> QED
    BY <2>1, <2>2, <2>3, <2>4, <2>5, <2>6, <2>7 DEF Step
<1>2. CASE \/ \E a \in Tasks, u \in Users, s \in Slugs : CreateOrganization(a, u, s)
           \/ \E a \in Tasks, u, v \in Users, s \in Slugs : InviteMember(a, u, s, v)
           \/ \E a \in Tasks, u \in Users, i \in Invites : AcceptInvitation(a, u, i)
           \/ \E a \in Tasks, u \in Users : ChangePassword(a, u) \/ StartErasure(a, u)
  <2>1. PICK a \in Tasks, u \in Users :
          \/ StartErasure(a, u) \/ ChangePassword(a, u)
          \/ \E s \in Slugs : CreateOrganization(a, u, s)
          \/ \E v \in Users, s \in Slugs : InviteMember(a, u, s, v)
          \/ \E i \in Invites : AcceptInvitation(a, u, i)
    BY <1>2
  <2> QED
    BY <2>1, StartKinds
<1>3. CASE Tick
  BY <1>3 DEF Tick, Passes, tables
<1>4. CASE UNCHANGED vars
  BY <1>4 DEF vars, Passes, tables, world
<1> QED
  BY <1>1, <1>2, <1>3, <1>4 DEF Next
-------------------------------------------------------------------------------
(* Who holds the locks.                                                      *)

\* The others hold what they held as long as nobody writes it.
LEMMA HoldsStill ==
    ASSUME NEW a \in Tasks, OthersStay(a), NEW b \in Tasks \ {a}, NEW i \in Invites, HoldsInvite(b, i),
           rows'[InviteId(i)] = rows[InviteId(i)], work'[InviteId(i)] = work[InviteId(i)]
    PROVE  HoldsInvite(b, i)'
  BY DEF HoldsInvite, OthersStay

\* A step that writes nothing, of a task that goes on with the invitations it has.
LEMMA QuietLocks ==
    ASSUME IInv, Locking, NEW a \in Tasks, UNCHANGED <<rows, work, lock, issued>>, OthersStay(a),
           Kinds(a)', pc'[a] = "commit" => pc[a] = "user",
           \A i \in Invites : lock[InviteId(i)] = a => HoldsInvite(a, i)',
           \A u \in Users : lock[UserId(u)] # a,
           \A i \in Invites : i > issued => cur'[a] # i /\ i \notin todo'[a]
    PROVE  Locking'
<1>1. Issued'
  BY DEF Locking, Issued, OthersStay
<1>2. InvitesHeld'
  <2>1. ASSUME NEW i \in Invites, NEW b \in Tasks, lock[InviteId(i)] = b
        PROVE  HoldsInvite(b, i)'
    BY <2>1, HoldsStill DEF Locking, InvitesHeld
  <2> QED
    BY <2>1 DEF Locking, InvitesHeld
<1>3. UsersHeld'
  BY DEF Locking, UsersHeld, OthersStay
<1>4. ASSUME NEW b \in Tasks PROVE Follows(b)'
  <2>1. CASE b = a
    BY <2>1 DEF Follows, Welcomes, Joins, IInv, MemberOwned
  <2>2. CASE b # a
    <3>1. Kinds(b)'
      BY <2>2 DEF Locking, Follows, Kinds, OthersStay, Inviting, Accepting
    <3>2. Welcomes(b)'
      BY <2>2 DEF Locking, Follows, Welcomes, OthersStay, Joins
    <3> QED
      BY <3>1, <3>2 DEF Follows
  <2> QED
    BY <2>1, <2>2
<1> QED
  BY <1>1, <1>2, <1>3, <1>4 DEF Locking

\* A request or an erasure begins without a lock.
LEMMA StartLocks ==
    ASSUME IInv, Locking, NEW a \in Tasks, Starts(a)
    PROVE  Locking'
<1>1. TablesTyped /\ Kinds(a)
  BY TypeParts DEF IInv, Locking, Follows
<1>2. pc[a] = "idle" /\ UNCHANGED <<rows, work, lock, issued>> /\ OthersStay(a)
  BY DEF Starts
<1>3. Kinds(a)'
  <2>1. \A i \in Invites : rows[InviteId(i)] # None =>
          [rows[InviteId(i)] EXCEPT !.status = "accepted"].status = "accepted"
    BY <1>1, InvitesTyped DEF Invitation
  <2> QED
    BY <1>1, <1>2, <2>1 DEF Starts, Kinds, Inviting, Accepting
<1>4. pc'[a] # "commit"
  BY DEF Starts
<1>5. /\ \A i \in Invites : lock[InviteId(i)] # a
      /\ \A u \in Users : lock[UserId(u)] # a
  BY <1>2 DEF Locking, InvitesHeld, UsersHeld, HoldsInvite
<1>6. \A i \in Invites : i > issued =>
         rows[InviteId(i)] = None /\ cur[a] # i /\ i \notin todo[a]
  BY DEF Locking, Issued
<1>7. \/ cur'[a] = cur[a]
      \/ \E i \in Invites : cur'[a] = i /\ rows[InviteId(i)] # None
  BY DEF Starts
<1>8. \/ todo'[a] = todo[a]
      \/ \A i \in todo'[a] : i \in Invites /\ rows[InviteId(i)] # None
  BY DEF Starts
<1>9. ASSUME NEW i \in Invites, i > issued
      PROVE  cur'[a] # i /\ i \notin todo'[a]
  <2>1. rows[InviteId(i)] = None /\ cur[a] # i /\ i \notin todo[a]
    BY <1>6, <1>9
  <2>2. cur'[a] # i
    BY <1>7, <2>1
  <2>3. i \notin todo'[a]
    BY <1>8, <2>1
  <2> QED
    BY <2>2, <2>3
<1> QED
  BY <1>2, <1>3, <1>4, <1>5, <1>9, QuietLocks

\* A request or an erasure goes on.
LEMMA ReadLocks ==
    ASSUME IInv, Locking, NEW a \in Tasks, Reads(a)
    PROVE  Locking'
<1>1. Kinds(a) /\ Issued /\ InvitesHeld
  BY DEF Locking, Follows
<1>2. UNCHANGED <<rows, work, lock, issued>> /\ OthersStay(a)
  BY DEF Reads
<1>3. Kinds(a)' /\ (pc'[a] = "commit" => pc[a] = "user")
  BY <1>1 DEF Reads, Kinds, Inviting, Accepting
<1>4. \A i \in Invites : lock[InviteId(i)] = a => HoldsInvite(a, i)'
  <2>1. ASSUME NEW i \in Invites, lock[InviteId(i)] = a
        PROVE  /\ pc[a] \in {"delete", "user"} => cur[a] = None /\ a \in Erasers
               /\ HoldsInvite(a, i)
    BY <1>1, <2>1 DEF Reads, InvitesHeld, Kinds
  <2>2. ASSUME NEW i \in Invites, lock[InviteId(i)] = a
        PROVE  pc[a] \in {"delete", "user"} /\ a \in Erasers /\ work[InviteId(i)] = None
    BY <2>1, <2>2, NoneAssumption DEF Reads, HoldsInvite
  <2> QED
    BY <1>2, <2>2 DEF Reads, HoldsInvite
<1>5. \A u \in Users : lock[UserId(u)] # a
  BY DEF Reads, Locking, UsersHeld
<1>6. \A i \in Invites : i > issued => cur'[a] # i /\ i \notin todo'[a]
  BY <1>1, NoneAssumption DEF Reads, Issued
<1> QED
  BY <1>2, <1>3, <1>4, <1>5, <1>6, QuietLocks

\* A flush that leaves its task with the right to what it has locked.
LEMMA FlushKeeps ==
    ASSUME IInv, Locking, NEW a \in Tasks, OthersStay(a), NEW k \in RowIds, NEW r, Writes(a, k, r),
           issued' \in {issued, issued + 1}, Follows(a)',
           \A i \in Invites : lock'[InviteId(i)] = a => HoldsInvite(a, i)',
           \A u \in Users : lock'[UserId(u)] = a => pc'[a] = "commit" /\ user'[a] = u,
           \A i \in Invites : i > issued' =>
               k # InviteId(i) /\ cur'[a] # i /\ i \notin todo'[a]
    PROVE  Locking'
<1>1. LocalsTyped /\ Issued /\ InvitesHeld /\ UsersHeld
  BY TypeParts DEF IInv, Locking
<1>2. /\ rows' = rows /\ work'[k] = r /\ lock'[k] = a /\ lock[k] \in {None, a}
      /\ \A j \in RowIds \ {k} : work'[j] = work[j] /\ lock'[j] = lock[j]
  BY DEF Writes
<1>3. \A j \in RowIds, b \in Tasks \ {a} : lock'[j] = b \/ lock[j] = b =>
          lock[j] = b /\ lock'[j] = b /\ work'[j] = work[j]
  BY <1>2, NoTaskIsNone
<1>4. Issued'
  <2>1. \A i \in Invites : i > issued' => i > issued
    BY <1>1 DEF LocalsTyped, Invites
  <2> QED
    BY <1>1, <1>2, <2>1, IdsDiffer DEF Issued, OthersStay
<1>5. InvitesHeld'
  <2>1. ASSUME NEW i \in Invites, NEW b \in Tasks, lock'[InviteId(i)] = b
        PROVE  HoldsInvite(b, i)'
    <3>1. CASE b = a
      BY <2>1, <3>1
    <3>2. CASE b # a
      BY <1>1, <1>2, <1>3, <2>1, <3>2, HoldsStill, IdsDiffer DEF InvitesHeld
    <3> QED
      BY <3>1, <3>2
  <2>2. ASSUME NEW i \in Invites, lock'[InviteId(i)] = None
        PROVE  work'[InviteId(i)] = rows'[InviteId(i)]
    BY <1>1, <1>2, <2>2, NoTaskIsNone, IdsDiffer DEF InvitesHeld
  <2> QED
    BY <2>1, <2>2 DEF InvitesHeld
<1>6. UsersHeld'
  <2>1. ASSUME NEW u \in Users, NEW b \in Tasks, lock'[UserId(u)] = b
        PROVE  /\ pc'[b] \in {"change", "anonymise", "commit"} /\ user'[b] = u
               /\ pc'[b] # "commit" => work'[UserId(u)] = rows'[UserId(u)]
    <3>1. CASE b = a
      BY <2>1, <3>1
    <3>2. CASE b # a
      BY <1>1, <1>2, <1>3, <2>1, <3>2, IdsDiffer DEF UsersHeld, OthersStay
    <3> QED
      BY <3>1, <3>2
  <2>2. ASSUME NEW u \in Users, lock'[UserId(u)] = None
        PROVE  work'[UserId(u)] = rows'[UserId(u)]
    BY <1>1, <1>2, <2>2, NoTaskIsNone, IdsDiffer DEF UsersHeld
  <2> QED
    BY <2>1, <2>2 DEF UsersHeld
<1>7. ASSUME NEW b \in Tasks \ {a} PROVE Follows(b)'
  <2>1. Follows(b)
    BY DEF Locking
  <2>2. Kinds(b)'
    BY <2>1 DEF Follows, Kinds, OthersStay, Inviting, Accepting
  <2>3. Welcomes(b)'
    <3>1. ASSUME NEW s \in Slugs, NEW u \in Users, pc'[b] = "commit", Joins(b, s, u)'
          PROVE  pc[b] = "commit" /\ Joins(b, s, u)
      BY <1>3, <3>1, IdsDiffer DEF Joins, OthersStay
    <3> QED
      BY <1>3, <2>1, <3>1, IdsDiffer DEF Follows, Welcomes
  <2> QED
    BY <2>2, <2>3 DEF Follows
<1> QED
  BY <1>4, <1>5, <1>6, <1>7 DEF Locking

\* Organizations and memberships.
LEMMA JoinLocks ==
    ASSUME IInv, IInv', Locking, NEW a \in Tasks, Flushes(a),
           pc[a] \in {"organization", "creator", "join"}
    PROVE  Locking'
<1>1. /\ Kinds(a) /\ Issued /\ InvitesHeld /\ UsersHeld /\ InOrder(a) /\ MemberOwned'
      /\ OthersStay(a) /\ issued' = issued /\ cur'[a] = cur[a] /\ todo'[a] = todo[a]
      /\ user'[a] = user[a] /\ org'[a] = org[a] /\ snap'[a] = snap[a]
  BY DEF IInv, Locking, Follows, Flushes
<1>2. PICK k \in RowIds :
        /\ Writes(a, k, user[a])
        /\ \A i : k # InviteId(i)
        /\ \A u : k # UserId(u)
        /\ pc[a] = "creator" => /\ org[a] \in Slugs /\ \A s : k # OrganizationId(s)
  <2>1. CASE pc[a] = "organization"
    BY <2>1, IdsDiffer DEF Flushes
  <2>2. CASE pc[a] # "organization"
    BY <2>2, IdsDiffer DEF Flushes
  <2> QED
    BY <2>1, <2>2
<1>3. /\ \A i \in Invites : lock'[InviteId(i)] # a
      /\ \A u \in Users : lock'[UserId(u)] # a
  BY <1>1, <1>2, IdsDiffer DEF Writes, InvitesHeld, HoldsInvite, UsersHeld, Kinds
<1>4. Kinds(a)'
  BY <1>1 DEF Flushes, Kinds, Inviting, Accepting
<1>5. pc'[a] = "commit" => pc[a] = "creator" /\ a \in Webs /\ a \notin Erasers
  BY <1>1, TasksAssumption DEF Flushes, Kinds
<1>6. Welcomes(a)'
  <2> SUFFICES ASSUME NEW s \in Slugs, NEW u \in Users, pc'[a] = "commit", Joins(a, s, u)'
               PROVE  lock'[OrganizationId(s)] = a
    BY DEF Welcomes
  <2>1. org[a] = s
    BY <1>1 DEF Joins, MemberOwned
  <2>2. lock[OrganizationId(s)] = a
    BY <1>1, <1>5, <2>1 DEF InOrder, Creates
  <2> QED
    BY <1>2, <1>5, <2>2, IdsDiffer DEF Writes
<1>7. Follows(a)'
  BY <1>4, <1>6 DEF Follows
<1> QED
  BY <1>1, <1>2, <1>3, <1>7, FlushKeeps DEF Issued

\* Invitations and users.
LEMMA InviteLocks ==
    ASSUME IInv, IInv', Locking, NEW a \in Tasks, Flushes(a),
           pc[a] \in {"invite", "accept", "delete", "change", "anonymise"}
    PROVE  Locking'
<1>1. /\ LocalsTyped /\ Kinds(a) /\ Issued /\ InvitesHeld /\ UsersHeld /\ InOrder(a)
      /\ MemberOwned /\ MemberOwned'
      /\ OthersStay(a) /\ todo'[a] = todo[a] /\ org'[a] = org[a] /\ user'[a] = user[a]
      /\ snap'[a] = snap[a]
  BY TypeParts DEF IInv, Locking, Follows, Flushes
<1>2. Kinds(a)'
  BY <1>1 DEF Flushes, Kinds, Inviting, Accepting
<1>3. CASE pc[a] = "invite"
  <2>1. PICK i, r :
          /\ i \in Invites /\ i = issued + 1 /\ issued' = i /\ cur'[a] = i /\ pc'[a] = "commit"
          /\ r # None /\ r.status = "pending" /\ Writes(a, InviteId(i), r)
    BY <1>3 DEF Flushes
  <2>2. i > issued /\ a \in Webs /\ a \notin Erasers
    BY <1>1, <1>3, <2>1, TasksAssumption DEF LocalsTyped, Kinds, Inviting
  <2>3. \A j \in Invites : lock[InviteId(j)] # a
    BY <1>1, <1>3 DEF InvitesHeld, HoldsInvite
  <2>4. \A j \in Invites : lock'[InviteId(j)] = a => HoldsInvite(a, j)'
    <3>1. rows'[InviteId(i)] = None
      BY <1>1, <2>1, <2>2 DEF Issued, Writes
    <3>2. \A j \in Invites : lock'[InviteId(j)] = a => j = i
      BY <2>1, <2>3, IdsDiffer DEF Writes
    <3> QED
      BY <2>1, <2>2, <3>1, <3>2 DEF HoldsInvite, Writes
  <2>5. \A u \in Users : lock'[UserId(u)] # a
    BY <1>1, <1>3, <2>1, IdsDiffer DEF Writes, UsersHeld
  <2>6. Welcomes(a)'
    BY <1>1, <1>3, <2>1, IdsDiffer DEF Welcomes, Joins, MemberOwned, Writes
  <2>7. Follows(a)'
    BY <1>2, <2>6 DEF Follows
  <2>8. \A j \in Invites : j > issued' =>
           InviteId(i) # InviteId(j) /\ cur'[a] # j /\ j \notin todo'[a]
    BY <1>1, <2>1, IdsDiffer DEF Issued, LocalsTyped, Invites
  <2> QED
    BY <1>1, <2>1, <2>4, <2>5, <2>7, <2>8, IdsDiffer, FlushKeeps
<1>4. CASE pc[a] = "accept"
  <2>1. PICK i \in Invites :
          /\ i = cur[a] /\ issued' = issued /\ cur'[a] = i /\ pc'[a] = "commit"
          /\ Writes(a, InviteId(i), snap[a])
    BY <1>4 DEF Flushes
  <2>2. /\ a \in Webs /\ a \notin Erasers /\ snap[a] # None /\ snap[a].status = "accepted"
        /\ snap[a].organization = org[a] /\ snap[a].email = user[a]
    BY <1>1, <1>4, TasksAssumption, NoneIsNoInvitation
    DEF Kinds, Accepting, Checked, InOrder, WorksOn, Accepts
  <2>3. \A j \in Invites : lock'[InviteId(j)] = a => HoldsInvite(a, j)'
    <3>1. \A j \in Invites : lock'[InviteId(j)] = a => j = i
      BY <1>1, <1>4, <2>1, IdsDiffer DEF Writes, InvitesHeld, HoldsInvite
    <3> QED
      BY <2>1, <2>2, <3>1 DEF HoldsInvite, Writes
  <2>4. \A u \in Users : lock'[UserId(u)] # a
    BY <1>1, <1>4, <2>1, IdsDiffer DEF Writes, UsersHeld
  <2>5. Welcomes(a)'
    <3> SUFFICES ASSUME NEW s \in Slugs, NEW u \in Users, pc'[a] = "commit", Joins(a, s, u)'
                 PROVE  LET r == work'[InviteId(i)]
                        IN  /\ lock'[InviteId(i)] = a /\ r # None
                            /\ r.organization = s /\ r.email = u /\ r.status = "accepted"
      BY DEF Welcomes
    <3>1. org[a] = s /\ user[a] = u
      BY <1>1 DEF Joins, MemberOwned
    <3> QED
      BY <2>1, <2>2, <3>1 DEF Writes
  <2>6. Follows(a)'
    BY <1>2, <2>5 DEF Follows
  <2> QED
    BY <1>1, <2>1, <2>3, <2>4, <2>6, IdsDiffer, FlushKeeps DEF Issued
<1>5. CASE pc[a] = "delete"
  <2>1. PICK i \in Invites :
          /\ i = cur[a] /\ issued' = issued /\ cur'[a] = None /\ pc'[a] = "delete"
          /\ Writes(a, InviteId(i), None)
    BY <1>5 DEF Flushes
  <2>2. a \in Erasers
    BY <1>1, <1>5 DEF Kinds
  <2>3. \A j \in Invites : lock'[InviteId(j)] = a => HoldsInvite(a, j)'
    <3>1. ASSUME NEW j \in Invites, lock'[InviteId(j)] = a PROVE work'[InviteId(j)] = None
      <4>1. CASE j = i
        BY <2>1, <4>1 DEF Writes
      <4>2. CASE j # i
        <5>1. lock[InviteId(j)] = a /\ work'[InviteId(j)] = work[InviteId(j)]
          BY <2>1, <3>1, <4>2, IdsDiffer DEF Writes
        <5> QED
          BY <1>1, <1>5, <2>1, <4>2, <5>1 DEF InvitesHeld, HoldsInvite
      <4> QED
        BY <4>1, <4>2
    <3> QED
      BY <2>1, <2>2, <3>1 DEF HoldsInvite
  <2>4. \A u \in Users : lock'[UserId(u)] # a
    BY <1>1, <1>5, <2>1, IdsDiffer DEF Writes, UsersHeld
  <2>5. Follows(a)'
    BY <1>2, <2>1 DEF Follows, Welcomes
  <2>6. \A j \in Invites : j > issued' =>
           InviteId(i) # InviteId(j) /\ cur'[a] # j /\ j \notin todo'[a]
    BY <1>1, <2>1, IdsDiffer, NoneAssumption DEF Issued
  <2> QED
    BY <1>1, <2>1, <2>3, <2>4, <2>5, <2>6, IdsDiffer, FlushKeeps
<1>6. CASE pc[a] \in {"change", "anonymise"}
  <2>1. PICK r :
          /\ user[a] \in Users /\ issued' = issued /\ cur'[a] = cur[a] /\ pc'[a] = "commit"
          /\ Writes(a, UserId(user[a]), r)
    BY <1>6 DEF Flushes
  <2>2. \A j \in Invites : lock'[InviteId(j)] = a => HoldsInvite(a, j)'
    <3>1. ASSUME NEW j \in Invites, lock'[InviteId(j)] = a
          PROVE  a \in Erasers /\ work'[InviteId(j)] = None
      <4>1. lock[InviteId(j)] = a /\ work'[InviteId(j)] = work[InviteId(j)]
        BY <2>1, <3>1, IdsDiffer DEF Writes
      <4> QED
        BY <1>1, <1>6, <4>1 DEF InvitesHeld, HoldsInvite
    <3> QED
      BY <2>1, <3>1 DEF HoldsInvite
  <2>3. \A u \in Users : lock'[UserId(u)] = a => user[a] = u
    BY <1>1, <1>6, <2>1, IdsDiffer DEF Writes, UsersHeld
  <2>4. Welcomes(a)'
    BY <1>1, <1>6, <2>1, IdsDiffer DEF Welcomes, Joins, MemberOwned, Writes
  <2>5. Follows(a)'
    BY <1>2, <2>4 DEF Follows
  <2>6. \A i \in Invites : InviteId(i) # UserId(user[a])
    BY IdsDiffer
  <2>7. UserId(user[a]) \in RowIds
    BY <2>1, IdsDiffer
  <2> QED
    BY <1>1, <2>1, <2>2, <2>3, <2>5, <2>6, <2>7, FlushKeeps DEF Issued
<1> QED
  BY <1>3, <1>4, <1>5, <1>6

\* Who waits for an invitation or a user.
LEMMA WaitsForInvite ==
    ASSUME NEW b \in Tasks
    PROVE  /\ \A i \in Invites : Waits[b] = InviteId(i) =>
                 pc[b] \in {"accept", "delete"} /\ cur[b] = i
           /\ \A u \in Users : Waits[b] = UserId(u) =>
                 pc[b] \in {"change", "anonymise"} /\ user[b] = u
  BY IdsDiffer, NoneAssumption DEF Waits

\* A lock that a transaction gives up goes to a task that has written nothing yet.
LEMMA EndLocks ==
    ASSUME IInv, Locking, NEW a \in Tasks, Ends(a)
    PROVE  Locking'
<1>1. Issued /\ InvitesHeld /\ UsersHeld /\ \A b \in Tasks : Follows(b)
  BY DEF Locking
<1>2. /\ OthersStay(a) /\ issued' = issued
      /\ pc'[a] = "idle" /\ cur'[a] = None /\ todo'[a] = {}
      /\ \A k \in RowIds : lock[k] # a =>
            rows'[k] = rows[k] /\ work'[k] = work[k] /\ lock'[k] = lock[k]
      /\ \A k \in RowIds : lock[k] = a =>
            /\ rows'[k] = work'[k] /\ lock'[k] # a
            /\ lock'[k] # None => Waits[lock'[k]] = k
  BY DEF Ends
<1>3. \A k \in RowIds, b \in Tasks : lock'[k] = b =>
        /\ b # a
        /\ \/ /\ lock[k] = b /\ work'[k] = work[k] /\ rows'[k] = rows[k]
           \/ Waits[b] = k /\ work'[k] = rows'[k]
  BY <1>2, NoTaskIsNone
<1>4. /\ \A i \in Invites : InviteId(i) \in RowIds
      /\ \A u \in Users : UserId(u) \in RowIds
      /\ \A s \in Slugs : OrganizationId(s) \in RowIds
      /\ \A s \in Slugs, u \in Users : MemberId(s, u) \in RowIds
  BY IdsDiffer
<1>5. Issued'
  BY <1>1, <1>2, <1>4, NoneAssumption, NoTaskIsNone DEF Issued, OthersStay
<1>6. InvitesHeld'
  <2>1. ASSUME NEW i \in Invites, NEW b \in Tasks, lock'[InviteId(i)] = b
        PROVE  HoldsInvite(b, i)'
    <3>1. CASE Waits[b] = InviteId(i) /\ work'[InviteId(i)] = rows'[InviteId(i)]
      BY <1>2, <1>3, <1>4, <2>1, <3>1, WaitsForInvite DEF HoldsInvite, OthersStay
    <3>2. CASE /\ lock[InviteId(i)] = b
               /\ work'[InviteId(i)] = work[InviteId(i)] /\ rows'[InviteId(i)] = rows[InviteId(i)]
      BY <1>1, <1>2, <1>3, <1>4, <2>1, <3>2, HoldsStill DEF InvitesHeld
    <3> QED
      BY <1>3, <1>4, <2>1, <3>1, <3>2
  <2>2. ASSUME NEW i \in Invites, lock'[InviteId(i)] = None
        PROVE  work'[InviteId(i)] = rows'[InviteId(i)]
    BY <1>1, <1>2, <1>4, <2>2 DEF InvitesHeld
  <2> QED
    BY <2>1, <2>2 DEF InvitesHeld
<1>7. UsersHeld'
  <2>1. ASSUME NEW u \in Users, NEW b \in Tasks, lock'[UserId(u)] = b
        PROVE  /\ pc'[b] \in {"change", "anonymise", "commit"} /\ user'[b] = u
               /\ pc'[b] # "commit" => work'[UserId(u)] = rows'[UserId(u)]
    <3>1. CASE Waits[b] = UserId(u) /\ work'[UserId(u)] = rows'[UserId(u)]
      BY <1>2, <1>3, <1>4, <2>1, <3>1, WaitsForInvite DEF OthersStay
    <3>2. CASE /\ lock[UserId(u)] = b
               /\ work'[UserId(u)] = work[UserId(u)] /\ rows'[UserId(u)] = rows[UserId(u)]
      BY <1>1, <1>2, <1>3, <1>4, <2>1, <3>2 DEF UsersHeld, OthersStay
    <3> QED
      BY <1>3, <1>4, <2>1, <3>1, <3>2
  <2>2. ASSUME NEW u \in Users, lock'[UserId(u)] = None
        PROVE  work'[UserId(u)] = rows'[UserId(u)]
    BY <1>1, <1>2, <1>4, <2>2 DEF UsersHeld
  <2> QED
    BY <2>1, <2>2 DEF UsersHeld
<1>8. Follows(a)'
  BY <1>2 DEF Follows, Kinds, Welcomes, Inviting, Accepting
<1>9. ASSUME NEW b \in Tasks \ {a} PROVE Follows(b)'
  <2>1. Kinds(b)'
    BY <1>1, <1>2 DEF Follows, Kinds, OthersStay, Inviting, Accepting
  <2>2. Welcomes(b)'
    <3>1. ASSUME NEW s \in Slugs, NEW u \in Users, pc'[b] = "commit", Joins(b, s, u)'
          PROVE  pc[b] = "commit" /\ Joins(b, s, u)
      BY <1>2, <1>3, <1>4, <3>1, WaitsFor DEF Joins, OthersStay
    <3> QED
      BY <1>1, <1>2, <1>4, <3>1 DEF Follows, Welcomes
  <2> QED
    BY <2>1, <2>2 DEF Follows
<1> QED
  BY <1>5, <1>6, <1>7, <1>8, <1>9 DEF Locking

\* Nothing is locked and nothing issued at the start.
LEMMA LockingInit == Init => Locking
<1> SUFFICES ASSUME Init PROVE Locking
  OBVIOUS
<1>1. \A i : InviteId(i)[1] = "invite"
  BY DEF InviteId
<1>2. \A u : UserId(u)[1] = "user" /\ UserId(u)[2] = u
  BY DEF UserId
<1>3. /\ \A i \in Invites : /\ rows[InviteId(i)] = None /\ work[InviteId(i)] = None
                            /\ lock[InviteId(i)] = None
      /\ \A u \in Users : work[UserId(u)] = rows[UserId(u)] /\ lock[UserId(u)] = None
  BY <1>1, <1>2, IdsDiffer DEF Init
<1>4. Issued
  BY <1>3, NoneAssumption DEF Init, Issued
<1>5. InvitesHeld
  BY <1>3, NoTaskIsNone DEF InvitesHeld
<1>6. UsersHeld
  BY <1>3, NoTaskIsNone DEF UsersHeld
<1>7. \A a \in Tasks : Follows(a)
  BY DEF Init, Follows, Kinds, Welcomes, Inviting, Accepting
<1> QED
  BY <1>4, <1>5, <1>6, <1>7 DEF Locking

\* Every step keeps the locks in order.
LEMMA LockingNext ==
    ASSUME IInv, IInv', Locking, [Next]_vars
    PROVE  Locking'
<1>1. CASE \E a \in Tasks : Starts(a) \/ Reads(a) \/ Flushes(a) \/ Ends(a)
  <2>1. PICK a \in Tasks : Starts(a) \/ Reads(a) \/ Flushes(a) \/ Ends(a)
    BY <1>1
  <2>2. CASE Flushes(a)
    BY <2>2, JoinLocks, InviteLocks DEF Flushes
  <2> QED
    BY <2>1, <2>2, StartLocks, ReadLocks, EndLocks
<1>2. CASE Passes
  <2>1. Issued' /\ InvitesHeld' /\ UsersHeld'
    BY <1>2 DEF Passes, local, Locking, Issued, InvitesHeld, HoldsInvite, UsersHeld
  <2>2. ASSUME NEW b \in Tasks PROVE Follows(b)'
    BY <1>2
    DEF Passes, local, Locking, Follows, Kinds, Welcomes, Joins, Inviting, Accepting
  <2> QED
    BY <2>1, <2>2 DEF Locking
<1> QED
  BY <1>1, <1>2, StepKinds DEF Locking

\* The two invariants together.
LEMMA LockingHolds == Spec => [](IInv /\ Locking)
<1>1. IInv /\ IInv' /\ Locking /\ [Next]_vars => Locking'
  BY LockingNext
<1> QED
  BY <1>1, LockingInit, Invariant, PTL DEF Spec
-------------------------------------------------------------------------------
(* What an invitation is for.                                                *)

\* What an invitation is for, in every version of it.
Origin == [organization : Slugs, email : Users]
From(r, o) == r.organization = o.organization /\ r.email = o.email

\* Invitation i is one that erasure a deletes, or has deleted.
Erases(a, i) ==
    \/ i \in todo[a]
    \/ pc[a] = "delete" /\ cur[a] = i
    \/ a \in Erasers /\ lock[InviteId(i)] = a

\* With f[i] the organization and the address of invitation i, an acceptance has
\* the one, and an erasure deletes only what was sent to its user.
Agree(f) ==
    /\ \A i \in Invites : \A r \in {rows[InviteId(i)], work[InviteId(i)]} :
          r # None => From(r, f[i])
    /\ \A a \in Tasks : pc[a] \in Accepting => From(snap[a], f[cur[a]])
    /\ \A a \in Tasks, i \in Invites :
          Erases(a, i) => f[i].email = user[a]

Agreed == \E f \in [Invites -> Origin \cup {None}] : Agree(f)

\* A step that writes no invitation, or one for what it is.
LEMMA AgreeKeeps ==
    ASSUME NEW f, Agree(f), NEW a \in Tasks, OthersStay(a),
           \A i \in Invites : \A r \in {rows'[InviteId(i)], work'[InviteId(i)]} :
               r # None => From(r, f[i]),
           pc'[a] \in Accepting => From(snap'[a], f[cur'[a]]),
           \A i \in Invites : Erases(a, i)' => f[i].email = user'[a],
           \A b \in Tasks \ {a}, i \in Invites : Erases(b, i)' => Erases(b, i)
    PROVE  Agree(f)'
<1>1. \A b \in Tasks : pc'[b] \in Accepting => From(snap'[b], f[cur'[b]])
  BY DEF Agree, OthersStay
<1>2. \A b \in Tasks, i \in Invites : Erases(b, i)' => f[i].email = user'[b]
  BY DEF Agree, OthersStay
<1> QED
  BY <1>1, <1>2 DEF Agree

\* A request reads the invitation it accepts, and an erasure those of its user.
LEMMA AgreeStarts ==
    ASSUME IInv, Locking, NEW f, Agree(f), NEW a \in Tasks, Starts(a)
    PROVE  Agree(f)'
<1>1. TablesTyped /\ InvitesHeld /\ Kinds(a)
  BY TypeParts DEF IInv, Locking, Follows
<1>2. pc[a] = "idle" /\ UNCHANGED <<rows, work, lock, issued>> /\ OthersStay(a)
  BY DEF Starts
<1>3. \A i \in Invites : rows[InviteId(i)] # None =>
        From([rows[InviteId(i)] EXCEPT !.status = "accepted"], f[i])
  <2>1. ASSUME NEW i \in Invites, NEW r, r = rows[InviteId(i)], r # None
        PROVE  From([r EXCEPT !.status = "accepted"], f[i])
    <3>1. r \in Invitation
      BY <1>1, <2>1, InvitesTyped
    <3> QED
      BY <2>1, <3>1 DEF Agree, From, Invitation
  <2> QED
    BY <2>1
<1>4. pc'[a] \in Accepting => From(snap'[a], f[cur'[a]])
  BY <1>3 DEF Starts, Accepting
<1>5. \A i \in Invites : Erases(a, i)' => f[i].email = user'[a]
  <2>1. \A i \in Invites : lock[InviteId(i)] # a
    BY <1>1, <1>2 DEF InvitesHeld, HoldsInvite
  <2>2. ASSUME NEW i \in Invites, i \in todo'[a] PROVE f[i].email = user'[a]
    <3>1. rows[InviteId(i)] # None /\ rows[InviteId(i)].email = user'[a]
      BY <1>1, <1>2, <2>2 DEF Starts, Kinds
    <3> QED
      BY <3>1 DEF Agree, From
  <2>3. \A i \in Invites : ~(pc'[a] = "delete" /\ cur'[a] = i)
    BY <1>1, <1>2, NoneAssumption DEF Starts, Kinds
  <2> QED
    BY <1>2, <2>1, <2>2, <2>3 DEF Erases
<1>6. \A b \in Tasks \ {a}, i \in Invites : Erases(b, i)' => Erases(b, i)
  BY <1>2 DEF Erases, OthersStay
<1> QED
  BY <1>2, <1>4, <1>5, <1>6, AgreeKeeps DEF Agree

\* An erasure takes the next invitation from those it has read.
LEMMA AgreeReads ==
    ASSUME IInv, Locking, NEW f, Agree(f), NEW a \in Tasks, Reads(a)
    PROVE  Agree(f)'
<1>1. UNCHANGED <<rows, work, lock, issued>> /\ OthersStay(a) /\ user'[a] = user[a]
  BY DEF Reads
<1>2. pc'[a] \in Accepting => From(snap'[a], f[cur'[a]])
  BY DEF Reads, Agree, Accepting
<1>3. \A i \in Invites : Erases(a, i)' => Erases(a, i)
  BY DEF Reads, Erases
<1>4. \A b \in Tasks \ {a}, i \in Invites : Erases(b, i)' => Erases(b, i)
  BY <1>1 DEF Erases, OthersStay
<1> QED
  BY <1>1, <1>2, <1>3, <1>4, AgreeKeeps DEF Agree

\* Only a new invitation is for something new.
LEMMA AgreeFlushes ==
    ASSUME IInv, Locking, NEW f \in [Invites -> Origin \cup {None}], Agree(f), NEW a \in Tasks, Flushes(a)
    PROVE  Agreed'
<1>1. /\ LocalsTyped /\ Issued /\ InvitesHeld /\ Kinds(a) /\ InOrder(a)
      /\ OthersStay(a) /\ user'[a] = user[a] /\ snap'[a] = snap[a] /\ todo'[a] = todo[a]
  BY TypeParts DEF IInv, Locking, Follows, Flushes
<1>2. CASE pc[a] # "invite"
  <2>1. PICK k, r :
          /\ k \in RowIds /\ Writes(a, k, r)
          /\ \A i \in Invites : k = InviteId(i) =>
                /\ r # None => From(r, f[i])
                /\ pc[a] = "accept" \/ (pc[a] = "delete" /\ cur[a] = i)
    <3>1. CASE pc[a] = "organization"
      BY <3>1, IdsDiffer DEF Flushes
    <3>2. CASE pc[a] \in {"creator", "join"}
      BY <3>2, IdsDiffer DEF Flushes
    <3>3. CASE pc[a] = "accept"
      BY <3>3, IdsDiffer DEF Flushes, Agree, Accepting
    <3>4. CASE pc[a] = "delete"
      BY <3>4, IdsDiffer DEF Flushes
    <3>5. CASE pc[a] \in {"change", "anonymise"}
      BY <3>5, IdsDiffer DEF Flushes
    <3> QED
      BY <1>2, <3>1, <3>2, <3>3, <3>4, <3>5 DEF Flushes
  <2>2. /\ rows' = rows /\ work'[k] = r /\ lock'[k] = a /\ lock[k] \in {None, a}
        /\ \A j \in RowIds \ {k} : work'[j] = work[j] /\ lock'[j] = lock[j]
    BY <2>1 DEF Writes
  <2>3. \A i \in Invites : \A c \in {rows'[InviteId(i)], work'[InviteId(i)]} :
          c # None => From(c, f[i])
    BY <2>1, <2>2, IdsDiffer DEF Agree
  <2>4. pc'[a] \in Accepting => From(snap'[a], f[cur'[a]])
    BY <1>1, <1>2 DEF Flushes, Agree, Accepting
  <2>5. \A i \in Invites : Erases(a, i)' => Erases(a, i)
    <3>1. pc[a] = "accept" => a \notin Erasers
      BY <1>1, TasksAssumption DEF Kinds, Accepting
    <3>2. \A i \in Invites : pc'[a] = "delete" => cur'[a] # i
      BY <1>2, NoneAssumption DEF Flushes
    <3> QED
      BY <1>1, <2>1, <2>2, <3>1, <3>2, IdsDiffer DEF Erases
  <2>6. \A b \in Tasks \ {a}, i \in Invites : Erases(b, i)' => Erases(b, i)
    BY <1>1, <2>2, IdsDiffer DEF Erases, OthersStay
  <2>7. Agree(f)'
    BY <1>1, <2>3, <2>4, <2>5, <2>6, AgreeKeeps DEF Agree
  <2> QED
    BY <2>7 DEF Agreed
<1>3. CASE pc[a] = "invite"
  <2>1. PICK i \in Invites, r \in Invitation :
          /\ i = issued + 1 /\ pc'[a] = "commit" /\ r.organization = org[a] /\ r.email = guest[a]
          /\ Writes(a, InviteId(i), r)
    BY <1>3 DEF Flushes
  <2>2. i > issued /\ a \notin Erasers
    BY <1>1, <1>3, <2>1, TasksAssumption DEF LocalsTyped, Kinds, Inviting
  <2>3. PICK g \in [Invites -> Origin \cup {None}] :
          From(r, g[i]) /\ \A j \in Invites \ {i} : g[j] = f[j]
    <3>1. [organization |-> org[a], email |-> guest[a]] \in Origin
      BY <2>1 DEF Origin, Invitation
    <3>2. /\ [f EXCEPT ![i] = [organization |-> org[a], email |-> guest[a]]] \in [Invites -> Origin \cup {None}]
          /\ From(r, [f EXCEPT ![i] = [organization |-> org[a], email |-> guest[a]]][i])
          /\ \A j \in Invites \ {i} :
                [f EXCEPT ![i] = [organization |-> org[a], email |-> guest[a]]][j] = f[j]
      BY <2>1, <3>1 DEF From
    <3> QED
      BY <3>2
  <2>4. Agree(g)
    <3>1. rows[InviteId(i)] = None /\ work[InviteId(i)] = None /\ lock[InviteId(i)] = None
      BY <1>1, <2>2 DEF Issued
    <3>2. \A b \in Tasks : cur[b] # i /\ i \notin todo[b]
      BY <1>1, <2>2 DEF Issued
    <3>3. \A b \in Tasks : ~Erases(b, i)
      BY <3>1, <3>2, NoTaskIsNone DEF Erases
    <3>4. \A b \in Tasks : pc[b] \in Accepting => cur[b] \in Invites
      BY DEF IInv, InOrder, WorksOn
    <3> QED
      BY <2>3, <3>1, <3>2, <3>3, <3>4 DEF Agree
  <2>5. /\ rows' = rows /\ work'[InviteId(i)] = r /\ lock'[InviteId(i)] = a
        /\ lock[InviteId(i)] \in {None, a}
        /\ \A j \in RowIds \ {InviteId(i)} : work'[j] = work[j] /\ lock'[j] = lock[j]
    BY <2>1 DEF Writes
  <2>6. \A j \in Invites : \A c \in {rows'[InviteId(j)], work'[InviteId(j)]} :
          c # None => From(c, g[j])
    BY <2>3, <2>4, <2>5, IdsDiffer DEF Agree
  <2>7. \A j \in Invites : Erases(a, j)' => Erases(a, j)
    BY <1>1, <2>1, <2>2 DEF Erases
  <2>8. \A b \in Tasks \ {a}, j \in Invites : Erases(b, j)' => Erases(b, j)
    BY <1>1, <2>5, IdsDiffer DEF Erases, OthersStay
  <2>9. pc'[a] \notin Accepting /\ \A j \in Invites : Erases(a, j)' => g[j].email = user'[a]
    BY <1>1, <2>1, <2>4, <2>7 DEF Agree, Accepting
  <2>10. Agree(g)'
    BY <1>1, <2>4, <2>6, <2>8, <2>9, AgreeKeeps
  <2> QED
    BY <2>10 DEF Agreed
<1> QED
  BY <1>2, <1>3

\* A task that gets a lock for a deletion has chosen the invitation before.
LEMMA AgreeEnds ==
    ASSUME IInv, Locking, NEW f, Agree(f), NEW a \in Tasks, Ends(a)
    PROVE  Agree(f)'
<1>1. \A b \in Tasks : Kinds(b)
  BY DEF Locking, Follows
<1>2. /\ OthersStay(a) /\ pc'[a] = "idle" /\ todo'[a] = {}
      /\ \A k \in RowIds : lock[k] # a =>
            rows'[k] = rows[k] /\ work'[k] = work[k] /\ lock'[k] = lock[k]
      /\ \A k \in RowIds : lock[k] = a =>
            /\ rows'[k] = work'[k] /\ lock'[k] # a
            /\ lock'[k] # None => Waits[lock'[k]] = k
            /\ rows'[k] \in {rows[k], work[k]}
  BY DEF Ends
<1>3. \A i \in Invites : InviteId(i) \in RowIds
  BY IdsDiffer
<1>4. \A i \in Invites : \A r \in {rows'[InviteId(i)], work'[InviteId(i)]} :
        r # None => From(r, f[i])
  <2>1. \A i \in Invites :
           {rows'[InviteId(i)], work'[InviteId(i)]} \subseteq {rows[InviteId(i)], work[InviteId(i)]}
    BY <1>2, <1>3
  <2> QED
    BY <2>1 DEF Agree
<1>5. \A i \in Invites : ~Erases(a, i)'
  BY <1>2, <1>3 DEF Erases
<1>6. ASSUME NEW b \in Tasks \ {a}, NEW i \in Invites, Erases(b, i)'
      PROVE  Erases(b, i)
  <2>1. CASE lock[InviteId(i)] = a /\ b \in Erasers /\ lock'[InviteId(i)] = b
    <3>1. pc[b] \in {"accept", "delete"} /\ cur[b] = i
      BY <1>2, <1>3, <2>1, WaitsForInvite, NoTaskIsNone
    <3>2. pc[b] # "accept"
      BY <1>1, <2>1, TasksAssumption DEF Kinds, Accepting
    <3> QED
      BY <3>1, <3>2 DEF Erases
  <2> QED
    BY <1>2, <1>3, <1>6, <2>1 DEF Erases, OthersStay
<1> QED
  BY <1>2, <1>4, <1>5, <1>6, AgreeKeeps DEF Accepting

\* Every step keeps what the invitations are for.
LEMMA AgreedNext ==
    ASSUME IInv, Locking, Agreed, [Next]_vars
    PROVE  Agreed'
<1>1. PICK f \in [Invites -> Origin \cup {None}] : Agree(f)
  BY DEF Agreed
<1>2. CASE \E a \in Tasks : Starts(a) \/ Reads(a) \/ Flushes(a) \/ Ends(a)
  <2>1. PICK a \in Tasks : Starts(a) \/ Reads(a) \/ Flushes(a) \/ Ends(a)
    BY <1>2
  <2>2. CASE Flushes(a)
    BY <1>1, <2>2, AgreeFlushes
  <2>3. CASE Starts(a) \/ Reads(a) \/ Ends(a)
    <3>1. Agree(f)'
      BY <1>1, <2>3, AgreeStarts, AgreeReads, AgreeEnds
    <3> QED
      BY <3>1 DEF Agreed
  <2> QED
    BY <2>1, <2>2, <2>3
<1>3. CASE Passes
  <2>1. Agree(f)'
    BY <1>1, <1>3 DEF Passes, local, Agree, Erases
  <2> QED
    BY <2>1 DEF Agreed
<1> QED
  BY <1>2, <1>3, StepKinds DEF Locking

\* No invitation is there at the start.
LEMMA AgreedInit == Init => Agreed
<1> SUFFICES ASSUME Init PROVE Agreed
  OBVIOUS
<1> DEFINE f == [i \in Invites |-> None]
<1>1. \A i : InviteId(i)[1] = "invite"
  BY DEF InviteId
<1>2. \A i \in Invites : /\ rows[InviteId(i)] = None /\ work[InviteId(i)] = None
                         /\ lock[InviteId(i)] = None
  BY <1>1, IdsDiffer DEF Init
<1>3. Agree(f)
  BY <1>2, NoTaskIsNone DEF Init, Agree, Erases, Accepting
<1> QED
  BY <1>3 DEF Agreed

\* No request is open again.
LEMMA ClosedStay ==
    ASSUME [Next]_vars
    PROVE  closed \subseteq closed'
<1>1. CASE \E a \in Tasks : Step(a) \/ Abort(a)
  BY <1>1
  DEF Step, Abort, InsertOrganization, InsertCreator, CheckPending, CheckMember, InsertInvitation,
      CheckAccount, FindMembership, JoinOrganization, GetInvitation, MarkAccepted, RereadUser,
      SaveChange, UpdateUser, NextInvitation, DeleteInvitation, UserEraserRaises, ReadUser,
      AnonymiseUser, Commit, DeadlockVictim, world
<1>2. CASE UNCHANGED vars
  BY <1>2 DEF vars, world
<1> QED
  BY <1>1, <1>2
  DEF Next, CreateOrganization, InviteMember, AcceptInvitation, ChangePassword, StartErasure, Tick,
      world

\* A commit shows a membership with the organization or with the acceptance, and
\* takes an acceptance away with an erasure request only.
LEMMA MembersNext ==
    ASSUME IInv, Locking, Agreed, MembersWereInvited, [Next]_vars
    PROVE  MembersWereInvited'
<1> DEFINE Shown(i, s, u) == LET r == rows[InviteId(i)]
                             IN  r # None /\ r.organization = s /\ r.email = u /\ r.status = "accepted"
<1>1. CASE rows' = rows
  BY <1>1, ClosedStay DEF MembersWereInvited, ListOrganizationMembers
<1>2. CASE rows' # rows
  <2>1. PICK a \in Tasks :
          /\ Ends(a) /\ pc[a] = "commit" /\ \A k \in RowIds : lock[k] = a => rows'[k] = work[k]
          /\ a \in Erasers => user[a] \in closed'
    BY <1>2, StepKinds DEF Locking, Starts, Reads, Flushes, Writes, Ends, Passes
  <2>2. \A k \in RowIds : rows'[k] = IF lock[k] = a THEN work[k] ELSE rows[k]
    BY <2>1 DEF Ends
  <2>3. PICK f \in [Invites -> Origin \cup {None}] : Agree(f)
    BY DEF Agreed
  <2>4. OrganizationOwned /\ MemberOwned /\ InvitesHeld /\ Follows(a)
    BY DEF IInv, Locking
  <2>5. ASSUME NEW i \in Invites, NEW s \in Slugs, NEW u \in Users, Shown(i, s, u)
        PROVE  Shown(i, s, u)' \/ u \in closed'
    <3>1. InviteId(i) \in RowIds
      BY IdsDiffer
    <3>2. CASE lock[InviteId(i)] # a
      BY <2>2, <2>5, <3>1, <3>2
    <3>3. CASE lock[InviteId(i)] = a /\ work[InviteId(i)] # None
      <4>1. work[InviteId(i)].status = "accepted"
        BY <2>1, <2>4, <2>5, <3>3, TasksAssumption DEF InvitesHeld, HoldsInvite
      <4>2. work[InviteId(i)].organization = s /\ work[InviteId(i)].email = u
        BY <2>3, <2>5, <3>3 DEF Agree, From
      <4> QED
        BY <2>2, <3>1, <3>3, <4>1, <4>2
    <3>4. CASE lock[InviteId(i)] = a /\ work[InviteId(i)] = None
      <4>1. a \in Erasers
        BY <2>1, <2>4, <2>5, <3>4 DEF InvitesHeld, HoldsInvite
      <4>2. user[a] = u
        BY <2>3, <2>5, <3>4, <4>1 DEF Agree, Erases, From
      <4> QED
        BY <2>1, <4>1, <4>2
    <3> QED
      BY <3>2, <3>3, <3>4
  <2>6. ASSUME NEW s \in Slugs, NEW u \in Users, rows'[MemberId(s, u)] # None
        PROVE  \/ rows'[OrganizationId(s)] = u
               \/ u \in closed'
               \/ \E i \in Invites : Shown(i, s, u)'
    <3>1. /\ MemberId(s, u) \in RowIds /\ OrganizationId(s) \in RowIds
          /\ \A i \in Invites : InviteId(i) \in RowIds
      BY IdsDiffer
    <3>2. CASE lock[MemberId(s, u)] = a
      <4>1. Joins(a, s, u) /\ user[a] = u
        BY <2>2, <2>4, <2>6, <3>1, <3>2 DEF Joins, MemberOwned
      <4>2. CASE lock[OrganizationId(s)] = a
        BY <2>1, <2>2, <2>4, <3>1, <4>1, <4>2 DEF OrganizationOwned
      <4>3. CASE lock[OrganizationId(s)] # a
        <5>1. PICK i \in Invites : LET r == work[InviteId(i)]
                IN  /\ lock[InviteId(i)] = a /\ r # None
                    /\ r.organization = s /\ r.email = u /\ r.status = "accepted"
          BY <2>1, <2>4, <4>1, <4>3 DEF Follows, Welcomes
        <5> QED
          BY <2>2, <3>1, <5>1
      <4> QED
        BY <4>2, <4>3
    <3>3. CASE lock[MemberId(s, u)] # a
      <4>1. \/ rows[OrganizationId(s)] = u
            \/ u \in closed
            \/ \E i \in Invites : Shown(i, s, u)
        BY <2>2, <2>6, <3>1, <3>3 DEF MembersWereInvited, ListOrganizationMembers
      <4>2. CASE rows[OrganizationId(s)] = u
        BY <2>1, <2>2, <2>4, <3>1, <4>2, NoneAssumption DEF OrganizationOwned
      <4>3. CASE u \in closed
        BY <4>3, ClosedStay
      <4> QED
        BY <2>5, <4>1, <4>2, <4>3
    <3> QED
      BY <3>2, <3>3
  <2> QED
    BY <2>6 DEF MembersWereInvited, ListOrganizationMembers
<1> QED
  BY <1>1, <1>2

\* Whoever is a member of an organization has created it or is shown to have
\* accepted an invitation to the own address, until an erasure request of that user
\* is completed or fails: a membership commits with one of the two, and only such a
\* request, whose deletions commit with it, takes an acceptance away.
THEOREM NobodyUninvited == Spec => []MembersWereInvited
<1>1. Init => MembersWereInvited
  <2> SUFFICES ASSUME Init, NEW s \in Slugs, NEW u \in Users PROVE rows[MemberId(s, u)] = None
    BY DEF MembersWereInvited, ListOrganizationMembers
  <2>1. MemberId(s, u)[1] = "member" /\ MemberId(s, u) \in RowIds
    BY IdsDiffer DEF MemberId
  <2> QED
    BY <2>1 DEF Init
<1>2. Spec => []Agreed
  <2>1. (IInv /\ Locking) /\ Agreed /\ [Next]_vars => Agreed'
    BY AgreedNext
  <2> QED
    BY <2>1, AgreedInit, LockingHolds, PTL DEF Spec
<1>3. (IInv /\ Locking) /\ Agreed /\ MembersWereInvited /\ [Next]_vars => MembersWereInvited'
  BY MembersNext
<1> QED
  BY <1>1, <1>2, <1>3, LockingHolds, PTL DEF Spec
-------------------------------------------------------------------------------
(* Who has issued what.                                                      *)

\* With f[i] the request that issued invitation i: two that are pending for the
\* same address come from two requests, because a request that is about to issue
\* one, or to commit it, has issued none of those.
Minted(f) ==
    /\ \A i \in Invites :
          rows[InviteId(i)] # None /\ rows[InviteId(i)].status = "pending" => f[i] \in Webs
    /\ \A s \in Slugs, v \in Users, i, j \in Invites :
          IsPendingFor(rows[InviteId(i)], s, v) /\ IsPendingFor(rows[InviteId(j)], s, v) /\ f[i] = f[j]
            => i = j
    /\ \A a \in Tasks, i \in Invites :
          pc[a] \in {"member", "invite"} /\ IsPendingFor(rows[InviteId(i)], org[a], guest[a]) => f[i] # a
    /\ \A a \in Tasks, i \in Invites :
          LET w == work[InviteId(i)]
          IN  lock[InviteId(i)] = a /\ rows[InviteId(i)] = None /\ w # None /\ w.status = "pending" =>
                /\ f[i] = a
                /\ \A j \in Invites : IsPendingFor(rows[InviteId(j)], w.organization, w.email) => f[j] # a

Minters == \E f \in [Invites -> Webs \cup {None}] : Minted(f)

\* A step that changes no committed invitation and issues none.
LEMMA MintedKeeps ==
    ASSUME NEW f, Minted(f), NEW a \in Tasks, OthersStay(a), rows' = rows,
           pc'[a] \in {"member", "invite"} =>
               \A i \in Invites : IsPendingFor(rows[InviteId(i)], org'[a], guest'[a]) => f[i] # a,
           \A i \in Invites :
               LET w == work'[InviteId(i)]
               IN  w # None /\ w.status = "pending" =>
                     w = work[InviteId(i)] /\ lock'[InviteId(i)] = lock[InviteId(i)]
    PROVE  Minted(f)'
<1>1. /\ \A i \in Invites :
            rows[InviteId(i)] # None /\ rows[InviteId(i)].status = "pending" => f[i] \in Webs
      /\ \A s \in Slugs, v \in Users, i, j \in Invites :
            IsPendingFor(rows[InviteId(i)], s, v) /\ IsPendingFor(rows[InviteId(j)], s, v)
              /\ f[i] = f[j] => i = j
  BY DEF Minted
<1>2. ASSUME NEW b \in Tasks, NEW i \in Invites, pc'[b] \in {"member", "invite"},
             IsPendingFor(rows[InviteId(i)], org'[b], guest'[b])
      PROVE  f[i] # b
  BY <1>2 DEF Minted, OthersStay
<1>3. ASSUME NEW b \in Tasks, NEW i \in Invites, NEW w, w = work'[InviteId(i)],
             lock'[InviteId(i)] = b, rows[InviteId(i)] = None, w # None, w.status = "pending"
      PROVE  f[i] = b /\ \A j \in Invites :
                IsPendingFor(rows[InviteId(j)], w.organization, w.email) => f[j] # b
  BY <1>3 DEF Minted
<1> QED
  BY <1>1, <1>2, <1>3 DEF Minted, IsPendingFor

\* A request that goes on to issue has seen none that is pending.
LEMMA MintedQuiet ==
    ASSUME NEW f, Minted(f), NEW a \in Tasks, Starts(a) \/ Reads(a)
    PROVE  Minted(f)'
<1>1. UNCHANGED <<rows, work, lock, issued>> /\ OthersStay(a)
  BY DEF Starts, Reads
<1>2. pc'[a] \in {"member", "invite"} =>
        \A i \in Invites : IsPendingFor(rows[InviteId(i)], org'[a], guest'[a]) => f[i] # a
  BY DEF Starts, Reads, Minted
<1> QED
  BY <1>1, <1>2, MintedKeeps

\* The request that issues an invitation has issued none for the address.
LEMMA MintedFlushes ==
    ASSUME IInv, Locking, NEW f \in [Invites -> Webs \cup {None}], Minted(f),
           NEW a \in Tasks, Flushes(a)
    PROVE  Minters'
<1>1. LocalsTyped /\ Issued /\ Kinds(a) /\ OthersStay(a)
  BY TypeParts DEF IInv, Locking, Follows, Flushes
<1>2. CASE pc[a] # "invite"
  <2>1. PICK k, r :
          /\ k \in RowIds /\ Writes(a, k, r)
          /\ \A i \in Invites : k = InviteId(i) => r = None \/ r.status = "accepted"
    <3>1. CASE pc[a] = "organization"
      BY <3>1, IdsDiffer DEF Flushes
    <3>2. CASE pc[a] \in {"creator", "join"}
      BY <3>2, IdsDiffer DEF Flushes
    <3>3. CASE pc[a] = "accept"
      BY <1>1, <3>3, IdsDiffer DEF Flushes, Kinds, Accepting
    <3>4. CASE pc[a] = "delete"
      BY <3>4, IdsDiffer DEF Flushes
    <3>5. CASE pc[a] \in {"change", "anonymise"}
      BY <3>5, IdsDiffer DEF Flushes
    <3> QED
      BY <1>2, <3>1, <3>2, <3>3, <3>4, <3>5 DEF Flushes
  <2>2. \A i \in Invites :
          LET w == work'[InviteId(i)]
          IN  w # None /\ w.status = "pending" =>
                w = work[InviteId(i)] /\ lock'[InviteId(i)] = lock[InviteId(i)]
    BY <2>1, IdsDiffer DEF Writes
  <2>3. rows' = rows /\ pc'[a] \notin {"member", "invite"}
    BY <1>2, <2>1 DEF Writes, Flushes
  <2>4. Minted(f)'
    BY <1>1, <2>2, <2>3, MintedKeeps
  <2> QED
    BY <2>4 DEF Minters
<1>3. CASE pc[a] = "invite"
  <2>1. PICK i \in Invites, r \in Invitation :
          /\ i = issued + 1 /\ pc'[a] = "commit" /\ r.organization = org[a] /\ r.email = guest[a]
          /\ Writes(a, InviteId(i), r)
    BY <1>3 DEF Flushes
  <2>2. i > issued /\ a \in Webs
    BY <1>1, <1>3, <2>1 DEF LocalsTyped, Kinds, Inviting
  <2>3. rows[InviteId(i)] = None
    BY <1>1, <2>2 DEF Issued
  <2>4. PICK g \in [Invites -> Webs \cup {None}] : g[i] = a /\ \A j \in Invites \ {i} : g[j] = f[j]
    <3>1. /\ [f EXCEPT ![i] = a] \in [Invites -> Webs \cup {None}] /\ [f EXCEPT ![i] = a][i] = a
          /\ \A j \in Invites \ {i} : [f EXCEPT ![i] = a][j] = f[j]
      BY <2>1, <2>2
    <3> QED
      BY <3>1
  <2>5. /\ rows' = rows /\ work'[InviteId(i)] = r /\ lock'[InviteId(i)] = a
        /\ \A j \in Invites \ {i} : /\ work'[InviteId(j)] = work[InviteId(j)]
                                    /\ lock'[InviteId(j)] = lock[InviteId(j)]
    BY <2>1, IdsDiffer DEF Writes
  <2>6. \A j \in Invites : rows[InviteId(j)] # None => g[j] = f[j]
    BY <2>3, <2>4
  <2>7. \A j \in Invites : IsPendingFor(rows[InviteId(j)], org[a], guest[a]) => g[j] # a
    BY <1>3, <2>6 DEF Minted, IsPendingFor
  <2>8. /\ \A j \in Invites :
              rows[InviteId(j)] # None /\ rows[InviteId(j)].status = "pending" => g[j] \in Webs
        /\ \A s \in Slugs, v \in Users, h, j \in Invites :
              IsPendingFor(rows[InviteId(h)], s, v) /\ IsPendingFor(rows[InviteId(j)], s, v)
                /\ g[h] = g[j] => h = j
    BY <2>6 DEF Minted, IsPendingFor
  <2>9. ASSUME NEW b \in Tasks, NEW j \in Invites, pc'[b] \in {"member", "invite"},
               IsPendingFor(rows[InviteId(j)], org'[b], guest'[b])
        PROVE  g[j] # b
    BY <1>1, <2>1, <2>6, <2>9 DEF Minted, OthersStay, IsPendingFor
  <2>10. ASSUME NEW b \in Tasks, NEW j \in Invites, NEW w, w = work'[InviteId(j)],
                lock'[InviteId(j)] = b, rows[InviteId(j)] = None, w # None, w.status = "pending"
         PROVE  g[j] = b /\ \A h \in Invites :
                   IsPendingFor(rows[InviteId(h)], w.organization, w.email) => g[h] # b
    <3>1. CASE j = i
      BY <2>1, <2>4, <2>5, <2>7, <2>10, <3>1
    <3>2. CASE j # i
      <4>1. f[j] = b /\ \A h \in Invites :
              IsPendingFor(rows[InviteId(h)], w.organization, w.email) => f[h] # b
        BY <2>5, <2>10, <3>2 DEF Minted
      <4> QED
        BY <2>4, <2>6, <3>2, <4>1 DEF IsPendingFor
    <3> QED
      BY <3>1, <3>2
  <2>11. Minted(g)'
    BY <2>5, <2>8, <2>9, <2>10 DEF Minted, IsPendingFor
  <2> QED
    BY <2>11 DEF Minters
<1> QED
  BY <1>2, <1>3

\* A request commits the one invitation it has issued, and is done.
LEMMA MintedEnds ==
    ASSUME IInv, Locking, NEW f, Minted(f), NEW a \in Tasks, Ends(a)
    PROVE  Minted(f)'
<1>1. InvitesHeld /\ Kinds(a)
  BY DEF Locking, Follows
<1>2. /\ OthersStay(a) /\ pc'[a] = "idle"
      /\ \A k \in RowIds : lock[k] # a =>
            rows'[k] = rows[k] /\ work'[k] = work[k] /\ lock'[k] = lock[k]
      /\ \A k \in RowIds : lock[k] = a =>
            /\ rows'[k] = work'[k] /\ lock'[k] # a
            /\ rows'[k] = rows[k] \/ (pc[a] = "commit" /\ rows'[k] = work[k])
  BY DEF Ends
<1>3. \A i \in Invites : InviteId(i) \in RowIds
  BY IdsDiffer
<1>4. ASSUME NEW i \in Invites, NEW r, r = rows'[InviteId(i)], r # None, r.status = "pending"
      PROVE  \/ r = rows[InviteId(i)]
             \/ /\ lock[InviteId(i)] = a /\ a \in Webs /\ cur[a] = i
                /\ rows[InviteId(i)] = None /\ r = work[InviteId(i)] /\ f[i] = a
                /\ \A j \in Invites :
                      IsPendingFor(rows[InviteId(j)], r.organization, r.email) => f[j] # a
  <2>1. CASE r # rows[InviteId(i)]
    <3>1. lock[InviteId(i)] = a /\ pc[a] = "commit" /\ r = work[InviteId(i)]
      BY <1>2, <1>3, <1>4, <2>1
    <3>2. a \in Webs /\ cur[a] = i /\ rows[InviteId(i)] = None
      BY <1>1, <1>4, <3>1, TasksAssumption DEF InvitesHeld, HoldsInvite
    <3> QED
      BY <1>4, <3>1, <3>2 DEF Minted
  <2> QED
    BY <2>1
<1>5. \A i \in Invites :
        rows'[InviteId(i)] # None /\ rows'[InviteId(i)].status = "pending" => f[i] \in Webs
  BY <1>4 DEF Minted
<1>6. ASSUME NEW s \in Slugs, NEW v \in Users, NEW i \in Invites, NEW j \in Invites,
             IsPendingFor(rows'[InviteId(i)], s, v), IsPendingFor(rows'[InviteId(j)], s, v),
             f[i] = f[j]
      PROVE  i = j
  <2>1. \/ IsPendingFor(rows[InviteId(i)], s, v)
        \/ /\ cur[a] = i /\ f[i] = a
           /\ \A h \in Invites : IsPendingFor(rows[InviteId(h)], s, v) => f[h] # a
    BY <1>4, <1>6 DEF IsPendingFor
  <2>2. \/ IsPendingFor(rows[InviteId(j)], s, v)
        \/ /\ cur[a] = j /\ f[j] = a
           /\ \A h \in Invites : IsPendingFor(rows[InviteId(h)], s, v) => f[h] # a
    BY <1>4, <1>6 DEF IsPendingFor
  <2> QED
    BY <1>6, <2>1, <2>2 DEF Minted
<1>7. ASSUME NEW b \in Tasks \ {a}, NEW i \in Invites, NEW s, NEW v,
             IsPendingFor(rows'[InviteId(i)], s, v),
             IsPendingFor(rows[InviteId(i)], s, v) => f[i] # b
      PROVE  f[i] # b
  BY <1>4, <1>7 DEF IsPendingFor
<1>8. ASSUME NEW b \in Tasks, NEW i \in Invites, pc'[b] \in {"member", "invite"},
             IsPendingFor(rows'[InviteId(i)], org'[b], guest'[b])
      PROVE  f[i] # b
  <2>1. b # a /\ pc[b] \in {"member", "invite"} /\ org'[b] = org[b] /\ guest'[b] = guest[b]
    BY <1>2, <1>8 DEF OthersStay
  <2> QED
    BY <1>7, <1>8, <2>1 DEF Minted
<1>9. ASSUME NEW b \in Tasks, NEW i \in Invites, NEW w, w = work'[InviteId(i)],
             lock'[InviteId(i)] = b, rows'[InviteId(i)] = None, w # None, w.status = "pending"
      PROVE  f[i] = b /\ \A j \in Invites :
                IsPendingFor(rows'[InviteId(j)], w.organization, w.email) => f[j] # b
  <2>1. /\ b # a /\ lock[InviteId(i)] = b /\ w = work[InviteId(i)]
        /\ rows[InviteId(i)] = None
    BY <1>2, <1>3, <1>9
  <2> QED
    BY <1>7, <1>9, <2>1 DEF Minted
<1> QED
  BY <1>5, <1>6, <1>8, <1>9 DEF Minted

\* Every step keeps the invitations apart.
LEMMA MintersNext ==
    ASSUME IInv, Locking, Minters, [Next]_vars
    PROVE  Minters'
<1>1. PICK f \in [Invites -> Webs \cup {None}] : Minted(f)
  BY DEF Minters
<1>2. CASE \E a \in Tasks : Starts(a) \/ Reads(a) \/ Flushes(a) \/ Ends(a)
  <2>1. PICK a \in Tasks : Starts(a) \/ Reads(a) \/ Flushes(a) \/ Ends(a)
    BY <1>2
  <2>2. CASE Flushes(a)
    BY <1>1, <2>2, MintedFlushes
  <2>3. CASE Starts(a) \/ Reads(a) \/ Ends(a)
    <3>1. Minted(f)'
      BY <1>1, <2>3, MintedQuiet, MintedEnds
    <3> QED
      BY <3>1 DEF Minters
  <2> QED
    BY <2>1, <2>2, <2>3
<1>3. CASE Passes
  <2>1. Minted(f)'
    BY <1>1, <1>3 DEF Passes, local, Minted, IsPendingFor
  <2> QED
    BY <2>1 DEF Minters
<1> QED
  BY <1>2, <1>3, StepKinds DEF Locking

\* Whoever can be told apart by an owner is no more than the owners.
LEMMA DistinctOwners ==
    ASSUME NEW S, NEW T, IsFiniteSet(T), NEW f,
           \A x \in S : f[x] \in T, \A x, y \in S : f[x] = f[y] => x = y
    PROVE  Cardinality(S) <= Cardinality(T)
<1> DEFINE g == [x \in S |-> f[x]]
<1>1. g \in [S -> T] /\ \A x, y \in S : g[x] = g[y] => x = y
  OBVIOUS
<1> HIDE DEF g
<1>2. g \in Injection(S, T)
  BY <1>1 DEF Injection, IsInjective
<1> QED
  BY <1>2, FS_Injection

\* The check for a pending invitation, which no constraint backs, lets through at
\* most one for each request that can be between the check and the commit: the
\* address never has more in the organization, however many are issued in time.
THEOREM PendingInvitesBounded == Spec => []PendingInvitesOverlap
<1>1. Init => Minters
  <2> SUFFICES ASSUME Init PROVE Minters
    OBVIOUS
  <2> DEFINE f == [i \in Invites |-> None]
  <2>1. \A i : InviteId(i)[1] = "invite"
    BY DEF InviteId
  <2>2. \A i \in Invites : rows[InviteId(i)] = None /\ lock[InviteId(i)] = None
    BY <2>1, IdsDiffer DEF Init
  <2>3. Minted(f)
    BY <2>2, NoTaskIsNone DEF Minted, IsPendingFor
  <2> QED
    BY <2>3 DEF Minters
<1>2. (IInv /\ Locking) /\ Minters /\ [Next]_vars => Minters'
  BY MintersNext
<1>3. Minters => PendingInvitesOverlap
  <2> SUFFICES ASSUME NEW f, Minted(f), NEW s \in Slugs, NEW v \in Users
               PROVE  Cardinality({i \in Invites : IsPendingFor(rows[InviteId(i)], s, v)})
                         <= Cardinality(Webs)
    BY DEF Minters, PendingInvitesOverlap
  <2> DEFINE S == {i \in Invites : IsPendingFor(rows[InviteId(i)], s, v)}
  <2>1. /\ \A i \in S : f[i] \in Webs
        /\ \A i, j \in S : f[i] = f[j] => i = j
    BY DEF Minted, IsPendingFor
  <2> HIDE DEF S
  <2>2. Cardinality(S) <= Cardinality(Webs)
    BY <2>1, DistinctOwners, FiniteAssumption
  <2> QED
    BY <2>2 DEF S
<1> QED
  BY <1>1, <1>2, <1>3, LockingHolds, PTL DEF Spec
-------------------------------------------------------------------------------
(* Who waits for whom.                                                       *)

\* A user is erased by one erasure at a time.
OneErasurePerUser ==
    \A d, e \in Erasers : pc[d] # "idle" /\ pc[e] # "idle" /\ user[d] = user[e] => d = e

\* Whom a task waits for: whoever holds its row, an update of the user its INSERT
\* refers to, or an INSERT that refers to the user it updates; and that is a task
\* at work, which in the second case has only the commit before it.
LEMMA BlocksHow ==
    ASSUME IInv, Locking, NEW a \in Tasks, NEW b \in Blockers(a)
    PROVE  /\ b \in Tasks /\ b # a /\ pc[b] # "idle"
           /\ \/ lock[Waits[a]] = b /\ Waits[a] \in RowIds
              \/ pc[b] = "commit"
              \/ /\ pc[a] \in {"change", "anonymise"} /\ user[a] = user[b]
                 /\ pc[b] \in {"get", "accept", "commit"}
<1>1. /\ TablesTyped /\ LocalsTyped /\ OrganizationOwned /\ MemberOwned /\ InOrder(a)
      /\ InvitesHeld /\ UsersHeld
  BY TypeParts DEF IInv, Locking
<1>2. b \in Tasks /\ b # a
  BY DEF Blockers
<1>3. CASE lock[Waits[a]] = b /\ Waits[a] # None
  <2>0. /\ pc[a] \in {"organization", "join"} => org[a] \in Slugs
        /\ pc[a] # "idle" => user[a] \in Users
        /\ pc[a] = "accept" \/ (pc[a] = "delete" /\ cur[a] # None) => cur[a] \in Invites
    BY <1>1 DEF InOrder, WorksOn, LocalsTyped, Accepting
  <2>1. \/ \E s \in Slugs : Waits[a] = OrganizationId(s)
        \/ \E s \in Slugs, u \in Users : Waits[a] = MemberId(s, u)
        \/ \E i \in Invites : Waits[a] = InviteId(i)
        \/ \E u \in Users : Waits[a] = UserId(u)
    BY <1>3, <2>0 DEF Waits
  <2>2. pc[b] # "idle"
    BY <1>1, <1>2, <1>3, <2>1
    DEF OrganizationOwned, MemberOwned, InvitesHeld, HoldsInvite, UsersHeld
  <2> QED
    BY <1>2, <1>3, <2>1, <2>2, RowIdsAssumption
<1>4. CASE /\ Referenced[a] # None /\ lock[UserId(Referenced[a])] = b
           /\ work[UserId(Referenced[a])] # rows[UserId(Referenced[a])]
  <2>1. Referenced[a] \in Users
    <3>1. pc[a] \in Accepting => snap[a].by \in Users
      BY <1>1 DEF InOrder, WorksOn, Invitation
    <3> QED
      BY <1>1, <1>4, <3>1 DEF Referenced, InOrder, WorksOn, Accepting
  <2> QED
    BY <1>1, <1>2, <1>4, <2>1 DEF UsersHeld
<1>5. CASE ChangesKey(a) /\ SharesKey(b, user[a])
  <2>1. pc[a] \in {"change", "anonymise"} /\ user[a] \in Users
    BY <1>1, <1>5 DEF ChangesKey, InOrder, WorksOn
  <2>2. CASE \E s \in Slugs : Inserted(b, MemberId(s, user[a]))
    BY <1>1, <1>2, <2>1, <2>2 DEF Inserted, MemberOwned
  <2>3. CASE \E i \in Invites : Inserted(b, InviteId(i))
    BY <1>1, <1>2, <2>3 DEF Inserted, InvitesHeld, HoldsInvite
  <2> QED
    BY <1>2, <1>5, <2>1, <2>2, <2>3 DEF SharesKey
<1> QED
  BY <1>2, <1>3, <1>4, <1>5 DEF Blockers

\* Nobody waits before a commit or a read,
LEMMA NoneBlocks ==
    ASSUME IInv, NEW a \in Tasks, Blockers(a) # {}
    PROVE  pc[a] \notin {"commit", "get", "user"}
<1> SUFFICES ASSUME pc[a] \in {"commit", "get", "user"} PROVE FALSE
  OBVIOUS
<1>1. Waits[a] = None /\ Referenced[a] = None /\ ~ChangesKey(a)
  BY DEF Waits, Referenced, ChangesKey
<1> QED
  BY <1>1, NoneAssumption DEF Blockers

\* and of those in a circle nobody for a user only.
LEMMA CircleBlocks ==
    ASSUME IInv, Locking, NEW a \in Tasks, NEW b \in Blockers(a), Blockers(b) # {}
    PROVE  /\ b \in Tasks /\ b # a
           /\ \/ lock[Waits[a]] = b /\ Waits[a] \in RowIds
              \/ pc[a] \in {"change", "anonymise"} /\ pc[b] = "accept" /\ user[a] = user[b]
  BY BlocksHow, NoneBlocks

\* A task that keeps another one waiting, and waits for a third that waits, is an
\* acceptance or an erasure or changes a user.
LEMMA CirclePhases ==
    ASSUME IInv, Locking, NEW a \in Tasks, NEW b \in Blockers(a), NEW c \in Blockers(b),
           Blockers(c) # {}
    PROVE  pc[b] \in {"accept", "delete", "change", "anonymise"}
<1>1. /\ OrganizationOwned /\ MemberOwned /\ InvitesHeld /\ UsersHeld
      /\ \A d \in Tasks : WorksOn(d) /\ Kinds(d)
  BY DEF IInv, InOrder, Locking, Follows
<1>2. b \in Tasks /\ pc[b] \notin {"commit", "get", "user"}
  BY CircleBlocks, NoneBlocks
<1>3. pc[b] \notin {"change", "anonymise"} =>
        /\ lock[Waits[b]] = c /\ Waits[b] \in RowIds /\ c # b
  BY <1>2, CircleBlocks
<1>4. CASE lock[Waits[a]] = b /\ Waits[a] \in RowIds
  <2>1. CASE \E s \in Slugs : Waits[a] = OrganizationId(s)
    <3>1. PICK s \in Slugs : lock[OrganizationId(s)] = b
      BY <1>4, <2>1
    <3>2. pc[b] \in {"organization", "creator", "commit"} /\ org[b] = s
      BY <1>1, <1>2, <3>1 DEF OrganizationOwned
    <3>3. pc[b] # "creator"
      BY <1>2, <1>3, NoneAssumption DEF Waits
    <3> QED
      BY <1>2, <1>3, <3>1, <3>2, <3>3, WaitsAt
  <2>2. CASE \E s \in Slugs, u \in Users : Waits[a] = MemberId(s, u)
    <3>1. PICK s \in Slugs, u \in Users : lock[MemberId(s, u)] = b
      BY <1>4, <2>2
    <3>2. pc[b] \in {"join", "get", "accept", "commit"} /\ org[b] = s /\ user[b] = u
      BY <1>1, <1>2, <3>1 DEF MemberOwned
    <3> QED
      BY <1>2, <1>3, <3>1, <3>2, WaitsAt
  <2>3. CASE \E i \in Invites : Waits[a] = InviteId(i)
    BY <1>1, <1>2, <1>4, <2>3 DEF InvitesHeld, HoldsInvite
  <2>4. CASE \E u \in Users : Waits[a] = UserId(u)
    BY <1>1, <1>2, <1>4, <2>4 DEF UsersHeld
  <2> QED
    BY <1>4, <2>1, <2>2, <2>3, <2>4, RowIdsAssumption
<1> QED
  BY <1>2, <1>4, CircleBlocks

\* An acceptance or an erasure in a circle waits for an erasure that has deleted
\* the invitation.
LEMMA CircleDeletes ==
    ASSUME IInv, Locking, NEW b \in Tasks, pc[b] \in {"accept", "delete"}, NEW c \in Blockers(b),
           NEW d \in Blockers(c), Blockers(d) # {}
    PROVE  /\ c \in Erasers /\ c # b /\ pc[c] \in {"delete", "anonymise"}
           /\ cur[b] \in Invites /\ lock[InviteId(cur[b])] = c
<1>1. InvitesHeld /\ WorksOn(b) /\ Kinds(c) /\ LocalsTyped
  BY TypeParts DEF IInv, InOrder, Locking, Follows, BlocksHow, Blockers
<1>2. lock[Waits[b]] = c /\ Waits[b] \in RowIds /\ c # b /\ c \in Tasks
  BY CircleBlocks
<1>3. cur[b] \in Invites /\ Waits[b] = InviteId(cur[b])
  BY <1>1, <1>2, NoneAssumption DEF Waits, WorksOn, Accepting, LocalsTyped
<1>4. HoldsInvite(c, cur[b])
  BY <1>1, <1>2, <1>3 DEF InvitesHeld
<1>5. pc[c] \notin {"commit", "user"}
  BY <1>2, NoneBlocks
<1>6. ~(pc[c] \in {"accept", "delete"} /\ cur[c] = cur[b])
  <2> SUFFICES ASSUME pc[c] \in {"accept", "delete"}, cur[c] = cur[b] PROVE FALSE
    OBVIOUS
  <2>1. Waits[c] = InviteId(cur[c])
    BY <1>2, <1>3, WaitsAt, NoneAssumption
  <2> QED
    BY <1>2, <1>3, <2>1, CircleBlocks
<1> QED
  BY <1>2, <1>3, <1>4, <1>5, <1>6 DEF HoldsInvite

\* Whoever waits waits for a transaction that is at work, and as long as a user is
\* erased by one erasure at a time, an acceptance and an erasure of the same user
\* are the heart of every circle: requests lock the organization before the
\* membership before the invitation, and an erasure locks invitations, which
\* acceptances lock last, before the user, whose key they have shared by then.
THEOREM WaitsAreForWorkers == Spec => [](OneErasurePerUser => WaitsEnd)
<1>1. Spec => []Agreed
  <2>1. (IInv /\ Locking) /\ Agreed /\ [Next]_vars => Agreed'
    BY AgreedNext
  <2> QED
    BY <2>1, AgreedInit, LockingHolds, PTL DEF Spec
<1>2. (IInv /\ Locking) /\ Agreed => (OneErasurePerUser => WaitsEnd)
  <2> SUFFICES ASSUME IInv, Locking, Agreed, OneErasurePerUser PROVE WaitsEnd
    OBVIOUS
  <2>1. \A a \in Tasks : \A b \in Blockers(a) : pc[b] # "idle"
    BY BlocksHow
  <2>2. PICK f : Agree(f)
    BY DEF Agreed
  <2> SUFFICES ASSUME NEW S \in Circles
               PROVE  \E e \in S \cap Erasers, w \in S :
                          pc[e] = "anonymise" /\ pc[w] = "accept" /\ user[w] = user[e]
    BY <2>1 DEF WaitsEnd
  <2>3. /\ S \subseteq Tasks
        /\ \A b \in S : Blockers(b) # {} /\ \E c \in S : c \in Blockers(b)
        /\ \E a \in S : TRUE
    BY DEF Circles, Waiting
  <2>4. \A b, c \in S : c \in Blockers(b) => pc[c] \in {"accept", "delete", "change", "anonymise"}
    BY <2>3, CirclePhases
  <2>5. \A b, c \in S : pc[b] \in {"accept", "delete"} /\ c \in Blockers(b) =>
           /\ c \in Erasers /\ c # b /\ pc[c] \in {"delete", "anonymise"}
           /\ cur[b] \in Invites /\ lock[InviteId(cur[b])] = c
    BY <2>3, CircleDeletes
  <2>6. \A b \in S : pc[b] # "delete"
    <3> SUFFICES ASSUME NEW b \in S, pc[b] = "delete" PROVE FALSE
      OBVIOUS
    <3>1. PICK c \in S : c \in Blockers(b)
      BY <2>3
    <3>2. c \in Erasers /\ c # b /\ pc[c] # "idle" /\ cur[b] \in Invites
          /\ lock[InviteId(cur[b])] = c
      BY <2>5, <3>1
    <3>3. b \in Erasers
      BY <2>3 DEF Locking, Follows, Kinds
    <3>4. f[cur[b]].email = user[b] /\ f[cur[b]].email = user[c]
      BY <2>2, <2>3, <3>2 DEF Agree, Erases
    <3> QED
      BY <3>2, <3>3, <3>4 DEF OneErasurePerUser
  <2>7. ASSUME NEW w \in S, pc[w] = "accept"
        PROVE  \E e \in S \cap Erasers : pc[e] = "anonymise" /\ user[w] = user[e]
    <3>1. PICK e \in S : e \in Blockers(w)
      BY <2>3
    <3>2. e \in Erasers /\ pc[e] = "anonymise" /\ cur[w] \in Invites
          /\ lock[InviteId(cur[w])] = e
      BY <2>5, <2>6, <2>7, <3>1
    <3>3. f[cur[w]].email = user[e]
      BY <2>2, <2>3, <3>2 DEF Agree, Erases
    <3>4. snap[w].email = f[cur[w]].email /\ snap[w].email = user[w]
      BY <2>2, <2>3, <2>7 DEF Agree, From, Accepting, IInv, InOrder, Accepts, Checked
    <3> QED
      BY <3>2, <3>3, <3>4
  <2>8. \E w \in S : pc[w] = "accept"
    <3>1. PICK a \in S, b \in S, c \in S : b \in Blockers(a) /\ c \in Blockers(b)
      BY <2>3
    <3>2. CASE pc[b] = "accept" \/ pc[c] = "accept"
      BY <3>2
    <3>3. CASE pc[b] \in {"change", "anonymise"} /\ pc[c] \in {"change", "anonymise"}
      <4>1. lock[UserId(user[b])] = c /\ user[b] \in Users
        BY <2>3, <3>1, <3>3, CircleBlocks, WaitsAt DEF IInv, InOrder, WorksOn
      <4>2. user[c] = user[b]
        BY <2>3, <4>1 DEF Locking, UsersHeld
      <4>3. PICK d \in S : d \in Blockers(c)
        BY <2>3
      <4>4. d # c /\ (lock[UserId(user[c])] = d \/ pc[d] = "accept")
        BY <2>3, <3>3, <4>3, CircleBlocks, WaitsAt
      <4> QED
        BY <4>1, <4>2, <4>4
    <3> QED
      BY <2>4, <2>6, <3>1, <3>2, <3>3
  <2> QED
    BY <2>7, <2>8
<1> QED
  BY <1>1, <1>2, LockingHolds, PTL
=============================================================================
