------------------------- MODULE Organizations_proofs -------------------------
(***************************************************************************)
(* Proofs about Organizations, for every number of users, organizations,   *)
(* requests, erasures and events: the type invariant, that the creator of  *)
(* an organization is a member of it, and that whoever accepted an         *)
(* invitation is.                                                          *)
(***************************************************************************)
EXTENDS Organizations, TLAPS

\* The phases that work on an organization which is there, and of an acceptance
\* after the check of the address.
Inviting  == {"pending", "member", "invite"}
Accepting == {"account", "lookup", "join", "get", "accept"}
Checked   == {"lookup", "join", "get", "accept"}

Exists(s) == rows[OrganizationId(s)] # None
Joined(s, u) == rows[MemberId(s, u)] # None

\* Task a has inserted the membership and commits it next.
Joins(a, s, u) == lock[MemberId(s, u)] = a /\ work[MemberId(s, u)] # None

\* A task knows what it works on, and that the organization is there.
WorksOn(a) ==
    /\ pc[a] # "idle" => user[a] \in Users
    /\ pc[a] \in {"organization", "creator"} \cup Inviting \cup Accepting => org[a] \in Slugs
    /\ pc[a] \in Inviting => guest[a] \in Users
    /\ pc[a] = "invite" => /\ snap[a] \in Invitation /\ snap[a].status = "pending"
                           /\ snap[a].organization = org[a] /\ snap[a].email = guest[a]
    /\ pc[a] \in Accepting => /\ cur[a] \in Invites /\ snap[a] \in Invitation
                              /\ snap[a].organization = org[a]
    /\ pc[a] \in Inviting \cup Accepting => Exists(org[a])
    /\ pc[a] \in {"reread", "change", "anonymise"} => address[a] \in {user[a], "erased", None}

\* An acceptance goes on for the invited user, and marks the invitation only if
\* the user is a member or about to be.
Accepts(a) ==
    /\ pc[a] \in Checked => snap[a].email = user[a]
    /\ pc[a] \in {"get", "accept"} =>
          Joined(org[a], user[a]) \/ Joins(a, org[a], user[a])

\* The creator has inserted the organization,
Creates(a) == pc[a] = "creator" => lock[OrganizationId(org[a])] = a

InOrder(a) == WorksOn(a) /\ Accepts(a) /\ Creates(a)

\* and whoever has a lock on one waits for it, or has inserted it and commits it
\* only with the membership.
OrganizationOwned ==
    \A s \in Slugs, a \in Tasks : lock[OrganizationId(s)] = a =>
        /\ pc[a] \in {"organization", "creator", "commit"} /\ org[a] = s
        /\ pc[a] = "organization" => work[OrganizationId(s)] = rows[OrganizationId(s)]
        /\ pc[a] # "organization" =>
              rows[OrganizationId(s)] = None /\ work[OrganizationId(s)] = user[a] /\ user[a] \in Users
        /\ pc[a] = "commit" => Joins(a, s, user[a])

\* So it is with memberships; those of an organization that is not committed yet
\* are its creator's.
MemberOwned ==
    \A s \in Slugs, u \in Users, a \in Tasks : lock[MemberId(s, u)] = a =>
        /\ pc[a] \in {"join", "get", "accept", "commit"} /\ org[a] = s /\ user[a] = u
        /\ pc[a] = "join" => work[MemberId(s, u)] = rows[MemberId(s, u)]
        /\ pc[a] # "join" => work[MemberId(s, u)] # None
        /\ Exists(s) \/ (pc[a] = "commit" /\ lock[OrganizationId(s)] = a)

\* Rows that nobody has locked are committed.
Settled ==
    /\ \A s \in Slugs : lock[OrganizationId(s)] = None =>
          work[OrganizationId(s)] = rows[OrganizationId(s)]
    /\ \A s \in Slugs, u \in Users : lock[MemberId(s, u)] = None =>
          work[MemberId(s, u)] = rows[MemberId(s, u)]

\* Invitations are to organizations that are there, and the accepted ones come
\* with a membership, in any version of the row.
InvitesExist ==
    \A i \in Invites : \A r \in {rows[InviteId(i)], work[InviteId(i)]} :
        r # None => Exists(r.organization)

AcceptedJoins ==
    \A i \in Invites :
        LET r == work[InviteId(i)]
            c == rows[InviteId(i)]
        IN  /\ c # None /\ c.status = "accepted" => Joined(c.organization, c.email)
            /\ r # None /\ r.status = "accepted" =>
                  \/ Joined(r.organization, r.email)
                  \/ \E a \in Tasks : /\ lock[InviteId(i)] = a /\ pc[a] = "commit"
                                      /\ Joins(a, r.organization, r.email)

IInv ==
    /\ TypeOK /\ OrganizationOwned /\ MemberOwned /\ Settled /\ InvitesExist /\ AcceptedJoins
    /\ CreatorIsMember
    /\ \A a \in Tasks : InOrder(a)
-------------------------------------------------------------------------------
(* The tables.                                                               *)

\* Rows of different tables have different ids.
LEMMA IdsDiffer ==
    /\ \A u \in Users : UserId(u) \in RowIds
    /\ \A s \in Slugs : OrganizationId(s) \in RowIds
    /\ \A s \in Slugs, u \in Users : MemberId(s, u) \in RowIds
    /\ \A i \in Invites : InviteId(i) \in RowIds
    /\ \A s, t : OrganizationId(s) = OrganizationId(t) => s = t
    /\ \A s, t, u, v : MemberId(s, u) = MemberId(t, v) => s = t /\ u = v
    /\ \A u, s : UserId(u) # OrganizationId(s)
    /\ \A u, s, v : UserId(u) # MemberId(s, v)
    /\ \A u, i : UserId(u) # InviteId(i)
    /\ \A s, t, u : OrganizationId(s) # MemberId(t, u)
    /\ \A s, i : OrganizationId(s) # InviteId(i)
    /\ \A s, u, i : MemberId(s, u) # InviteId(i)
    /\ \A u, v : UserId(u) = UserId(v) => u = v
    /\ \A i, j : InviteId(i) = InviteId(j) => i = j
<1>1. \A u : UserId(u)[1] = "user" /\ UserId(u)[2] = u
  BY DEF UserId
<1>2. \A s : OrganizationId(s)[1] = "organization" /\ OrganizationId(s)[2] = s
  BY DEF OrganizationId
<1>3. \A s, u : MemberId(s, u)[1] = "member" /\ MemberId(s, u)[2] = s /\ MemberId(s, u)[3] = u
  BY DEF MemberId
<1>4. \A i : InviteId(i)[1] = "invite" /\ InviteId(i)[2] = i
  BY DEF InviteId
<1>5. /\ \A u \in Users : UserId(u) \in RowIds
      /\ \A s \in Slugs : OrganizationId(s) \in RowIds
      /\ \A s \in Slugs, u \in Users : MemberId(s, u) \in RowIds
      /\ \A i \in Invites : InviteId(i) \in RowIds
  BY RowIdsAssumption
<1>6. /\ \A s, t : OrganizationId(s) = OrganizationId(t) => s = t
      /\ \A s, t, u, v : MemberId(s, u) = MemberId(t, v) => s = t /\ u = v
      /\ \A u, v : UserId(u) = UserId(v) => u = v
      /\ \A i, j : InviteId(i) = InviteId(j) => i = j
  BY <1>1, <1>2, <1>3, <1>4
<1>7. /\ \A u, s : UserId(u) # OrganizationId(s)
      /\ \A u, s, v : UserId(u) # MemberId(s, v)
      /\ \A u, i : UserId(u) # InviteId(i)
      /\ \A s, t, u : OrganizationId(s) # MemberId(t, u)
      /\ \A s, i : OrganizationId(s) # InviteId(i)
      /\ \A s, u, i : MemberId(s, u) # InviteId(i)
  BY <1>1, <1>2, <1>3, <1>4
<1> QED
  BY <1>5, <1>6, <1>7

\* What row k may hold.
Fits(k, r) ==
    /\ \A u \in Users : k = UserId(u) => r \in {u, "erased"}
    /\ \A s \in Slugs : k = OrganizationId(s) => r \in Users \cup {None}
    /\ \A s \in Slugs, u \in Users : k = MemberId(s, u) => r \in {u, None}
    /\ \A i \in Invites : k = InviteId(i) => r = None \/ r \in Invitation

\* The part of TypeOK that is about the tables, and the rest.
TablesTyped ==
    /\ \A table \in {rows, work} :
         DOMAIN table = RowIds /\ \A k \in RowIds : Fits(k, table[k])
    /\ lock \in [RowIds -> Tasks \cup {None}]

LocalsTyped ==
    /\ now \in Nat /\ issued \in 0 .. MaxEvents /\ aborts \in Nat /\ changes \in Nat
    /\ closed \subseteq Users
    /\ pc \in [Tasks -> Phase] /\ org \in [Tasks -> Slugs \cup {None}]
    /\ user \in [Tasks -> Users \cup {None}] /\ guest \in [Tasks -> Users \cup {None}]
    /\ cur \in [Tasks -> Invites \cup {None}]
    /\ DOMAIN snap = Tasks /\ \A a \in Tasks : snap[a] = None \/ snap[a] \in Invitation
    /\ address \in [Tasks -> Users \cup {"erased", None}]
    /\ found \in [Tasks -> BOOLEAN] /\ todo \in [Tasks -> SUBSET Invites]

\* Tables have the right type if each of their rows has.
LEMMA FitsAll ==
    ASSUME NEW table
    PROVE  (\A k \in RowIds : Fits(k, table[k])) <=>
             /\ \A u \in Users : table[UserId(u)] \in {u, "erased"}
             /\ \A s \in Slugs : table[OrganizationId(s)] \in Users \cup {None}
             /\ \A s \in Slugs, u \in Users : table[MemberId(s, u)] \in {u, None}
             /\ \A i \in Invites : table[InviteId(i)] = None \/ table[InviteId(i)] \in Invitation
  BY IdsDiffer DEF Fits

\* The type invariant in its two parts.
LEMMA TypeParts ==
    /\ TypeOK <=> TablesTyped /\ LocalsTyped
    /\ TypeOK' <=> TablesTyped' /\ LocalsTyped'
<1>1. TypeOK <=> TablesTyped /\ LocalsTyped
  BY FitsAll DEF TypeOK, TablesTyped, LocalsTyped
<1>2. TypeOK' <=> TablesTyped' /\ LocalsTyped'
  BY FitsAll DEF TypeOK, TablesTyped, LocalsTyped
<1> QED
  BY <1>1, <1>2

\* The flush of a row.
LEMMA Written ==
    ASSUME TablesTyped, NEW a \in Tasks, NEW k \in RowIds, NEW r, Fits(k, r), WriteRow(a, k, r)
    PROVE  /\ TablesTyped' /\ rows' = rows
           /\ work'[k] = r /\ lock'[k] = a
           /\ \A j \in RowIds \ {k} : work'[j] = work[j] /\ lock'[j] = lock[j]
<1>1. /\ rows' = rows
      /\ work' = [work EXCEPT ![k] = r] /\ lock' = [lock EXCEPT ![k] = a]
  BY DEF WriteRow
<1>2. /\ DOMAIN work' = RowIds /\ work'[k] = r /\ lock'[k] = a
      /\ lock' \in [RowIds -> Tasks \cup {None}]
      /\ \A j \in RowIds \ {k} : work'[j] = work[j] /\ lock'[j] = lock[j]
  BY <1>1 DEF TablesTyped
<1>3. \A j \in RowIds : Fits(j, work'[j])
  BY <1>2 DEF TablesTyped
<1> QED
  BY <1>1, <1>2, <1>3 DEF TablesTyped

\* What a task waits for,
LEMMA WaitsAt ==
    ASSUME NEW a \in Tasks
    PROVE  /\ pc[a] = "organization" => Waits[a] = OrganizationId(org[a])
           /\ pc[a] = "join" => Waits[a] = MemberId(org[a], user[a])
           /\ pc[a] = "accept" => Waits[a] = InviteId(cur[a])
           /\ pc[a] = "delete" /\ cur[a] # None => Waits[a] = InviteId(cur[a])
           /\ pc[a] \in {"change", "anonymise"} => Waits[a] = UserId(user[a])
  BY DEF Waits

\* which it may write if nothing blocks it.
LEMMA Unblocked ==
    ASSUME TablesTyped, NEW a \in Tasks, Blockers(a) = {}, Waits[a] \in RowIds
    PROVE  MayWrite(a, Waits[a])
<1> SUFFICES ASSUME lock[Waits[a]] \notin {None, a} PROVE FALSE
  BY DEF MayWrite
<1>1. lock[Waits[a]] \in Tasks \ {a}
  BY DEF TablesTyped
<1>2. lock[Waits[a]] \in Blockers(a)
  BY <1>1, NoneAssumption DEF Blockers
<1> QED
  BY <1>2

\* Who waits for an organization or a membership.
LEMMA WaitsFor ==
    ASSUME NEW b \in Tasks
    PROVE  /\ \A s \in Slugs : Waits[b] = OrganizationId(s) => pc[b] = "organization" /\ org[b] = s
           /\ \A s \in Slugs, u \in Users : Waits[b] = MemberId(s, u) =>
                 pc[b] = "join" /\ org[b] = s /\ user[b] = u
  BY IdsDiffer, NoneAssumption DEF Waits

\* A lock that is given up goes to a task that waits for the row.
LEMMA Released ==
    ASSUME TablesTyped, NEW a \in Tasks, ReleaseLocks(Waits, a)
    PROVE  /\ lock' \in [RowIds -> Tasks \cup {None}]
           /\ \A k \in RowIds : lock[k] # a => lock'[k] = lock[k]
           /\ \A k \in RowIds : lock[k] = a /\ lock'[k] # None =>
                 lock'[k] # a /\ Waits[lock'[k]] = k
<1> DEFINE wanted == {k \in RowIds : lock[k] = a /\ Waiters(Waits, k) # {}}
<1>1. PICK heir \in [wanted -> Tasks] :
         /\ \A k \in wanted : heir[k] \in Waiters(Waits, k)
         /\ lock' = [k \in RowIds |-> IF lock[k] # a THEN lock[k]
                                     ELSE IF k \in wanted THEN heir[k] ELSE None]
  BY DEF ReleaseLocks
<1>2. \A k \in wanted : heir[k] # a /\ Waits[heir[k]] = k /\ heir[k] \in Tasks
  BY <1>1 DEF Waiters
<1> HIDE DEF wanted
<1> QED
  BY <1>1, <1>2 DEF TablesTyped

\* Commit and rollback.
LEMMA Committed ==
    ASSUME TablesTyped, NEW a \in Tasks, CommitRows(Waits, a)
    PROVE  /\ TablesTyped' /\ work' = work
           /\ \A k \in RowIds : lock[k] = a => rows'[k] = work[k]
           /\ \A k \in RowIds : lock[k] # a => rows'[k] = rows[k] /\ lock'[k] = lock[k]
           /\ \A k \in RowIds : lock[k] = a /\ lock'[k] # None =>
                 lock'[k] # a /\ Waits[lock'[k]] = k
<1>1. ReleaseLocks(Waits, a) /\ work' = work
  BY DEF CommitRows
<1>2. rows' = [k \in RowIds |-> IF lock[k] = a THEN work[k] ELSE rows[k]]
  BY DEF CommitRows, Visible
<1>3. TablesTyped'
  BY <1>1, <1>2, Released DEF TablesTyped
<1> QED
  BY <1>1, <1>2, <1>3, Released

\* A rollback undoes what the task wrote and gives up its locks.
LEMMA RolledBack ==
    ASSUME TablesTyped, NEW a \in Tasks, RollbackRows(Waits, a)
    PROVE  /\ TablesTyped' /\ rows' = rows
           /\ \A k \in RowIds : lock[k] = a => work'[k] = rows[k]
           /\ \A k \in RowIds : lock[k] # a => work'[k] = work[k] /\ lock'[k] = lock[k]
           /\ \A k \in RowIds : lock[k] = a /\ lock'[k] # None =>
                 lock'[k] # a /\ Waits[lock'[k]] = k
<1>1. ReleaseLocks(Waits, a) /\ rows' = rows
  BY DEF RollbackRows
<1>2. work' = [k \in RowIds |-> IF lock[k] = a THEN rows[k] ELSE work[k]]
  BY DEF RollbackRows
<1>3. TablesTyped'
  BY <1>1, <1>2, Released DEF TablesTyped
<1> QED
  BY <1>1, <1>2, <1>3, Released
-------------------------------------------------------------------------------
(* The tasks.                                                                *)

\* What the other tasks have in hand stays as it is.
OthersStay(a) ==
    \A b \in Tasks \ {a} :
        /\ pc'[b] = pc[b] /\ org'[b] = org[b] /\ user'[b] = user[b] /\ guest'[b] = guest[b]
        /\ cur'[b] = cur[b] /\ snap'[b] = snap[b] /\ todo'[b] = todo[b]
        /\ address'[b] = address[b] /\ found'[b] = found[b]

\* The task that ends works on nothing any more.
LEMMA Ended ==
    ASSUME LocalsTyped, NEW a \in Tasks, EndTask(a), UNCHANGED <<now, issued, changes>>,
           aborts' \in Nat, closed' \subseteq Users
    PROVE  LocalsTyped' /\ OthersStay(a) /\ pc'[a] = "idle"
  BY DEF LocalsTyped, EndTask, Goto, Phase, OthersStay

\* The others go on as before if no organization, membership or lock of theirs
\* is taken away.
LEMMA OthersInOrder ==
    ASSUME IInv, NEW a \in Tasks, OthersStay(a),
           \A s \in Slugs : Exists(s) => Exists(s)',
           \A s \in Slugs, u \in Users : Joined(s, u) => Joined(s, u)',
           \A b \in Tasks \ {a}, s \in Slugs :
               /\ lock[OrganizationId(s)] = b => lock'[OrganizationId(s)] = b
               /\ \A u \in Users : Joins(b, s, u) => Joins(b, s, u)'
    PROVE  \A b \in Tasks \ {a} : InOrder(b)'
<1> SUFFICES ASSUME NEW b \in Tasks \ {a} PROVE InOrder(b)'
  OBVIOUS
<1>1. InOrder(b) /\ LocalsTyped
  BY TypeParts DEF IInv
<1>2. WorksOn(b)'
  BY <1>1 DEF InOrder, WorksOn, OthersStay, Inviting, Accepting
<1>3. Accepts(b)'
  <2>1. pc[b] \in {"get", "accept"} => org[b] \in Slugs /\ user[b] \in Users
    BY <1>1 DEF InOrder, WorksOn, Accepting
  <2> QED
    BY <1>1, <2>1 DEF InOrder, Accepts, OthersStay, Checked
<1>4. Creates(b)'
  BY <1>1 DEF InOrder, WorksOn, Creates, OthersStay
<1> QED
  BY <1>2, <1>3, <1>4 DEF InOrder
-------------------------------------------------------------------------------
(* The inductive invariant, one lemma per group of actions.                  *)

\* A step that only reads.
LEMMA InvQuiet ==
    ASSUME IInv, NEW a \in Tasks, UNCHANGED tables, OthersStay(a), LocalsTyped',
           pc[a] \notin {"organization", "creator", "join", "accept", "commit"},
           pc[a] = "get" => pc'[a] = "accept" /\ org'[a] = org[a] /\ user'[a] = user[a],
           InOrder(a)'
    PROVE  IInv'
<1> USE DEF tables
<1>1. /\ TablesTyped /\ LocalsTyped /\ OrganizationOwned /\ MemberOwned /\ Settled /\ InvitesExist
      /\ AcceptedJoins /\ CreatorIsMember
  BY TypeParts DEF IInv
<1>2. TablesTyped'
  BY <1>1 DEF TablesTyped
<1>3. \A b \in Tasks : InOrder(b)'
  BY OthersInOrder DEF Exists, Joined, Joins
<1>4. OrganizationOwned'
  BY <1>1 DEF OrganizationOwned, OthersStay, Joins
<1>5. MemberOwned'
  BY <1>1 DEF MemberOwned, OthersStay, Exists
<1>6. Settled' /\ InvitesExist' /\ CreatorIsMember'
  BY <1>1 DEF Settled, InvitesExist, CreatorIsMember, Exists, ListOrganizationMembers
<1>7. AcceptedJoins'
  BY <1>1 DEF AcceptedJoins, Joined, Joins, OthersStay
<1> QED
  BY <1>2, <1>3, <1>4, <1>5, <1>6, <1>7, TypeParts DEF IInv

\* Time passes, or nothing.
LEMMA InvTick ==
    ASSUME IInv, UNCHANGED <<tables, pc, local, issued, aborts, changes, closed>>, now' \in Nat
    PROVE  IInv'
<1> USE DEF tables, local
<1>1. TypeOK'
  BY DEF IInv, TypeOK
<1>2. OrganizationOwned' /\ MemberOwned' /\ Settled' /\ InvitesExist'
  BY DEF IInv, OrganizationOwned, MemberOwned, Settled, InvitesExist, Exists, Joins
<1>3. AcceptedJoins' /\ CreatorIsMember'
  BY DEF IInv, AcceptedJoins, CreatorIsMember, Joined, Joins, ListOrganizationMembers
<1>4. \A a \in Tasks : InOrder(a)'
  BY DEF IInv, InOrder, WorksOn, Accepts, Creates, Exists, Joined, Joins
<1> QED
  BY <1>1, <1>2, <1>3, <1>4 DEF IInv

\* The starts of requests and erasures.
LEMMA InvStarts ==
    ASSUME IInv, NEW a \in Tasks, NEW u \in Users,
           \/ StartErasure(a, u) \/ ChangePassword(a, u)
           \/ \E s \in Slugs : CreateOrganization(a, u, s)
           \/ \E v \in Users, s \in Slugs : InviteMember(a, u, s, v)
           \/ \E i \in Invites : AcceptInvitation(a, u, i)
    PROVE  IInv'
<1>1. TablesTyped /\ LocalsTyped /\ InvitesExist
  BY TypeParts DEF IInv
<1>2. CASE StartErasure(a, u)
  <2>1. /\ pc[a] = "idle" /\ pc'[a] = "delete" /\ user'[a] = u /\ UNCHANGED tables
        /\ OthersStay(a) /\ LocalsTyped'
    BY <1>1, <1>2 DEF StartErasure, Goto, LocalsTyped, OthersStay, world, Phase
  <2>2. InOrder(a)'
    BY <2>1 DEF InOrder, WorksOn, Accepts, Creates, Inviting, Accepting, Checked
  <2> QED
    BY <2>1, <2>2, InvQuiet
<1>3. CASE \E s \in Slugs : CreateOrganization(a, u, s)
  <2>1. PICK s \in Slugs : CreateOrganization(a, u, s)
    BY <1>3
  <2>2. /\ pc[a] = "idle" /\ UNCHANGED tables
        /\ pc'[a] = "organization" /\ org'[a] = s /\ user'[a] = u
        /\ OthersStay(a) /\ LocalsTyped'
    BY <1>1, <2>1 DEF CreateOrganization, Goto, LocalsTyped, OthersStay, world, Phase
  <2>3. InOrder(a)'
    BY <2>2 DEF InOrder, WorksOn, Accepts, Creates, Inviting, Accepting, Checked
  <2> QED
    BY <2>2, <2>3, InvQuiet
<1>4. CASE \E v \in Users, s \in Slugs : InviteMember(a, u, s, v)
  <2>1. PICK v \in Users, s \in Slugs : InviteMember(a, u, s, v)
    BY <1>4
  <2>2. /\ pc[a] = "idle" /\ UNCHANGED tables /\ Exists(s)
        /\ pc'[a] = "pending" /\ org'[a] = s /\ user'[a] = u /\ guest'[a] = v
        /\ OthersStay(a) /\ LocalsTyped'
    BY <1>1, <2>1
    DEF InviteMember, MayInvite, Goto, LocalsTyped, OthersStay, world, Phase, Exists
  <2>3. InOrder(a)'
    BY <2>2 DEF InOrder, WorksOn, Accepts, Creates, Inviting, Accepting, Checked, Exists, tables
  <2> QED
    BY <2>2, <2>3, InvQuiet
<1>5. CASE \E i \in Invites : AcceptInvitation(a, u, i)
  <2>1. PICK i \in Invites : AcceptInvitation(a, u, i)
    BY <1>5
  <2> DEFINE r == rows[InviteId(i)]
  <2>2. r \in Invitation /\ Exists(r.organization)
    BY <1>1, <2>1, IdsDiffer
    DEF AcceptInvitation, FindByTokenHash, IsUsable, TablesTyped, Fits, InvitesExist
  <2>3. /\ [r EXCEPT !.status = "accepted"] \in Invitation
        /\ [r EXCEPT !.status = "accepted"].organization = r.organization
        /\ r.organization \in Slugs
    BY <2>2 DEF Invitation, InvitationStatus
  <2>4. /\ pc[a] = "idle" /\ UNCHANGED tables
        /\ pc'[a] = "account" /\ org'[a] = r.organization /\ user'[a] = u /\ cur'[a] = i
        /\ snap'[a] = [r EXCEPT !.status = "accepted"]
        /\ OthersStay(a)
    BY <1>1, <2>1, <2>3
    DEF AcceptInvitation, FindByTokenHash, Goto, LocalsTyped, OthersStay
  <2>5. LocalsTyped'
    BY <1>1, <2>1, <2>3
    DEF AcceptInvitation, FindByTokenHash, Goto, LocalsTyped, world, Phase
  <2>6. InOrder(a)'
    BY <2>2, <2>3, <2>4
    DEF InOrder, WorksOn, Accepts, Creates, Inviting, Accepting, Checked, Exists, tables
  <2> QED
    BY <2>4, <2>5, <2>6, InvQuiet
<1>6. CASE ChangePassword(a, u)
  <2>1. rows[UserId(u)] \in {u, "erased"}
    BY <1>1, IdsDiffer DEF TablesTyped, Fits
  <2>2. /\ pc[a] = "idle" /\ UNCHANGED tables /\ OthersStay(a)
        /\ pc'[a] = "reread" /\ user'[a] = u /\ address'[a] = rows[UserId(u)]
    BY <1>1, <1>6, <2>1 DEF ChangePassword, Goto, LocalsTyped, OthersStay
  <2>3. LocalsTyped'
    BY <1>1, <1>6, <2>1 DEF ChangePassword, Goto, LocalsTyped, Phase
  <2>4. InOrder(a)'
    BY <2>1, <2>2 DEF InOrder, WorksOn, Accepts, Creates, Inviting, Accepting, Checked
  <2> QED
    BY <2>2, <2>3, <2>4, InvQuiet
<1> QED
  BY <1>2, <1>3, <1>4, <1>5, <1>6

\* The checks that pass, and the other reads.
LEMMA InvReads ==
    ASSUME IInv, NEW a \in Tasks,
           \/ pc[a] = "pending" /\ Goto(a, "member") /\ UNCHANGED <<tables, local, world>>
           \/ /\ pc[a] = "account" /\ rows[UserId(user[a])] = snap[a].email
              /\ Goto(a, "lookup") /\ UNCHANGED <<tables, local, world>>
           \/ FindMembership(a) \/ GetInvitation(a) \/ NextInvitation(a)
           \/ RereadUser(a) \/ UserEraserRaises(a) \/ ReadUser(a)
    PROVE  IInv'
<1>1. TablesTyped /\ LocalsTyped /\ MemberOwned /\ InOrder(a)
  BY TypeParts DEF IInv
<1>2. CASE pc[a] = "pending" /\ Goto(a, "member") /\ UNCHANGED <<tables, local, world>>
  <2>1. pc'[a] = "member" /\ OthersStay(a) /\ LocalsTyped'
    BY <1>1, <1>2 DEF Goto, LocalsTyped, OthersStay, world, local, Phase
  <2>2. InOrder(a)'
    BY <1>1, <1>2, <2>1
    DEF InOrder, WorksOn, Accepts, Creates, Inviting, Accepting, Checked, Exists, tables, local
  <2> QED
    BY <1>2, <2>1, <2>2, InvQuiet
<1>3. CASE /\ pc[a] = "account" /\ rows[UserId(user[a])] = snap[a].email
           /\ Goto(a, "lookup") /\ UNCHANGED <<tables, local, world>>
  <2>1. pc'[a] = "lookup" /\ OthersStay(a) /\ LocalsTyped'
    BY <1>1, <1>3 DEF Goto, LocalsTyped, OthersStay, world, local, Phase
  <2>2. user[a] \in Users /\ snap[a] \in Invitation
    BY <1>1, <1>3 DEF InOrder, WorksOn, Accepting
  <2>3. rows[UserId(user[a])] \in {user[a], "erased"} /\ snap[a].email \in Users
    BY <1>1, <2>2, IdsDiffer DEF TablesTyped, Fits, Invitation
  <2>4. snap[a].email = user[a]
    BY <1>3, <2>3, ErasedIsNoUser
  <2>5. InOrder(a)'
    BY <1>1, <1>3, <2>1, <2>4
    DEF InOrder, WorksOn, Accepts, Creates, Inviting, Accepting, Checked, Exists, tables, local
  <2> QED
    BY <1>3, <2>1, <2>5, InvQuiet
<1>4. CASE FindMembership(a)
  <2>1. /\ pc[a] = "lookup" /\ UNCHANGED <<tables, local>> /\ OthersStay(a) /\ LocalsTyped'
        /\ pc'[a] = IF IsMember(a, org[a], user[a]) THEN "get" ELSE "join"
    BY <1>1, <1>4 DEF FindMembership, Goto, LocalsTyped, OthersStay, world, local, Phase
  <2>2. org[a] \in Slugs /\ user[a] \in Users
    BY <1>1, <2>1 DEF InOrder, WorksOn, Accepting
  <2>3. lock[MemberId(org[a], user[a])] # a
    BY <1>1, <2>1, <2>2 DEF MemberOwned
  <2>4. pc'[a] = "get" => Joined(org[a], user[a])
    BY <2>1, <2>3 DEF IsMember, Visible, Joined
  <2>5. InOrder(a)'
    BY <1>1, <2>1, <2>4
    DEF InOrder, WorksOn, Accepts, Creates, Inviting, Accepting, Checked, Exists, Joined,
        tables, local
  <2> QED
    BY <2>1, <2>5, InvQuiet
<1>5. CASE GetInvitation(a)
  <2>1. /\ pc[a] = "get" /\ pc'[a] = "accept" /\ UNCHANGED <<tables, org, user, guest, cur, snap>>
        /\ OthersStay(a) /\ LocalsTyped'
    BY <1>1, <1>5 DEF GetInvitation, Goto, LocalsTyped, OthersStay, world, Phase
  <2>2. InOrder(a)'
    BY <1>1, <2>1
    DEF InOrder, WorksOn, Accepts, Creates, Inviting, Accepting, Checked, Exists, Joined, Joins,
        tables
  <2> QED
    BY <2>1, <2>2, InvQuiet
<1>6. CASE NextInvitation(a)
  <2>1. /\ pc[a] = "delete" /\ pc'[a] \in {"delete", "user"}
        /\ UNCHANGED <<tables, user>> /\ OthersStay(a) /\ LocalsTyped'
    BY <1>1, <1>6 DEF NextInvitation, Goto, LocalsTyped, OthersStay, world, Phase
  <2>2. InOrder(a)'
    BY <1>1, <2>1 DEF InOrder, WorksOn, Accepts, Creates, Inviting, Accepting, Checked
  <2> QED
    BY <2>1, <2>2, InvQuiet
<1>7. CASE RereadUser(a) \/ ReadUser(a)
  <2>1. pc[a] \in {"reread", "user"} /\ pc'[a] \in {"change", "anonymise"} /\ user[a] \in Users
    BY <1>1, <1>7 DEF RereadUser, ReadUser, Goto, LocalsTyped, InOrder, WorksOn
  <2>2. /\ UNCHANGED <<tables, user>> /\ OthersStay(a)
    BY <1>1, <1>7 DEF RereadUser, ReadUser, Goto, LocalsTyped, OthersStay
  <2>3. address'[a] \in {user[a], "erased", None}
    BY <1>1, <1>7, <2>1 DEF RereadUser, ReadUser, ToWrite, LocalsTyped, InOrder, WorksOn
  <2>4. LocalsTyped'
    BY <1>1, <1>7, <2>1, <2>3 DEF RereadUser, ReadUser, Goto, LocalsTyped, world, Phase
  <2>5. InOrder(a)'
    BY <2>1, <2>2, <2>3 DEF InOrder, WorksOn, Accepts, Creates, Inviting, Accepting, Checked
  <2> QED
    BY <2>1, <2>2, <2>4, <2>5, InvQuiet
<1>8. CASE UserEraserRaises(a)
  <2>1. /\ pc[a] = "user" /\ pc'[a] = "commit" /\ UNCHANGED <<tables, local>>
        /\ OthersStay(a) /\ LocalsTyped'
    BY <1>1, <1>8 DEF UserEraserRaises, Goto, LocalsTyped, OthersStay, local, Phase
  <2>2. InOrder(a)'
    BY <1>1, <2>1 DEF InOrder, WorksOn, Accepts, Creates, Inviting, Accepting, Checked, local
  <2> QED
    BY <2>1, <2>2, InvQuiet
<1> QED
  BY <1>2, <1>3, <1>4, <1>5, <1>6, <1>7, <1>8

\* An invitation is to an organization and an address.
LEMMA InvitesTyped ==
    ASSUME TablesTyped, NEW i \in Invites, NEW r \in {rows[InviteId(i)], work[InviteId(i)]}, r # None
    PROVE  r \in Invitation /\ r.organization \in Slugs /\ r.email \in Users
<1>1. r \in Invitation
  BY IdsDiffer DEF TablesTyped, Fits
<1> QED
  BY <1>1 DEF Invitation

\* A step that writes no invitation and takes nobody's membership away.
LEMMA AcceptedStays ==
    ASSUME IInv, NEW a \in Tasks, rows' = rows, OthersStay(a), pc[a] # "commit",
           \A i \in Invites : /\ work'[InviteId(i)] = work[InviteId(i)]
                              /\ lock'[InviteId(i)] = lock[InviteId(i)],
           \A b \in Tasks \ {a}, s \in Slugs, u \in Users : Joins(b, s, u) => Joins(b, s, u)'
    PROVE  AcceptedJoins'
<1>1. TablesTyped /\ AcceptedJoins
  BY TypeParts DEF IInv
<1>2. ASSUME NEW i \in Invites, NEW r, r = work[InviteId(i)], r # None, r.status = "accepted",
             ~Joined(r.organization, r.email)
      PROVE  \E b \in Tasks : /\ lock'[InviteId(i)] = b /\ pc'[b] = "commit"
                              /\ Joins(b, r.organization, r.email)'
  <2>1. r.organization \in Slugs /\ r.email \in Users
    BY <1>1, <1>2, InvitesTyped
  <2>2. PICK b \in Tasks : /\ lock[InviteId(i)] = b /\ pc[b] = "commit"
                          /\ Joins(b, r.organization, r.email)
    BY <1>1, <1>2 DEF AcceptedJoins
  <2> QED
    BY <2>1, <2>2 DEF OthersStay
<1> QED
  BY <1>1, <1>2 DEF AcceptedJoins, Joined, Joins

\* The insert of an organization: nobody has it, committed or not.
LEMMA InvInsert ==
    ASSUME IInv, NEW a \in Tasks, InsertOrganization(a), work[OrganizationId(org[a])] = None
    PROVE  IInv'
<1> DEFINE s == org[a]
           k == OrganizationId(s)
<1>1. /\ TablesTyped /\ LocalsTyped /\ OrganizationOwned /\ MemberOwned /\ Settled /\ InvitesExist
      /\ AcceptedJoins /\ CreatorIsMember /\ InOrder(a)
  BY TypeParts DEF IInv
<1>2. /\ pc[a] = "organization" /\ pc'[a] = "creator" /\ UNCHANGED <<world, local>>
      /\ s \in Slugs /\ user[a] \in Users /\ WriteRow(a, k, user[a])
  BY <1>1 DEF InsertOrganization, Goto, LocalsTyped, InOrder, WorksOn
<1>0. lock[k] \in {None, a}
  BY <1>1, <1>2, WaitsAt, Unblocked, IdsDiffer DEF InsertOrganization, MayWrite
<1>3. rows[k] = None
  BY <1>0, <1>1, <1>2 DEF InsertOrganization, Settled, OrganizationOwned
<1>4. k \in RowIds /\ Fits(k, user[a])
  BY <1>2, IdsDiffer DEF Fits
<1>5. /\ TablesTyped' /\ rows' = rows /\ work'[k] = user[a] /\ lock'[k] = a
      /\ \A j \in RowIds \ {k} : work'[j] = work[j] /\ lock'[j] = lock[j]
  BY <1>1, <1>2, <1>4, Written
<1>6. LocalsTyped' /\ OthersStay(a)
  BY <1>1, <1>2 DEF InsertOrganization, Goto, LocalsTyped, OthersStay, world, local, Phase
<1> HIDE DEF k
<1>7. /\ \A t \in Slugs \ {s} : /\ work'[OrganizationId(t)] = work[OrganizationId(t)]
                             /\ lock'[OrganizationId(t)] = lock[OrganizationId(t)]
      /\ \A t \in Slugs, u \in Users : /\ work'[MemberId(t, u)] = work[MemberId(t, u)]
                                    /\ lock'[MemberId(t, u)] = lock[MemberId(t, u)]
      /\ \A i \in Invites : /\ work'[InviteId(i)] = work[InviteId(i)]
                            /\ lock'[InviteId(i)] = lock[InviteId(i)]
  BY <1>5, IdsDiffer DEF k
<1>8. \A b \in Tasks : InOrder(b)'
  <2>1. InOrder(a)'
    BY <1>1, <1>2, <1>5
    DEF k, InOrder, WorksOn, Accepts, Creates, Inviting, Accepting, Checked, local
  <2>2. \A b \in Tasks \ {a}, t \in Slugs :
          /\ lock[OrganizationId(t)] = b => lock'[OrganizationId(t)] = b
          /\ \A u \in Users : Joins(b, t, u) => Joins(b, t, u)'
    BY <1>0, <1>7, NoTaskIsNone DEF k, Joins
  <2> QED
    BY <1>5, <1>6, <2>1, <2>2, OthersInOrder DEF Exists, Joined
<1>9. OrganizationOwned'
  <2>1. \A t \in Slugs \ {s}, b \in Tasks : lock[OrganizationId(t)] = b => b # a
    BY <1>1, <1>2 DEF OrganizationOwned
  <2> QED
    BY <1>0, <1>1, <1>2, <1>3, <1>5, <1>6, <1>7, <2>1
    DEF k, OrganizationOwned, OthersStay, Joins, local
<1>10. MemberOwned'
  <2>1. \A t \in Slugs, u \in Users, b \in Tasks : lock[MemberId(t, u)] = b => b # a
    BY <1>1, <1>2 DEF MemberOwned
  <2> QED
    BY <1>0, <1>1, <1>2, <1>5, <1>6, <1>7, <2>1, NoTaskIsNone DEF k, MemberOwned, OthersStay, Exists
<1>11. Settled' /\ InvitesExist' /\ CreatorIsMember'
  BY <1>1, <1>5, <1>7, NoTaskIsNone
  DEF k, Settled, InvitesExist, CreatorIsMember, Exists, ListOrganizationMembers
<1>12. AcceptedJoins'
  BY <1>2, <1>5, <1>6, <1>7, AcceptedStays DEF Joins
<1> QED
  BY <1>5, <1>6, <1>8, <1>9, <1>10, <1>11, <1>12, TypeParts DEF IInv

\* The insert of a membership, by the creator or by an invited user.
LEMMA InvMemberFlush ==
    ASSUME IInv, NEW a \in Tasks, NEW s \in Slugs, NEW u \in Users, org[a] = s, user[a] = u,
           WriteRow(a, MemberId(s, u), u), lock[MemberId(s, u)] \in {None, a},
           OthersStay(a), LocalsTyped', org'[a] = s, user'[a] = u,
           \/ pc[a] = "creator" /\ pc'[a] = "commit"
           \/ pc[a] = "join" /\ pc'[a] = "get" /\ cur'[a] = cur[a] /\ snap'[a] = snap[a]
    PROVE  IInv'
<1> DEFINE k == MemberId(s, u)
<1>1. /\ TablesTyped /\ LocalsTyped /\ OrganizationOwned /\ MemberOwned /\ Settled /\ InvitesExist
      /\ AcceptedJoins /\ CreatorIsMember /\ InOrder(a)
  BY TypeParts DEF IInv
<1>2. k \in RowIds /\ Fits(k, u)
  BY IdsDiffer DEF Fits
<1>3. /\ TablesTyped' /\ rows' = rows /\ work'[k] = u /\ lock'[k] = a
      /\ \A j \in RowIds \ {k} : work'[j] = work[j] /\ lock'[j] = lock[j]
  BY <1>1, <1>2, Written
<1> HIDE DEF k
<1>4. /\ \A t \in Slugs : /\ work'[OrganizationId(t)] = work[OrganizationId(t)]
                          /\ lock'[OrganizationId(t)] = lock[OrganizationId(t)]
      /\ \A t \in Slugs, v \in Users : MemberId(t, v) # k =>
             /\ work'[MemberId(t, v)] = work[MemberId(t, v)]
             /\ lock'[MemberId(t, v)] = lock[MemberId(t, v)]
      /\ \A i \in Invites : /\ work'[InviteId(i)] = work[InviteId(i)]
                            /\ lock'[InviteId(i)] = lock[InviteId(i)]
  BY <1>3, IdsDiffer DEF k
<1>5. Joins(a, s, u)'
  BY <1>3, NoneAssumption DEF k, Joins
<1>6. \A b \in Tasks \ {a}, t \in Slugs, v \in Users :
        lock[MemberId(t, v)] = b => MemberId(t, v) # k
  BY NoTaskIsNone DEF k
<1>7. \A b \in Tasks \ {a}, t \in Slugs, v \in Users : Joins(b, t, v) => Joins(b, t, v)'
  BY <1>4, <1>6 DEF Joins
<1>8. \A b \in Tasks : InOrder(b)'
  <2>1. InOrder(a)'
    BY <1>1, <1>3, <1>5
    DEF InOrder, WorksOn, Accepts, Creates, Inviting, Accepting, Checked, Exists
  <2> QED
    BY <1>3, <1>4, <1>7, <2>1, OthersInOrder DEF Exists, Joined
<1>9. OrganizationOwned'
  <2>1. ASSUME NEW t \in Slugs, lock[OrganizationId(t)] = a
        PROVE  t = s /\ pc[a] = "creator"
    BY <1>1, <2>1 DEF OrganizationOwned
  <2>2. ASSUME NEW t \in Slugs, NEW b \in Tasks \ {a}, lock[OrganizationId(t)] = b,
               pc[b] = "commit"
        PROVE  Joins(b, t, user[b])'
    BY <1>1, <1>7, <2>2 DEF OrganizationOwned, OthersStay, Joins
  <2> QED
    BY <1>1, <1>3, <1>4, <1>5, <2>1, <2>2 DEF OrganizationOwned, OthersStay
<1>10. MemberOwned'
  <2>1. Exists(s) \/ (pc'[a] = "commit" /\ lock[OrganizationId(s)] = a)
    BY <1>1 DEF InOrder, WorksOn, Creates, Accepting
  <2>2. ASSUME NEW t \in Slugs, NEW v \in Users, lock[MemberId(t, v)] = a
        PROVE  MemberId(t, v) = k
    BY <1>1, <2>2 DEF MemberOwned, k
  <2> QED
    BY <1>1, <1>3, <1>4, <1>6, <2>1, <2>2, IdsDiffer, NoneAssumption
    DEF k, MemberOwned, OthersStay, Exists
<1>11. Settled' /\ InvitesExist' /\ CreatorIsMember'
  BY <1>1, <1>3, <1>4, NoTaskIsNone
  DEF k, Settled, InvitesExist, CreatorIsMember, Exists, ListOrganizationMembers
<1>12. AcceptedJoins'
  BY <1>3, <1>4, <1>7, AcceptedStays
<1> QED
  BY <1>3, <1>8, <1>9, <1>10, <1>11, <1>12, TypeParts DEF IInv

\* The creator meets nobody: without a committed organization there is no
\* invitation to accept.
LEMMA InvCreator ==
    ASSUME IInv, NEW a \in Tasks, InsertCreator(a)
    PROVE  IInv'
<1> DEFINE s == org[a]
           u == user[a]
<1>1. /\ TablesTyped /\ LocalsTyped /\ OrganizationOwned /\ MemberOwned /\ InOrder(a)
  BY TypeParts DEF IInv
<1>2. /\ pc[a] = "creator" /\ pc'[a] = "commit" /\ UNCHANGED <<world, local>>
      /\ s \in Slugs /\ u \in Users /\ WriteRow(a, MemberId(s, u), u)
      /\ lock[OrganizationId(s)] = a
  BY <1>1 DEF InsertCreator, Goto, LocalsTyped, InOrder, WorksOn, Creates
<1>3. ~Exists(s)
  BY <1>1, <1>2 DEF OrganizationOwned, Exists
<1>4. lock[MemberId(s, u)] \notin Tasks
  BY <1>1, <1>2, <1>3 DEF MemberOwned
<1>5. lock[MemberId(s, u)] = None
  BY <1>1, <1>2, <1>4, IdsDiffer DEF TablesTyped
<1>6. LocalsTyped' /\ OthersStay(a)
  BY <1>1, <1>2 DEF InsertCreator, Goto, LocalsTyped, OthersStay, world, local, Phase
<1> QED
  BY <1>2, <1>5, <1>6, InvMemberFlush DEF local

\* An invited user joins.
LEMMA InvJoin ==
    ASSUME IInv, NEW a \in Tasks, JoinOrganization(a), work[MemberId(org[a], user[a])] = None
    PROVE  IInv'
<1> DEFINE s == org[a]
           u == user[a]
<1>1. TablesTyped /\ LocalsTyped /\ InOrder(a)
  BY TypeParts DEF IInv
<1>2. /\ pc[a] = "join" /\ pc'[a] = "get" /\ UNCHANGED <<world, local>>
      /\ s \in Slugs /\ u \in Users /\ WriteRow(a, MemberId(s, u), u)
  BY <1>1 DEF JoinOrganization, Goto, LocalsTyped, InOrder, WorksOn, Accepting
<1>4. lock[MemberId(s, u)] \in {None, a}
  BY <1>1, <1>2, WaitsAt, Unblocked, IdsDiffer DEF JoinOrganization, MayWrite
<1>3. LocalsTyped' /\ OthersStay(a)
  BY <1>1, <1>2 DEF JoinOrganization, Goto, LocalsTyped, OthersStay, world, local, Phase
<1> QED
  BY <1>2, <1>3, <1>4, InvMemberFlush DEF local

\* The flush of a user or an invitation; one that is accepted comes with the
\* membership.
LEMMA InvOtherFlush ==
    ASSUME IInv, NEW a \in Tasks, NEW k \in RowIds, NEW r, Fits(k, r), WriteRow(a, k, r),
           (\E u \in Users : k = UserId(u)) \/ (\E i \in Invites : k = InviteId(i)),
           OthersStay(a), LocalsTyped', pc[a] \in {"invite", "accept", "delete", "change", "anonymise"},
           pc[a] = "accept" => pc'[a] = "commit" /\ org'[a] = org[a] /\ user'[a] = user[a],
           \A i \in Invites : k = InviteId(i) /\ r # None =>
               /\ Exists(r.organization)
               /\ r.status = "accepted" =>
                     \/ Joined(r.organization, r.email)
                     \/ pc'[a] = "commit" /\ Joins(a, r.organization, r.email),
           InOrder(a)'
    PROVE  IInv'
<1>1. /\ TablesTyped /\ LocalsTyped /\ OrganizationOwned /\ MemberOwned /\ Settled /\ InvitesExist
      /\ AcceptedJoins /\ CreatorIsMember
  BY TypeParts DEF IInv
<1>2. /\ TablesTyped' /\ rows' = rows /\ work'[k] = r /\ lock'[k] = a
      /\ \A j \in RowIds \ {k} : work'[j] = work[j] /\ lock'[j] = lock[j]
  BY <1>1, Written
<1>3. /\ \A s \in Slugs : /\ work'[OrganizationId(s)] = work[OrganizationId(s)]
                          /\ lock'[OrganizationId(s)] = lock[OrganizationId(s)]
      /\ \A s \in Slugs, u \in Users : /\ work'[MemberId(s, u)] = work[MemberId(s, u)]
                                    /\ lock'[MemberId(s, u)] = lock[MemberId(s, u)]
      /\ \A i \in Invites : k # InviteId(i) => /\ work'[InviteId(i)] = work[InviteId(i)]
                                             /\ lock'[InviteId(i)] = lock[InviteId(i)]
  BY <1>2, IdsDiffer
<1>4. \A b \in Tasks : InOrder(b)'
  BY <1>2, <1>3, OthersInOrder DEF Exists, Joined, Joins
<1>5. OrganizationOwned'
  BY <1>1, <1>2, <1>3 DEF OrganizationOwned, OthersStay, Joins
<1>6. MemberOwned'
  BY <1>1, <1>2, <1>3 DEF MemberOwned, OthersStay, Exists
<1>7. Settled' /\ CreatorIsMember'
  BY <1>1, <1>2, <1>3 DEF Settled, CreatorIsMember, ListOrganizationMembers
<1>8. InvitesExist'
  BY <1>1, <1>2, <1>3 DEF InvitesExist, Exists
<1>9. AcceptedJoins'
  <2>1. ASSUME NEW i \in Invites, NEW c, c = work[InviteId(i)], c # None, c.status = "accepted",
               ~Joined(c.organization, c.email), k # InviteId(i)
        PROVE  \E b \in Tasks : /\ lock'[InviteId(i)] = b /\ pc'[b] = "commit"
                                /\ Joins(b, c.organization, c.email)'
    <3>1. c.organization \in Slugs /\ c.email \in Users
      BY <1>1, <2>1, InvitesTyped
    <3>2. PICK b \in Tasks : /\ lock[InviteId(i)] = b /\ pc[b] = "commit"
                            /\ Joins(b, c.organization, c.email)
      BY <1>1, <2>1 DEF AcceptedJoins
    <3> QED
      BY <1>3, <2>1, <3>1, <3>2 DEF OthersStay, Joins
  <2>2. ASSUME NEW i \in Invites, k = InviteId(i), r # None, r.status = "accepted",
               ~Joined(r.organization, r.email)
        PROVE  \E b \in Tasks : /\ lock'[InviteId(i)] = b /\ pc'[b] = "commit"
                                /\ Joins(b, r.organization, r.email)'
    <3>1. r.organization \in Slugs /\ r.email \in Users
      BY <2>2 DEF Fits, Invitation
    <3> QED
      BY <1>2, <1>3, <2>2, <3>1 DEF Joins
  <2> QED
    BY <1>1, <1>2, <1>3, <2>1, <2>2 DEF AcceptedJoins, Joined, Joins
<1> QED
  BY <1>2, <1>4, <1>5, <1>6, <1>7, <1>8, <1>9, TypeParts DEF IInv

\* An invitation is ready for its INSERT,
LEMMA InvCheckMember ==
    ASSUME IInv, NEW a \in Tasks, CheckMember(a),
           ~(rows[UserId(guest[a])] = guest[a] /\ IsMember(a, org[a], guest[a]))
    PROVE  IInv'
<1> DEFINE r == [organization |-> org[a], email |-> guest[a], by |-> user[a],
                 status |-> "pending", exp |-> now + Lifetime]
<1>1. LocalsTyped /\ InOrder(a)
  BY TypeParts DEF IInv
<1>2. /\ pc[a] = "member" /\ pc' = [pc EXCEPT ![a] = "invite"] /\ snap' = [snap EXCEPT ![a] = r]
      /\ UNCHANGED <<world, tables, org, user, guest, cur, address, found, todo>>
      /\ org[a] \in Slugs /\ user[a] \in Users /\ guest[a] \in Users /\ Exists(org[a])
  BY <1>1 DEF CheckMember, Goto, InOrder, WorksOn, Inviting
<1>3. /\ r \in Invitation /\ r.organization = org[a] /\ r.email = guest[a]
      /\ r.status = "pending"
  BY <1>1, <1>2, BoundsAssumption DEF LocalsTyped, Invitation, InvitationStatus
<1> HIDE DEF r
<1>4. LocalsTyped' /\ OthersStay(a) /\ pc'[a] = "invite" /\ snap'[a] = r
  BY <1>1, <1>2, <1>3 DEF LocalsTyped, OthersStay, Phase, world
<1>5. InOrder(a)'
  BY <1>2, <1>3, <1>4
  DEF InOrder, WorksOn, Accepts, Creates, Inviting, Accepting, Checked, Exists, tables
<1> QED
  BY <1>2, <1>4, <1>5, InvQuiet

\* and is issued.
LEMMA InvIssue ==
    ASSUME IInv, NEW a \in Tasks, InsertInvitation(a)
    PROVE  IInv'
<1> DEFINE i == issued + 1
           r == snap[a]
<1>1. TablesTyped /\ LocalsTyped /\ InOrder(a)
  BY TypeParts DEF IInv
<1>2. /\ pc[a] = "invite" /\ issued < MaxEvents /\ issued' = i /\ WriteRow(a, InviteId(i), r)
      /\ cur' = [cur EXCEPT ![a] = i] /\ pc' = [pc EXCEPT ![a] = "commit"]
      /\ UNCHANGED <<now, aborts, changes, closed, org, user, guest, snap, address, found, todo>>
      /\ user[a] \in Users /\ Exists(org[a])
      /\ r \in Invitation /\ r.organization = org[a] /\ r.status = "pending"
  BY <1>1 DEF InsertInvitation, Goto, InOrder, WorksOn, Inviting
<1>3. i \in Invites
  BY <1>1, <1>2, BoundsAssumption DEF LocalsTyped, Invites
<1>4. InviteId(i) \in RowIds /\ Fits(InviteId(i), r)
  BY <1>2, <1>3, IdsDiffer DEF Fits
<1>5. LocalsTyped' /\ OthersStay(a) /\ pc'[a] = "commit" /\ user'[a] = user[a]
  BY <1>1, <1>2, <1>3, BoundsAssumption DEF LocalsTyped, OthersStay, Phase
<1>6. InOrder(a)'
  BY <1>2, <1>5 DEF InOrder, WorksOn, Accepts, Creates, Inviting, Accepting, Checked
<1>7. r # None => Exists(r.organization) /\ r.status # "accepted"
  BY <1>2
<1> QED
  BY <1>2, <1>3, <1>4, <1>5, <1>6, <1>7, InvOtherFlush

\* An invitation is marked as accepted.
LEMMA InvMark ==
    ASSUME IInv, NEW a \in Tasks, MarkAccepted(a), found[a] = (work[InviteId(cur[a])] # None)
    PROVE  IInv'
<1>1. TablesTyped /\ LocalsTyped /\ InOrder(a)
  BY TypeParts DEF IInv
<1>2. /\ pc[a] = "accept" /\ pc'[a] = "commit" /\ UNCHANGED <<world, local>>
      /\ WriteRow(a, InviteId(cur[a]), snap[a])
      /\ user[a] \in Users /\ cur[a] \in Invites /\ snap[a] \in Invitation /\ Exists(org[a])
      /\ snap[a].organization = org[a] /\ snap[a].email = user[a]
      /\ Joined(org[a], user[a]) \/ Joins(a, org[a], user[a])
  BY <1>1 DEF MarkAccepted, Goto, LocalsTyped, InOrder, WorksOn, Accepts, Accepting, Checked
<1>3. InviteId(cur[a]) \in RowIds /\ Fits(InviteId(cur[a]), snap[a])
  BY <1>2, IdsDiffer DEF Fits
<1>4. LocalsTyped' /\ OthersStay(a)
  BY <1>1, <1>2 DEF MarkAccepted, Goto, LocalsTyped, OthersStay, world, local, Phase
<1>5. InOrder(a)'
  BY <1>2 DEF InOrder, WorksOn, Accepts, Creates, Inviting, Accepting, Checked, local
<1> QED
  BY <1>2, <1>3, <1>4, <1>5, InvOtherFlush DEF local

\* An erasure deletes an invitation, or a user row is updated.
LEMMA InvErase ==
    ASSUME IInv, NEW a \in Tasks, DeleteInvitation(a) \/ SaveChange(a) \/ AnonymiseUser(a)
    PROVE  IInv'
<1>1. TablesTyped /\ LocalsTyped /\ InOrder(a)
  BY TypeParts DEF IInv
<1>2. CASE DeleteInvitation(a)
  <2>1. /\ pc[a] = "delete" /\ UNCHANGED <<world, pc, org, user, guest, snap, address, found, todo>>
        /\ cur[a] \in Invites /\ WriteRow(a, InviteId(cur[a]), None)
    BY <1>1, <1>2 DEF DeleteInvitation, LocalsTyped
  <2>2. InviteId(cur[a]) \in RowIds /\ Fits(InviteId(cur[a]), None)
    BY <2>1, IdsDiffer DEF Fits
  <2>3. LocalsTyped' /\ OthersStay(a)
    BY <1>1, <1>2, <2>1 DEF DeleteInvitation, LocalsTyped, OthersStay, world
  <2>4. InOrder(a)'
    BY <1>1, <2>1 DEF InOrder, WorksOn, Accepts, Creates, Inviting, Accepting, Checked
  <2> QED
    BY <2>1, <2>2, <2>3, <2>4, InvOtherFlush
<1>3. CASE SaveChange(a) \/ AnonymiseUser(a)
  <2> DEFINE r == IF address[a] = None THEN work[UserId(user[a])] ELSE address[a]
  <2>1. /\ pc[a] \in {"change", "anonymise"} /\ pc'[a] = "commit" /\ UNCHANGED <<world, local>>
        /\ user[a] \in Users /\ WriteRow(a, UserId(user[a]), r)
        /\ address[a] \in {user[a], "erased", None}
    BY <1>1, <1>3
    DEF SaveChange, AnonymiseUser, UpdateUser, Goto, LocalsTyped, InOrder, WorksOn
  <2>2. UserId(user[a]) \in RowIds /\ r \in {user[a], "erased"}
    BY <1>1, <2>1, IdsDiffer DEF TablesTyped, Fits
  <2>3. Fits(UserId(user[a]), r)
    BY <2>1, <2>2, IdsDiffer DEF Fits
  <2> HIDE DEF r
  <2>4. LocalsTyped' /\ OthersStay(a)
    BY <1>1, <1>3, <2>1
    DEF SaveChange, AnonymiseUser, UpdateUser, Goto, LocalsTyped, OthersStay, world, local, Phase
  <2>5. InOrder(a)'
    BY <2>1 DEF InOrder, WorksOn, Accepts, Creates, Inviting, Accepting, Checked, local
  <2>6. \A i \in Invites : UserId(user[a]) # InviteId(i)
    BY IdsDiffer
  <2> QED
    BY <2>1, <2>2, <2>3, <2>4, <2>5, <2>6, InvOtherFlush
<1> QED
  BY <1>2, <1>3

\* The end of a transaction: its rows are as committed, and their locks go to
\* tasks that have not written them.
LEMMA LocksEnd ==
    ASSUME IInv, NEW a \in Tasks, OthersStay(a), pc'[a] = "idle",
           \A k \in RowIds : lock[k] = a => work'[k] = rows'[k],
           \A k \in RowIds : lock[k] # a =>
               work'[k] = work[k] /\ rows'[k] = rows[k] /\ lock'[k] = lock[k],
           \A k \in RowIds : lock[k] = a /\ lock'[k] # None =>
               lock'[k] # a /\ Waits[lock'[k]] = k,
           \A s \in Slugs : Exists(s) => Exists(s)',
           \A s \in Slugs, u \in Users : Joined(s, u) => Joined(s, u)'
    PROVE  /\ OrganizationOwned' /\ MemberOwned' /\ Settled'
           /\ \A b \in Tasks : InOrder(b)'
           /\ \A b \in Tasks \ {a}, s \in Slugs, u \in Users : Joins(b, s, u) => Joins(b, s, u)'
<1>1. /\ TablesTyped /\ LocalsTyped /\ OrganizationOwned /\ MemberOwned /\ Settled
      /\ \A b \in Tasks : InOrder(b)
  BY TypeParts DEF IInv
<1>2. /\ \A s \in Slugs : OrganizationId(s) \in RowIds
      /\ \A s \in Slugs, u \in Users : MemberId(s, u) \in RowIds
  BY IdsDiffer
<1>3. \A b \in Tasks \ {a}, s \in Slugs, u \in Users : Joins(b, s, u) => Joins(b, s, u)'
  BY <1>2 DEF Joins
<1>4. \A b \in Tasks : InOrder(b)'
  <2>1. InOrder(a)'
    BY DEF InOrder, WorksOn, Accepts, Creates, Inviting, Accepting, Checked
  <2>2. \A b \in Tasks \ {a}, s \in Slugs :
          lock[OrganizationId(s)] = b => lock'[OrganizationId(s)] = b
    BY <1>2
  <2> QED
    BY <1>3, <2>1, <2>2, OthersInOrder
<1>5. OrganizationOwned'
  <2> SUFFICES ASSUME NEW s \in Slugs, NEW b \in Tasks, lock'[OrganizationId(s)] = b
               PROVE  /\ pc'[b] \in {"organization", "creator", "commit"} /\ org'[b] = s
                      /\ pc'[b] = "organization" =>
                            work'[OrganizationId(s)] = rows'[OrganizationId(s)]
                      /\ pc'[b] # "organization" => /\ rows'[OrganizationId(s)] = None
                                                    /\ work'[OrganizationId(s)] = user'[b]
                                                    /\ user'[b] \in Users
                      /\ pc'[b] = "commit" => Joins(b, s, user[b])'
    BY DEF OrganizationOwned
  <2>1. CASE lock[OrganizationId(s)] = a
    <3>1. b # a /\ pc[b] = "organization" /\ org[b] = s
      BY <1>2, <2>1, NoTaskIsNone, WaitsFor
    <3> QED
      BY <1>2, <2>1, <3>1 DEF OthersStay
  <2>2. CASE lock[OrganizationId(s)] # a
    <3>1. /\ b # a /\ lock[OrganizationId(s)] = b
          /\ work'[OrganizationId(s)] = work[OrganizationId(s)]
          /\ rows'[OrganizationId(s)] = rows[OrganizationId(s)]
      BY <1>2, <2>2
    <3>2. pc[b] = "commit" => user[b] \in Users /\ Joins(b, s, user[b])
      BY <1>1, <3>1 DEF OrganizationOwned
    <3>3. pc[b] = "commit" => Joins(b, s, user[b])'
      BY <1>3, <3>1, <3>2 DEF Joins, OthersStay
    <3> QED
      BY <1>1, <3>1, <3>3 DEF OrganizationOwned, OthersStay
  <2> QED
    BY <2>1, <2>2
<1>6. MemberOwned'
  <2> SUFFICES ASSUME NEW s \in Slugs, NEW u \in Users, NEW b \in Tasks, lock'[MemberId(s, u)] = b
               PROVE  /\ pc'[b] \in {"join", "get", "accept", "commit"} /\ org'[b] = s
                      /\ user'[b] = u
                      /\ pc'[b] = "join" => work'[MemberId(s, u)] = rows'[MemberId(s, u)]
                      /\ pc'[b] # "join" => work'[MemberId(s, u)] # None
                      /\ Exists(s)' \/ (pc'[b] = "commit" /\ lock'[OrganizationId(s)] = b)
    BY DEF MemberOwned
  <2>1. CASE lock[MemberId(s, u)] = a
    <3>1. b # a /\ pc[b] = "join" /\ org[b] = s /\ user[b] = u
      BY <1>2, <2>1, NoTaskIsNone, WaitsFor
    <3>2. Exists(s)'
      BY <1>1, <3>1 DEF InOrder, WorksOn, Accepting
    <3> QED
      BY <1>2, <2>1, <3>1, <3>2 DEF OthersStay
  <2>2. CASE lock[MemberId(s, u)] # a
    <3>1. /\ b # a /\ lock[MemberId(s, u)] = b
          /\ work'[MemberId(s, u)] = work[MemberId(s, u)]
          /\ rows'[MemberId(s, u)] = rows[MemberId(s, u)]
      BY <1>2, <2>2
    <3> QED
      BY <1>1, <1>2, <3>1 DEF MemberOwned, OthersStay
  <2> QED
    BY <2>1, <2>2
<1>7. Settled'
  BY <1>1, <1>2 DEF Settled
<1> QED
  BY <1>3, <1>4, <1>5, <1>6, <1>7

\* The commit of what a request or an erasure did, all of it.
LEMMA InvCommit ==
    ASSUME IInv, NEW a \in Tasks, Commit(a)
    PROVE  IInv'
<1>1. /\ TablesTyped /\ LocalsTyped /\ OrganizationOwned /\ MemberOwned /\ InvitesExist
      /\ AcceptedJoins /\ CreatorIsMember
  BY TypeParts DEF IInv
<1>2. /\ pc[a] = "commit" /\ CommitRows(Waits, a) /\ EndTask(a)
      /\ UNCHANGED <<now, issued, aborts, changes>>
      /\ closed' \in {closed, closed \cup {user[a]}}
  BY DEF Commit
<1>0. user[a] \in Users
  BY <1>2 DEF IInv, InOrder, WorksOn
<1>3. /\ TablesTyped' /\ work' = work
      /\ \A k \in RowIds : lock[k] = a => rows'[k] = work[k]
      /\ \A k \in RowIds : lock[k] # a => rows'[k] = rows[k] /\ lock'[k] = lock[k]
      /\ \A k \in RowIds : lock[k] = a /\ lock'[k] # None => lock'[k] # a /\ Waits[lock'[k]] = k
  BY <1>1, <1>2, Committed
<1>4. LocalsTyped' /\ OthersStay(a) /\ pc'[a] = "idle"
  BY <1>0, <1>1, <1>2, Ended DEF LocalsTyped
<1>5. /\ \A s \in Slugs : OrganizationId(s) \in RowIds
      /\ \A s \in Slugs, u \in Users : MemberId(s, u) \in RowIds
      /\ \A i \in Invites : InviteId(i) \in RowIds
  BY IdsDiffer
<1>6. \A s \in Slugs, u \in Users : Joins(a, s, u) \/ Joined(s, u) => Joined(s, u)'
  BY <1>1, <1>2, <1>3, <1>5 DEF Joined, Joins, MemberOwned
<1>7. \A s \in Slugs : Exists(s) => Exists(s)'
  BY <1>1, <1>2, <1>3, <1>5 DEF Exists, OrganizationOwned
<1>8. /\ OrganizationOwned' /\ MemberOwned' /\ Settled' /\ \A b \in Tasks : InOrder(b)'
      /\ \A b \in Tasks \ {a}, s \in Slugs, u \in Users : Joins(b, s, u) => Joins(b, s, u)'
  BY <1>3, <1>4, <1>6, <1>7, LocksEnd
<1>9. CreatorIsMember'
  <2> SUFFICES ASSUME NEW s \in Slugs, NEW u, u = rows'[OrganizationId(s)], u # None
               PROVE  u \in Users /\ Joined(s, u)'
    BY DEF CreatorIsMember, ListOrganizationMembers, Joined
  <2>1. CASE lock[OrganizationId(s)] = a
    <3>1. u = user[a] /\ u \in Users /\ Joins(a, s, u)
      BY <1>1, <1>2, <1>3, <1>5, <2>1 DEF OrganizationOwned
    <3> QED
      BY <1>6, <3>1
  <2>2. CASE lock[OrganizationId(s)] # a
    <3>1. u \in Users /\ Joined(s, u)
      BY <1>1, <1>3, <1>5, <2>2 DEF CreatorIsMember, ListOrganizationMembers, Joined
    <3> QED
      BY <1>6, <3>1
  <2> QED
    BY <2>1, <2>2
<1>10. InvitesExist'
  <2> SUFFICES ASSUME NEW i \in Invites, NEW r \in {rows'[InviteId(i)], work'[InviteId(i)]}, r # None
               PROVE  Exists(r.organization)'
    BY DEF InvitesExist, Exists
  <2>1. r \in {rows[InviteId(i)], work[InviteId(i)]}
    BY <1>3, <1>5
  <2>2. r.organization \in Slugs /\ Exists(r.organization)
    BY <1>1, <2>1, InvitesTyped DEF InvitesExist
  <2> QED
    BY <1>7, <2>2
<1>11. AcceptedJoins'
  <2>1. ASSUME NEW i \in Invites, NEW r, r = work[InviteId(i)], r # None, r.status = "accepted"
        PROVE  \/ Joined(r.organization, r.email)'
               \/ /\ lock[InviteId(i)] # a
                  /\ \E b \in Tasks : /\ lock'[InviteId(i)] = b /\ pc'[b] = "commit"
                                      /\ Joins(b, r.organization, r.email)'
    <3>1. r.organization \in Slugs /\ r.email \in Users
      BY <1>1, <2>1, InvitesTyped
    <3>2. CASE Joined(r.organization, r.email)
      BY <1>6, <3>1, <3>2
    <3>3. CASE ~Joined(r.organization, r.email)
      <4>1. PICK b \in Tasks : /\ lock[InviteId(i)] = b /\ pc[b] = "commit"
                              /\ Joins(b, r.organization, r.email)
        BY <1>1, <2>1, <3>3 DEF AcceptedJoins
      <4>2. CASE b = a
        BY <1>6, <3>1, <4>1, <4>2
      <4>3. CASE b # a
        <5>1. lock'[InviteId(i)] = b /\ pc'[b] = "commit" /\ Joins(b, r.organization, r.email)'
          BY <1>3, <1>4, <1>5, <1>8, <3>1, <4>1, <4>3 DEF OthersStay
        <5> QED
          BY <4>1, <4>3, <5>1
      <4> QED
        BY <4>2, <4>3
    <3> QED
      BY <3>2, <3>3
  <2>2. ASSUME NEW i \in Invites, NEW c, c = rows'[InviteId(i)], c # None, c.status = "accepted"
        PROVE  Joined(c.organization, c.email)'
    <3>1. CASE lock[InviteId(i)] = a
      <4>1. c = work[InviteId(i)]
        BY <1>3, <1>5, <2>2, <3>1
      <4> QED
        BY <2>1, <2>2, <3>1, <4>1
    <3>2. CASE lock[InviteId(i)] # a
      <4>1. c = rows[InviteId(i)]
        BY <1>3, <1>5, <2>2, <3>2
      <4>2. c.organization \in Slugs /\ c.email \in Users /\ Joined(c.organization, c.email)
        BY <1>1, <2>2, <4>1, InvitesTyped DEF AcceptedJoins
      <4> QED
        BY <1>6, <4>2
    <3> QED
      BY <3>1, <3>2
  <2> QED
    BY <1>3, <2>1, <2>2 DEF AcceptedJoins, Joined, Joins
<1> QED
  BY <1>3, <1>4, <1>8, <1>9, <1>10, <1>11, TypeParts DEF IInv

\* A rollback takes back everything its task wrote.
LEMMA InvRollback ==
    ASSUME IInv, NEW a \in Tasks, Refuse(a), UNCHANGED <<now, issued, changes, closed>>,
           aborts' \in Nat
    PROVE  IInv'
<1>1. /\ TablesTyped /\ LocalsTyped /\ InvitesExist /\ AcceptedJoins /\ CreatorIsMember
  BY TypeParts DEF IInv
<1>2. RollbackRows(Waits, a) /\ EndTask(a)
  BY DEF Refuse
<1>3. /\ TablesTyped' /\ rows' = rows
      /\ \A k \in RowIds : lock[k] = a => work'[k] = rows[k]
      /\ \A k \in RowIds : lock[k] # a => work'[k] = work[k] /\ lock'[k] = lock[k]
      /\ \A k \in RowIds : lock[k] = a /\ lock'[k] # None => lock'[k] # a /\ Waits[lock'[k]] = k
  BY <1>1, <1>2, RolledBack
<1>4. LocalsTyped' /\ OthersStay(a) /\ pc'[a] = "idle"
  BY <1>1, <1>2, Ended DEF LocalsTyped
<1>5. /\ OrganizationOwned' /\ MemberOwned' /\ Settled' /\ \A b \in Tasks : InOrder(b)'
      /\ \A b \in Tasks \ {a}, s \in Slugs, u \in Users : Joins(b, s, u) => Joins(b, s, u)'
  BY <1>3, <1>4, LocksEnd DEF Exists, Joined
<1>6. \A i \in Invites : InviteId(i) \in RowIds
  BY IdsDiffer
<1>7. CreatorIsMember'
  BY <1>1, <1>3 DEF CreatorIsMember, ListOrganizationMembers
<1>8. InvitesExist'
  BY <1>1, <1>3, <1>6 DEF InvitesExist, Exists
<1>9. AcceptedJoins'
  <2>1. ASSUME NEW i \in Invites, NEW r, r = work'[InviteId(i)], r # None, r.status = "accepted",
               ~Joined(r.organization, r.email)
        PROVE  \E b \in Tasks : /\ lock'[InviteId(i)] = b /\ pc'[b] = "commit"
                                /\ Joins(b, r.organization, r.email)'
    <3>1. lock[InviteId(i)] # a /\ r = work[InviteId(i)]
      BY <1>1, <1>3, <1>6, <2>1 DEF AcceptedJoins
    <3>2. r.organization \in Slugs /\ r.email \in Users
      BY <1>1, <2>1, <3>1, InvitesTyped
    <3>3. PICK b \in Tasks : /\ lock[InviteId(i)] = b /\ pc[b] = "commit"
                            /\ Joins(b, r.organization, r.email)
      BY <1>1, <2>1, <3>1 DEF AcceptedJoins
    <3> QED
      BY <1>3, <1>4, <1>5, <1>6, <3>1, <3>2, <3>3 DEF OthersStay
  <2> QED
    BY <1>1, <1>3, <2>1 DEF AcceptedJoins, Joined, Joins
<1> QED
  BY <1>3, <1>4, <1>5, <1>7, <1>8, <1>9, TypeParts DEF IInv
-------------------------------------------------------------------------------
(* The theorems.                                                             *)

\* Users are there from the start, and nothing else.
LEMMA InvInit == Init => IInv
<1> SUFFICES ASSUME Init PROVE IInv
  OBVIOUS
<1>1. \A table \in {rows, work} :
        /\ DOMAIN table = RowIds
        /\ \A u \in Users : table[UserId(u)] = u
        /\ \A s \in Slugs : table[OrganizationId(s)] = None
        /\ \A s \in Slugs, u \in Users : table[MemberId(s, u)] = None
        /\ \A i \in Invites : table[InviteId(i)] = None
  <2>1. /\ \A u : UserId(u)[1] = "user" /\ UserId(u)[2] = u
        /\ \A s : OrganizationId(s)[1] = "organization"
        /\ \A s, u : MemberId(s, u)[1] = "member"
        /\ \A i : InviteId(i)[1] = "invite"
    BY DEF UserId, OrganizationId, MemberId, InviteId
  <2> QED
    BY <2>1, IdsDiffer DEF Init
<1>2. TypeOK
  <2>1. lock \in [RowIds -> Tasks \cup {None}]
    BY DEF Init
  <2>2. LocalsTyped
    BY BoundsAssumption DEF Init, LocalsTyped, Phase
  <2> QED
    BY <1>1, <2>1, <2>2 DEF TypeOK, LocalsTyped
<1>3. \A k \in RowIds : lock[k] = None
  BY DEF Init
<1>4. OrganizationOwned /\ MemberOwned /\ Settled
  BY <1>1, <1>3, IdsDiffer, NoTaskIsNone DEF OrganizationOwned, MemberOwned, Settled
<1>5. InvitesExist /\ AcceptedJoins /\ CreatorIsMember
  BY <1>1 DEF InvitesExist, AcceptedJoins, CreatorIsMember
<1>6. \A a \in Tasks : InOrder(a)
  BY DEF Init, InOrder, WorksOn, Accepts, Creates, Inviting, Accepting, Checked
<1> QED
  BY <1>2, <1>4, <1>5, <1>6 DEF IInv

\* Every step of a running task keeps the invariant.
LEMMA InvStep ==
    ASSUME IInv, NEW a \in Tasks, Step(a) \/ Abort(a)
    PROVE  IInv'
<1>0. aborts \in Nat
  BY DEF IInv, TypeOK
<1>1. CASE Abort(a) \/ DeadlockVictim(a)
  BY <1>0, <1>1, InvRollback DEF Abort, DeadlockVictim, Refuse, world
<1>2. CASE InsertOrganization(a) \/ JoinOrganization(a) \/ MarkAccepted(a)
  BY <1>0, <1>2, InvInsert, InvJoin, InvMark, InvRollback
  DEF InsertOrganization, JoinOrganization, MarkAccepted, world
<1>3. CASE CheckMember(a)
  <2>1. CASE rows[UserId(guest[a])] = guest[a] /\ IsMember(a, org[a], guest[a])
    BY <1>0, <1>3, <2>1, InvRollback DEF CheckMember, world
  <2> QED
    BY <1>3, <2>1, InvCheckMember
<1>4. CASE CheckPending(a) \/ CheckAccount(a)
  BY <1>0, <1>4, InvReads, InvRollback DEF CheckPending, CheckAccount, world
<1>5. CASE \/ FindMembership(a) \/ GetInvitation(a) \/ NextInvitation(a)
           \/ RereadUser(a) \/ UserEraserRaises(a) \/ ReadUser(a)
  BY <1>5, InvReads
<1>6. CASE \/ InsertCreator(a) \/ InsertInvitation(a) \/ DeleteInvitation(a)
           \/ SaveChange(a) \/ AnonymiseUser(a) \/ Commit(a)
  BY <1>6, InvCreator, InvIssue, InvErase, InvCommit
<1> QED
  BY <1>1, <1>2, <1>3, <1>4, <1>5, <1>6 DEF Step

\* The inductive invariant holds throughout.
LEMMA Invariant == Spec => []IInv
<1>1. IInv /\ [Next]_vars => IInv'
  <2> SUFFICES ASSUME IInv, [Next]_vars PROVE IInv'
    OBVIOUS
  <2>1. CASE \E a \in Tasks : Step(a) \/ Abort(a)
    BY <2>1, InvStep
  <2>2. CASE \/ \E a \in Tasks, u \in Users, s \in Slugs : CreateOrganization(a, u, s)
             \/ \E a \in Tasks, u, v \in Users, s \in Slugs : InviteMember(a, u, s, v)
             \/ \E a \in Tasks, u \in Users, i \in Invites : AcceptInvitation(a, u, i)
             \/ \E a \in Tasks, u \in Users : ChangePassword(a, u) \/ StartErasure(a, u)
    BY <2>2, InvStarts
  <2>3. CASE Tick
    BY <2>3, InvTick DEF Tick, IInv, TypeOK
  <2>4. CASE UNCHANGED vars
    BY <2>4, InvTick DEF vars, world, IInv, TypeOK
  <2> QED
    BY <2>1, <2>2, <2>3, <2>4 DEF Next
<1> QED
  BY <1>1, InvInit, PTL DEF Spec

\* Whatever races to a unique constraint, every row is of its table and every
\* task knows what it works on.
THEOREM TypeCorrect == Spec => []TypeOK
<1>1. IInv => TypeOK
  BY DEF IInv
<1> QED
  BY <1>1, Invariant, PTL

\* An organization is never seen without its creator among the members: of two
\* requests for a slug the loser leaves nothing, and a fault between the two
\* inserts leaves neither.
THEOREM CreatorBelongs == Spec => []CreatorIsMember
<1>1. IInv => CreatorIsMember
  BY DEF IInv
<1> QED
  BY <1>1, Invariant, PTL

\* An invitation counts as accepted only if the invited user finds the
\* organization among the own ones, whoever else presents it or another one at the
\* same time.
THEOREM AcceptedBelongs == Spec => []AcceptedIsMember
<1>1. IInv => AcceptedIsMember
  <2> SUFFICES ASSUME IInv, NEW i \in Invites, NEW r, r = rows[InviteId(i)], r # None,
                      r.status = "accepted"
               PROVE  r.organization \in ListUserOrganizations(r.email)
    BY DEF AcceptedIsMember
  <2>1. TablesTyped /\ InvitesExist /\ AcceptedJoins
    BY TypeParts DEF IInv
  <2>2. r.organization \in Slugs
    BY <2>1, InvitesTyped
  <2> QED
    BY <2>1, <2>2 DEF InvitesExist, AcceptedJoins, ListUserOrganizations, Exists, Joined
<1> QED
  BY <1>1, Invariant, PTL
=============================================================================
