------------------------- MODULE ErasureEffects_proofs -------------------------
(***************************************************************************)
(* Proofs about what an erasure does, for every number of users, requests, *)
(* erasures, items and faults: how many requests of a subject can be       *)
(* active, what the commit that completes one leaves of the account and of *)
(* the subject's data, and that an erased account is out of reach for good.*)
(***************************************************************************)
EXTENDS Erasure_proofs, FiniteSetTheorems

\* Items that are not stored yet are nowhere, and who inserts an item does not
\* replace one.
Stored ==
    \A i \in Items :
        /\ i > stored => lock[ItemId(i)] = None /\ rows[ItemId(i)] = AbsentItem
        /\ lock[ItemId(i)] \in Webs => rows[ItemId(i)] = AbsentItem

\* A request has locks on rows of the user it works for, and on an invitation.
RequestHolds(a) ==
    /\ \A u \in Users : lock[UserId(u)] = a =>
          subject[a] = u /\ pc[a] \in {"insert", "change", "commit"}
    /\ \A e \in Erasures : lock[ErasureId(e)] = a =>
          pc[a] = "commit" /\ work[ErasureId(e)].subject = subject[a]
    /\ \A i \in Items : lock[ItemId(i)] = a =>
          /\ pc[a] = "commit"
          /\ work[ItemId(i)].kind = "invitation" \/ work[ItemId(i)].subject = subject[a]

\* The poll has erased user u, or is about to complete an erasure of u.
Erases(a, u) ==
    \/ pc[a] = "close" /\ subject[a] = u
    \/ \E e \in Erasures : /\ lock[ErasureId(e)] = a
                           /\ work[ErasureId(e)] = [subject |-> u, status |-> "completed"]

\* The poll keeps an erased user erased, changes the status of requests, deletes
\* items, and completes an erasure with nobody's password.
PollHolds(a) ==
    /\ \A u \in Users :
          /\ lock[UserId(u)] = a /\ rows[UserId(u)] = ErasedUser => work[UserId(u)] = ErasedUser
          /\ Erases(a, u) => lock[UserId(u)] = a /\ work[UserId(u)].password = "unusable"
    /\ \A e \in Erasures : lock[ErasureId(e)] = a =>
          /\ work[ErasureId(e)].subject = rows[ErasureId(e)].subject
          /\ work[ErasureId(e)].status # "pending"
    /\ \A i \in Items : lock[ItemId(i)] = a => work[ItemId(i)] = AbsentItem

Holding ==
    /\ Stored
    /\ \A u \in Users : lock[UserId(u)] = None => work[UserId(u)] = rows[UserId(u)]
    /\ \A a \in Webs : RequestHolds(a)
    /\ \A a \in Pollers : PollHolds(a)

\* The poll has deleted what it listed of user u and of this kind,
Gone(a, u, kind) ==
    \A i \in known[a] :
        rows[ItemId(i)] = [subject |-> u, kind |-> kind] => lock[ItemId(i)] = a

\* of the invitations those that the first erasure of the user finds.
InvitationsGone(a, u) == Answered(u) \/ Gone(a, u, "invitation")

AllGone(a, u) == Gone(a, u, "export") /\ InvitationsGone(a, u) /\ Gone(a, u, "token")

\* What an erasure has deleted when it has come to its phase, and for good.
Cleans(a) ==
    /\ \A i \in known[a] : rows[ItemId(i)].kind # "none"
    /\ pc[a] \in Erasing \ {"privacy"} => Gone(a, subject[a], "export")
    /\ pc[a] \in Erasing \ {"privacy", "organizations"} => InvitationsGone(a, subject[a])
    /\ pc[a] \in {"user", "anonymise", "close"} => Gone(a, subject[a], "token")
    /\ \A u \in Users, e \in Erasures :
          lock[ErasureId(e)] = a /\ work[ErasureId(e)] = [subject |-> u, status |-> "completed"]
             => AllGone(a, u)

Cleaning == \A a \in Pollers : Cleans(a)

IsActiveFor(e, u) == rows[ErasureId(e)].subject = u /\ rows[ErasureId(e)].status \in Active

\* f[e] is the request task that filed erasure e.  It is still filing, or has
\* looked for an active erasure of the subject and found none of its own.
Filers(f) ==
    /\ \A e \in Erasures :
          /\ lock[ErasureId(e)] \in Webs => f[e] = lock[ErasureId(e)]
          /\ rows[ErasureId(e)].status \in Active => f[e] \in Webs
    /\ \A e, g \in Erasures :
          /\ lock[ErasureId(e)] \in Webs /\ lock[ErasureId(g)] = lock[ErasureId(e)] => e = g
          /\ \A u \in Users :
                IsActiveFor(e, u) /\ IsActiveFor(g, u) /\ f[e] = f[g] => e = g
          /\ lock[ErasureId(e)] \in Webs /\ IsActiveFor(g, work[ErasureId(e)].subject)
                => f[g] # lock[ErasureId(e)]
    /\ \A a \in Webs, e \in Erasures :
          pc[a] = "file" /\ IsActiveFor(e, subject[a]) => f[e] # a
-------------------------------------------------------------------------------
(* What the steps do.                                                        *)

\* What the other tasks have in hand stays as it is.
OthersKeep(a) == OthersStay(a) /\ \A b \in Tasks \ {a} : known'[b] = known[b]

Keeps(a) == subject'[a] = subject[a] /\ known'[a] = known[a] /\ tokens' = tokens

\* A step that writes nothing: a request begins, a token is issued, a user is
\* read, the poll makes its list.
Quiet(a) ==
    /\ UNCHANGED <<rows, work, lock, filed, stored>> /\ OthersKeep(a)
    /\ \/ /\ a \in Webs /\ pc[a] = "idle" /\ known'[a] = known[a] /\ tokens' = tokens
          /\ subject'[a] \in Users
          /\ \/ pc'[a] = "insert" /\ rows[UserId(subject'[a])] = NoUser
             \/ pc'[a] = "issue" /\ FoundByEmail(subject'[a])
             \/ pc'[a] = "reread" /\ subject'[a] \in tokens
             \/ /\ pc'[a] = "file" /\ subject'[a] \in tokens
                /\ \A e \in Erasures : ~IsActiveFor(e, subject'[a])
       \/ /\ a \in Webs /\ pc[a] = "issue" /\ pc'[a] = "idle"
          /\ tokens' = tokens \cup {subject[a]} /\ subject'[a] = None /\ known'[a] = {}
       \/ a \in Webs /\ pc[a] = "reread" /\ pc'[a] = "change" /\ Keeps(a)
       \/ a \in Pollers /\ pc[a] = "user" /\ pc'[a] = "anonymise" /\ Keeps(a)
       \/ /\ a \in Pollers /\ pc[a] = "idle" /\ pc'[a] = "next"
          /\ tokens' = tokens /\ subject'[a] = subject[a]
          /\ known'[a] = {i \in Items : IsReachable(rows[ItemId(i)])}

\* Task a writes row k.
Writes(a, k, r) ==
    /\ rows' = rows /\ work'[k] = r /\ lock'[k] = a
    /\ \A j \in RowIds \ {k} : work'[j] = work[j] /\ lock'[j] = lock[j]

\* The flush of a user row.
FlushesUser(a) ==
    /\ UNCHANGED <<filed, stored>> /\ OthersKeep(a) /\ Keeps(a) /\ subject[a] \in Users
    /\ lock[UserId(subject[a])] \in {None, a}
    /\ LET k == UserId(subject[a])
       IN  /\ Writes(a, k, work'[k])
           /\ \/ a \in Webs /\ pc[a] \in {"insert", "change"} /\ pc'[a] = "commit"
              \/ /\ a \in Pollers /\ pc[a] = "anonymise" /\ pc'[a] = "close"
                 /\ work'[k].password = "unusable"
                 /\ work[k] = ErasedUser => work'[k] = ErasedUser

\* The flush of a request: it is filed, taken up, or answered.
FlushesRequest(a) ==
    /\ tokens' = tokens /\ stored' = stored /\ OthersKeep(a) /\ known'[a] = known[a]
    /\ \E e \in Erasures :
          LET r == rows[ErasureId(e)]
              w == work'[ErasureId(e)]
          IN  /\ Writes(a, ErasureId(e), w)
              /\ \/ /\ a \in Webs /\ pc[a] = "file" /\ pc'[a] = "commit" /\ subject'[a] = subject[a]
                    /\ e = filed + 1 /\ filed' = e
                    /\ w = [subject |-> subject[a], status |-> "pending"]
                 \/ /\ a \in Pollers /\ pc[a] = "next" /\ pc'[a] = "privacy" /\ filed' = filed
                    /\ subject'[a] = r.subject /\ lock[ErasureId(e)] = None
                    /\ w = [subject |-> r.subject, status |-> "processing"]
                 \/ /\ a \in Pollers /\ pc[a] \in Erasing /\ pc'[a] = "next" /\ filed' = filed
                    /\ e = cur[a] /\ w.subject = subject[a] /\ subject'[a] = None
                    /\ (pc[a] = "close" /\ w.status = "completed") \/ w.status = "failed"

\* The insert of an item.
Leaves(a) ==
    /\ tokens' = tokens /\ filed' = filed /\ OthersKeep(a) /\ known'[a] = known[a]
    /\ a \in Webs /\ pc[a] = "idle" /\ pc'[a] = "commit"
    /\ stored + 1 \in Items /\ stored' = stored + 1
    /\ LET w == work'[ItemId(stored + 1)]
       IN  /\ Writes(a, ItemId(stored + 1), w)
           /\ w.subject \in Users
           /\ \/ w.kind = "token" /\ FoundByEmail(w.subject) /\ subject'[a] = w.subject
              \/ w.kind = "invitation" /\ subject'[a] = None
              \/ w.kind = "export" /\ w.subject \in tokens /\ subject'[a] = w.subject

\* The poll deletes items of its subject and of a kind.
DeletesAll(a, kind) ==
    \A i \in Items : Visible(a, ItemId(i)) = [subject |-> subject[a], kind |-> kind]
        => lock'[ItemId(i)] = a

Deletes(a) ==
    /\ UNCHANGED <<filed, stored>> /\ OthersKeep(a) /\ Keeps(a)
    /\ a \in Pollers /\ ItemsOnly
    /\ \A i \in Items :
          \/ /\ lock'[ItemId(i)] = a /\ work'[ItemId(i)] = AbsentItem
             /\ Visible(a, ItemId(i)) # AbsentItem
          \/ lock'[ItemId(i)] = lock[ItemId(i)] /\ work'[ItemId(i)] = work[ItemId(i)]
    /\ \/ pc[a] = "privacy" /\ pc'[a] = "organizations" /\ DeletesAll(a, "export")
       \/ /\ pc[a] = "organizations" /\ pc'[a] = "tokens"
          /\ Visible(a, UserId(subject[a])).email = "own" => DeletesAll(a, "invitation")
       \/ pc[a] = "tokens" /\ pc'[a] = "user" /\ DeletesAll(a, "token")

\* A commit or a rollback: every row the task has locked is as committed, and goes
\* to a task that waits for it.
Ends(a) ==
    /\ UNCHANGED <<tokens, filed, stored>> /\ OthersKeep(a)
    /\ pc'[a] = "idle" /\ subject'[a] = None /\ known'[a] = {}
    /\ \A k \in RowIds : lock[k] # a =>
          rows'[k] = rows[k] /\ work'[k] = work[k] /\ lock'[k] = lock[k]
    /\ \A k \in RowIds : lock[k] = a =>
          /\ rows'[k] = work'[k] /\ lock'[k] # a
          /\ lock'[k] # None => lock'[k] \in Tasks /\ Waits[lock'[k]] = k
    /\ \/ /\ pc[a] = "commit" \/ (pc[a] = "next" /\ todo[a] = {})
          /\ \A k \in RowIds : lock[k] = a => rows'[k] = work[k]
       \/ rows' = rows

\* Tokens expire and workers start.
Passes ==
    UNCHANGED <<rows, work, lock, filed, stored, pc, subject, known>> /\ tokens' \subseteq tokens

Moves(a) ==
    Quiet(a) \/ FlushesUser(a) \/ FlushesRequest(a) \/ Leaves(a) \/ Deletes(a) \/ Ends(a)
-------------------------------------------------------------------------------
(* Each action is one of these.                                              *)

\* A request or a poll that begins or reads writes nothing.
LEMMA QuietKinds ==
    ASSUME IInv, NEW a \in Tasks,
           \/ IssueToken(a) \/ RereadUser(a) \/ ReadUser(a) \/ StartPoll(a)
           \/ \E u \in Users : \/ Register(a, u) \/ Login(a, u)
                               \/ RequestErasure(a, u) \/ ChangePassword(a, u)
    PROVE  Quiet(a)
<1>1. LocalsTyped /\ InOrder(a)
  BY TypeParts DEF IInv
<1> USE DEF OthersKeep, OthersStay, Keeps, tables, env, counts, Goto
<1>2. CASE \E u \in Users : Register(a, u) \/ Login(a, u)
  BY <1>1, <1>2 DEF Register, Login, Quiet, LocalsTyped
<1>3. CASE \E u \in Users : RequestErasure(a, u)
  BY <1>1, <1>3 DEF RequestErasure, IsAuthenticated, Quiet, IsActiveFor, LocalsTyped
<1>4. CASE \E u \in Users : ChangePassword(a, u)
  BY <1>1, <1>4 DEF ChangePassword, IsAuthenticated, Quiet, LocalsTyped
<1>5. CASE IssueToken(a)
  BY <1>1, <1>5 DEF IssueToken, EndTask, Quiet, LocalsTyped, InOrder, WorksOnUser, OfUser
<1>6. CASE RereadUser(a)
  BY <1>1, <1>6 DEF RereadUser, Quiet, LocalsTyped, InOrder, WorksOnUser, OfUser
<1>7. CASE ReadUser(a)
  BY <1>1, <1>7 DEF ReadUser, Quiet, LocalsTyped, InOrder, Processes, Erasing
<1>8. CASE StartPoll(a)
  BY <1>1, <1>8 DEF StartPoll, Quiet, LocalsTyped
<1> QED
  BY <1>2, <1>3, <1>4, <1>5, <1>6, <1>7, <1>8

\* The effect of WriteRow on a row that is there.
LEMMA WriteKinds ==
    ASSUME TablesTyped, NEW a \in Tasks, NEW k \in RowIds, NEW r, WriteRow(a, k, r)
    PROVE  Writes(a, k, work'[k]) /\ work'[k] = r
  BY DEF TablesTyped, WriteRow, Writes

\* A registration, a password change, the anonymisation.
LEMMA UserKinds ==
    ASSUME IInv, NEW a \in Tasks,
           \/ InsertUser(a) /\ rows[UserId(subject[a])] = NoUser
           \/ SaveChange(a) \/ AnonymiseUser(a)
    PROVE  FlushesUser(a)
<1>1. TablesTyped /\ LocalsTyped /\ InOrder(a)
  BY TypeParts DEF IInv
<1> DEFINE k == UserId(subject[a])
<1>2. /\ pc[a] \in {"insert", "change"} => a \in Webs /\ subject[a] \in Users
      /\ pc[a] = "anonymise" => a \in Pollers /\ subject[a] \in Users /\ want[a] = ErasedUser
  BY <1>1 DEF InOrder, WorksOnUser, Processes, OfUser, Erasing
<1>3. pc[a] \in {"insert", "change", "anonymise"} => k \in RowIds
  BY <1>2, IdsDiffer
<1> USE DEF OthersKeep, OthersStay, Keeps, local, env, counts, Goto, MayWrite
<1>4. CASE InsertUser(a) /\ rows[k] = NoUser
  <2>1. Writes(a, k, work'[k])
    BY <1>1, <1>3, <1>4, WriteKinds DEF InsertUser
  <2> QED
    BY <1>1, <1>2, <1>4, <2>1 DEF InsertUser, FlushesUser, LocalsTyped
<1>5. CASE SaveChange(a)
  <2>1. Writes(a, k, work'[k])
    BY <1>1, <1>3, <1>5, WriteKinds DEF SaveChange
  <2> QED
    BY <1>1, <1>2, <1>5, <2>1 DEF SaveChange, FlushesUser, LocalsTyped
<1>6. CASE AnonymiseUser(a)
  <2>1. /\ Writes(a, k, work'[k])
        /\ work'[k] = Merge(work[k], seen[a], ErasedUser)
    BY <1>1, <1>2, <1>3, <1>6, WriteKinds DEF AnonymiseUser
  <2>2. work'[k].password = "unusable" /\ (work[k] = ErasedUser => work'[k] = ErasedUser)
    BY <2>1 DEF Merge, ErasedUser
  <2> QED
    BY <1>1, <1>2, <1>6, <2>1, <2>2 DEF AnonymiseUser, FlushesUser, LocalsTyped
<1> QED
  BY <1>4, <1>5, <1>6

\* A request is filed, taken up or answered.
LEMMA RequestKinds ==
    ASSUME IInv, NEW a \in Tasks,
           FileErasure(a) \/ ProcessOne(a) \/ CompleteErasure(a) \/ EraserRaises(a)
    PROVE  FlushesRequest(a)
<1>1. TablesTyped /\ LocalsTyped /\ Unfiled /\ Registered /\ Owned /\ InOrder(a)
  BY TypeParts DEF IInv
<1>2. \A e \in Erasures : ErasureId(e) \in RowIds
  BY IdsDiffer
<1>3. CASE FileErasure(a)
  <2> DEFINE e == filed + 1
  <2>1. /\ a \in Webs /\ pc[a] = "file" /\ pc'[a] = "commit" /\ e \in Erasures /\ filed' = e
        /\ WriteRow(a, ErasureId(e), [subject |-> subject[a], status |-> "pending"])
        /\ OthersKeep(a) /\ Keeps(a) /\ stored' = stored
    BY <1>1, <1>3, BoundsAssumption
    DEF FileErasure, Goto, LocalsTyped, InOrder, WorksOnUser, OfUser, Erasures, OthersKeep,
        OthersStay, Keeps, env, local
  <2>2. /\ Writes(a, ErasureId(e), work'[ErasureId(e)])
        /\ work'[ErasureId(e)] = [subject |-> subject[a], status |-> "pending"]
    BY <1>1, <1>2, <2>1, WriteKinds
  <2> QED
    BY <2>1, <2>2 DEF FlushesRequest, Keeps
<1>4. CASE ProcessOne(a)
  <2>1. PICK e \in todo[a] :
          /\ subject' = [subject EXCEPT ![a] = rows[ErasureId(e)].subject]
          /\ todo' = [todo EXCEPT ![a] = @ \ {e}]
          /\ cur' = [cur EXCEPT ![a] = e]
          /\ SaveStatus(a, e, "processing")
    BY <1>4 DEF ProcessOne
  <2> DEFINE r == [subject |-> rows[ErasureId(e)].subject, status |-> "processing"]
  <2>2. /\ a \in Pollers /\ pc[a] = "next" /\ pc'[a] = "privacy" /\ e \in Erasures
        /\ lock[ErasureId(e)] = None /\ UNCHANGED <<tokens, filed, stored>>
        /\ OthersKeep(a) /\ known'[a] = known[a] /\ subject'[a] = rows[ErasureId(e)].subject
    BY <1>1, <1>4, <2>1
    DEF ProcessOne, Goto, LocalsTyped, InOrder, Polls, OthersKeep, OthersStay, env, counts
  <2>3. WriteRow(a, ErasureId(e), r)
    BY <1>1, <2>1, <2>2, StatusSaved, NoTaskIsNone DEF TablesTyped, SaveStatus, Visible, Status
  <2>4. Writes(a, ErasureId(e), work'[ErasureId(e)]) /\ work'[ErasureId(e)] = r
    BY <1>1, <1>2, <2>2, <2>3, WriteKinds
  <2> QED
    BY <2>2, <2>4 DEF FlushesRequest
<1>5. CASE CompleteErasure(a) \/ EraserRaises(a)
  <2> DEFINE e == cur[a]
             s == IF pc[a] = "close" THEN "completed" ELSE "failed"
             r == [subject |-> subject[a], status |-> s]
  <2>1. /\ pc[a] \in Erasing /\ SaveStatus(a, e, s) /\ NextRequest(a)
        /\ UNCHANGED <<env, filed, stored, changes>>
    BY <1>5 DEF CompleteErasure, EraserRaises, Erasing, counts
  <2>2. /\ a \in Pollers /\ e \in Erasures /\ lock[ErasureId(e)] = a
        /\ work[ErasureId(e)] = [subject |-> subject[a], status |-> "processing"]
    BY <1>1, <2>1 DEF InOrder, Processes
  <2>3. WriteRow(a, ErasureId(e), r)
    <3>1. work[ErasureId(e)] \in ErasureRow /\ s \in Status
      BY <1>1, <2>2 DEF TablesTyped, Status
    <3>2. [work[ErasureId(e)] EXCEPT !.status = s] = r
      BY <2>2, <3>1, StatusSaved
    <3> QED
      BY <2>1, <2>2, <3>2 DEF SaveStatus, Visible
  <2>4. Writes(a, ErasureId(e), work'[ErasureId(e)]) /\ work'[ErasureId(e)] = r
    BY <1>1, <1>2, <2>2, <2>3, WriteKinds
  <2>5. /\ OthersKeep(a) /\ pc'[a] = "next" /\ subject'[a] = None /\ known'[a] = known[a]
        /\ UNCHANGED <<tokens, filed, stored>>
    BY <1>1, <2>1 DEF NextRequest, Goto, LocalsTyped, OthersKeep, OthersStay, env
  <2>6. /\ r.subject = subject[a]
        /\ (pc[a] = "close" /\ r.status = "completed") \/ r.status = "failed"
    OBVIOUS
  <2>7. pc[a] \in Erasing
    BY <2>1
  <2> HIDE DEF r, s
  <2> QED
    BY <2>2, <2>4, <2>5, <2>6, <2>7 DEF FlushesRequest
<1> QED
  BY <1>3, <1>4, <1>5

\* An item is left behind.
LEMMA ItemKinds ==
    ASSUME IInv, NEW a \in Tasks, NEW u \in Users, NEW kind \in {"token", "invitation", "export"},
           LeaveItem(a, u, kind)
    PROVE  Leaves(a)
<1>1. TablesTyped /\ LocalsTyped
  BY TypeParts DEF IInv
<1> DEFINE i == stored + 1
           r == [subject |-> u, kind |-> kind]
<1>2. /\ a \in Webs /\ pc[a] = "idle" /\ pc'[a] = "commit" /\ UNCHANGED <<tokens, filed>>
      /\ i \in Items /\ stored' = i /\ OthersKeep(a) /\ known'[a] = known[a]
      /\ WriteRow(a, ItemId(i), r)
      /\ subject'[a] = IF kind = "invitation" THEN None ELSE u
      /\ kind = "token" => FoundByEmail(u)
      /\ kind = "export" => u \in tokens
  BY <1>1, BoundsAssumption
  DEF LeaveItem, Goto, LocalsTyped, Items, OthersKeep, OthersStay, env, IsAuthenticated
<1>3. Writes(a, ItemId(i), work'[ItemId(i)]) /\ work'[ItemId(i)] = r
  BY <1>1, <1>2, IdsDiffer, WriteKinds
<1>4. r.subject = u /\ r.kind = kind
  OBVIOUS
<1> HIDE DEF r
<1> QED
  BY <1>2, <1>3, <1>4 DEF Leaves

\* What DeleteItems leaves of the items.
LEMMA DeleteKinds ==
    ASSUME TablesTyped, NEW a \in Tasks, NEW kind \in {"export", "invitation", "token"},
           DeleteItems(a, subject[a], kind)
    PROVE  /\ \A i \in Items :
                 \/ /\ lock'[ItemId(i)] = a /\ work'[ItemId(i)] = AbsentItem
                    /\ Visible(a, ItemId(i)) # AbsentItem
                 \/ lock'[ItemId(i)] = lock[ItemId(i)] /\ work'[ItemId(i)] = work[ItemId(i)]
           /\ DeletesAll(a, kind)
<1> DEFINE gone == {k \in RowIds : k[1] = "item"
                       /\ Visible(a, k) = [subject |-> subject[a], kind |-> kind]}
<1>1. /\ work' = [k \in RowIds |-> IF k \in gone THEN AbsentItem ELSE work[k]]
      /\ lock' = [k \in RowIds |-> IF k \in gone THEN a ELSE lock[k]]
  BY DEF DeleteItems
<1>2. \A i \in Items : ItemId(i) \in RowIds /\ ItemId(i)[1] = "item"
  BY IdsDiffer
<1>3. \A i \in Items : Visible(a, ItemId(i)) = [subject |-> subject[a], kind |-> kind]
                          <=> ItemId(i) \in gone
  BY <1>2
<1>4. [subject |-> subject[a], kind |-> kind] # AbsentItem
  BY DEF AbsentItem
<1> HIDE DEF gone
<1> QED
  BY <1>1, <1>2, <1>3, <1>4 DEF DeletesAll

\* The erasers that delete.
LEMMA EraserKinds ==
    ASSUME IInv, NEW a \in Tasks, ErasePrivacy(a) \/ EraseInvitations(a) \/ DeleteTokens(a)
    PROVE  Deletes(a)
<1>1. TablesTyped /\ LocalsTyped /\ InOrder(a)
  BY TypeParts DEF IInv
<1>2. /\ a \in Pollers /\ subject[a] \in Users
      /\ UNCHANGED <<filed, stored>> /\ OthersKeep(a) /\ Keeps(a)
  BY <1>1
  DEF ErasePrivacy, EraseInvitations, DeleteTokens, Goto, LocalsTyped, InOrder, Processes, Erasing,
      OthersKeep, OthersStay, Keeps, counts, env, local
<1>3. CASE ErasePrivacy(a)
  <2>1. pc[a] = "privacy" /\ pc'[a] = "organizations" /\ DeleteItems(a, subject[a], "export")
    BY <1>1, <1>3 DEF ErasePrivacy, Goto, LocalsTyped
  <2> QED
    BY <1>1, <1>2, <2>1, DeletedItems, DeleteKinds DEF Deletes
<1>4. CASE EraseInvitations(a)
  <2>1. pc[a] = "organizations" /\ pc'[a] = "tokens"
    BY <1>1, <1>4 DEF EraseInvitations, Goto, LocalsTyped
  <2>2. CASE Visible(a, UserId(subject[a])).email = "own"
    <3>1. DeleteItems(a, subject[a], "invitation")
      BY <1>4, <2>2 DEF EraseInvitations
    <3> QED
      BY <1>1, <1>2, <2>1, <3>1, DeletedItems, DeleteKinds DEF Deletes
  <2>3. CASE Visible(a, UserId(subject[a])).email # "own"
    <3>1. UNCHANGED tables
      BY <1>4, <2>3 DEF EraseInvitations
    <3> QED
      BY <1>2, <2>1, <2>3, <3>1 DEF Deletes, ItemsOnly, tables
  <2> QED
    BY <2>2, <2>3
<1>5. CASE DeleteTokens(a)
  <2>1. pc[a] = "tokens" /\ pc'[a] = "user" /\ DeleteItems(a, subject[a], "token")
    BY <1>1, <1>5 DEF DeleteTokens, Goto, LocalsTyped
  <2> QED
    BY <1>1, <1>2, <2>1, DeletedItems, DeleteKinds DEF Deletes
<1> QED
  BY <1>3, <1>4, <1>5

\* Who is handed a lock has waited for the row.
LEMMA HandedOn ==
    ASSUME TablesTyped, NEW a \in Tasks, ReleaseLocks(Waits, a)
    PROVE  \A k \in RowIds : lock[k] = a =>
              lock'[k] # a /\ (lock'[k] # None => lock'[k] \in Tasks /\ Waits[lock'[k]] = k)
<1> DEFINE wanted == {k \in RowIds : lock[k] = a /\ Waiters(Waits, k) # {}}
<1>1. PICK heir \in [wanted -> Tasks] :
         /\ \A k \in wanted : heir[k] \in Waiters(Waits, k)
         /\ lock' = [k \in RowIds |-> IF lock[k] # a THEN lock[k]
                                      ELSE IF k \in wanted THEN heir[k] ELSE None]
  BY DEF ReleaseLocks
<1>2. \A k \in wanted : heir[k] \in Tasks /\ heir[k] # a /\ Waits[heir[k]] = k
  BY <1>1 DEF Waiters
<1> HIDE DEF wanted
<1> QED
  BY <1>1, <1>2, NoTaskIsNone

\* A commit, or a refusal or fault.
LEMMA EndKinds ==
    ASSUME IInv, NEW a \in Tasks, UNCHANGED <<tokens, filed, stored>>, EndTask(a),
           \/ (pc[a] = "commit" \/ (pc[a] = "next" /\ todo[a] = {})) /\ CommitRows(Waits, a)
           \/ RollbackRows(Waits, a)
    PROVE  Ends(a)
<1>1. TablesTyped /\ LocalsTyped
  BY TypeParts DEF IInv
<1>2. /\ OthersKeep(a) /\ pc'[a] = "idle" /\ subject'[a] = None /\ known'[a] = {}
  BY <1>1 DEF EndTask, Goto, OthersKeep, OthersStay, LocalsTyped
<1>3. \A k \in RowIds : lock[k] = a =>
        lock'[k] # a /\ (lock'[k] # None => lock'[k] \in Tasks /\ Waits[lock'[k]] = k)
  BY <1>1, HandedOn DEF CommitRows, RollbackRows
<1>4. CASE RollbackRows(Waits, a)
  BY <1>1, <1>2, <1>3, <1>4, RolledBack DEF Ends
<1>5. CASE (pc[a] = "commit" \/ (pc[a] = "next" /\ todo[a] = {})) /\ CommitRows(Waits, a)
  BY <1>1, <1>2, <1>3, <1>5, Committed DEF Ends
<1> QED
  BY <1>4, <1>5

\* Every step is of the world, or of a task and of one of the six kinds.
LEMMA StepKinds ==
    ASSUME IInv, [Next]_vars
    PROVE  (\E a \in Tasks : Moves(a)) \/ Passes
<1> USE DEF Moves
<1>1. CASE \E a \in Tasks : Step(a) \/ StartPoll(a) \/ EraserRaises(a) \/ Abort(a)
  <2>1. PICK a \in Tasks : Step(a) \/ StartPoll(a) \/ EraserRaises(a) \/ Abort(a)
    BY <1>1
  <2>2. CASE InsertUser(a)
    <3>1. CASE rows[UserId(subject[a])] = NoUser
      BY <2>2, <3>1, UserKinds
    <3>2. CASE rows[UserId(subject[a])] # NoUser
      BY <2>2, <3>2, EndKinds DEF InsertUser, env, counts
    <3> QED
      BY <3>1, <3>2
  <2>3. CASE IssueToken(a) \/ RereadUser(a) \/ ReadUser(a) \/ StartPoll(a)
    BY <2>3, QuietKinds
  <2>4. CASE SaveChange(a) \/ AnonymiseUser(a)
    BY <2>4, UserKinds
  <2>5. CASE FileErasure(a) \/ ProcessOne(a) \/ CompleteErasure(a) \/ EraserRaises(a)
    BY <2>5, RequestKinds
  <2>6. CASE ErasePrivacy(a) \/ EraseInvitations(a) \/ DeleteTokens(a)
    BY <2>6, EraserKinds
  <2>7. CASE Commit(a) \/ Abort(a)
    BY <2>7, EndKinds DEF Commit, Abort, env, counts
  <2> QED
    BY <2>1, <2>2, <2>3, <2>4, <2>5, <2>6, <2>7 DEF Step
<1>2. CASE \E a \in Pollers : StopWorker(a)
  BY <1>2, EndKinds, TasksAssumption DEF StopWorker
<1>3. CASE \E a \in Pollers : StartWorker(a)
  BY <1>3 DEF StartWorker, Passes, tables, counts, local
<1>4. CASE \E u \in Users : Expire(u)
  BY <1>4 DEF Expire, Passes, tables, counts, local
<1>5. CASE \E a \in Tasks, u \in Users :
             Register(a, u) \/ Login(a, u) \/ RequestErasure(a, u) \/ ChangePassword(a, u)
  BY <1>5, QuietKinds
<1>6. CASE \E a \in Tasks, u \in Users, kind \in {"token", "invitation", "export"} :
             LeaveItem(a, u, kind)
  BY <1>6, ItemKinds
<1>7. CASE UNCHANGED vars
  BY <1>7 DEF vars, Passes, tables, env, counts, local
<1> QED
  BY <1>1, <1>2, <1>3, <1>4, <1>5, <1>6, <1>7 DEF Next
-------------------------------------------------------------------------------
(* Who holds the locks.                                                      *)

\* Who waits for a row is about to write the row of its user.
LEMMA Waiting ==
    ASSUME NEW b \in Tasks, NEW k \in RowIds, Waits[b] = k
    PROVE  k = UserId(subject[b]) /\ pc[b] \in {"insert", "anonymise", "change"}
  BY NoneAssumption DEF Waits

\* The others hold what they held, and what they have waited for.
LEMMA OthersHold ==
    ASSUME IInv, Holding, NEW a \in Tasks, OthersStay(a),
           \A k \in RowIds, b \in Tasks \ {a} : lock'[k] = b =>
               \/ lock[k] = b /\ work'[k] = work[k] /\ rows'[k] = rows[k]
               \/ rows'[k] = work'[k] /\ Waits[b] = k,
           \A u \in Users, b \in Tasks \ {a} : lock[UserId(u)] = b =>
               lock'[UserId(u)] = b /\ work'[UserId(u)] = work[UserId(u)]
    PROVE  /\ \A b \in Webs \ {a} : RequestHolds(b)'
           /\ \A b \in Pollers \ {a} : PollHolds(b)'
<1>1. \A u \in Users : UserId(u) \in RowIds
  BY IdsDiffer
<1>2. \A b \in Tasks \ {a}, e \in Erasures : lock'[ErasureId(e)] = b =>
        /\ lock[ErasureId(e)] = b /\ work'[ErasureId(e)] = work[ErasureId(e)]
        /\ rows'[ErasureId(e)] = rows[ErasureId(e)]
  BY IdsDiffer, Waiting
<1>3. \A b \in Tasks \ {a}, i \in Items : lock'[ItemId(i)] = b =>
        lock[ItemId(i)] = b /\ work'[ItemId(i)] = work[ItemId(i)]
  BY IdsDiffer, Waiting
<1>4. ASSUME NEW b \in Webs \ {a} PROVE RequestHolds(b)'
  <2>1. RequestHolds(b) /\ b \in Tasks /\ InOrder(b) /\ b \notin Pollers
    BY TasksAssumption DEF Holding, IInv
  <2>2. pc[b] # "anonymise"
    BY <2>1 DEF InOrder, Processes, Erasing
  <2>3. ASSUME NEW u \in Users, lock'[UserId(u)] = b
        PROVE  subject[b] = u /\ pc[b] \in {"insert", "change", "commit"}
    <3>1. CASE lock[UserId(u)] = b
      BY <2>1, <3>1 DEF RequestHolds
    <3>2. CASE Waits[b] = UserId(u)
      BY <1>1, <2>1, <2>2, <3>2, Waiting, IdsDiffer
    <3> QED
      BY <1>1, <2>1, <2>3, <3>1, <3>2
  <2> QED
    BY <1>2, <1>3, <2>1, <2>3 DEF RequestHolds, OthersStay
<1>5. ASSUME NEW b \in Pollers \ {a} PROVE PollHolds(b)'
  <2>1. PollHolds(b) /\ b \in Tasks
    BY TasksAssumption DEF Holding
  <2>2. ASSUME NEW u \in Users, lock'[UserId(u)] = b, rows'[UserId(u)] = ErasedUser
        PROVE  work'[UserId(u)] = ErasedUser
    BY <1>1, <2>1, <2>2 DEF PollHolds
  <2>3. ASSUME NEW u \in Users, Erases(b, u)'
        PROVE  lock'[UserId(u)] = b /\ work'[UserId(u)].password = "unusable"
    <3>1. Erases(b, u)
      BY <1>2, <2>1, <2>3 DEF Erases, OthersStay
    <3> QED
      BY <2>1, <3>1 DEF PollHolds
  <2> QED
    BY <1>2, <1>3, <2>1, <2>2, <2>3 DEF PollHolds
<1> QED
  BY <1>4, <1>5

\* A step that writes nothing.
LEMMA HoldingQuiet ==
    ASSUME IInv, Holding, NEW a \in Tasks, Quiet(a)
    PROVE  Holding'
<1>1. UNCHANGED <<rows, work, lock, stored>> /\ OthersStay(a) /\ pc[a] # "commit"
      /\ pc'[a] # "close"
  BY DEF Quiet, OthersKeep
<1>2. /\ \A b \in Webs \ {a} : RequestHolds(b)'
      /\ \A b \in Pollers \ {a} : PollHolds(b)'
  BY <1>1, OthersHold
<1>3. a \in Webs => RequestHolds(a)'
  <2>1. a \in Webs => pc[a] \notin {"insert", "change", "commit"}
    BY TasksAssumption DEF Quiet
  <2> QED
    BY <1>1, <2>1 DEF Holding, RequestHolds
<1>4. a \in Pollers => PollHolds(a)'
  BY <1>1 DEF Holding, PollHolds, Erases
<1> QED
  BY <1>1, <1>2, <1>3, <1>4 DEF Holding, Stored

\* The flush of one row takes nothing from the others.
LEMMA OthersUntouched ==
    ASSUME IInv, Holding, NEW a \in Tasks, NEW k \in RowIds, OthersStay(a),
           Writes(a, k, work'[k]), lock[k] \in {None, a}
    PROVE  /\ \A b \in Webs \ {a} : RequestHolds(b)'
           /\ \A b \in Pollers \ {a} : PollHolds(b)'
<1>1. \A b \in Tasks \ {a}, j \in RowIds : lock'[j] = b =>
        lock[j] = b /\ work'[j] = work[j] /\ rows'[j] = rows[j]
  BY DEF Writes
<1>2. \A b \in Tasks \ {a}, u \in Users : lock[UserId(u)] = b =>
        lock'[UserId(u)] = b /\ work'[UserId(u)] = work[UserId(u)]
  BY IdsDiffer, NoTaskIsNone DEF Writes
<1> QED
  BY <1>1, <1>2, OthersHold

\* The flush of a user row.
LEMMA HoldingUser ==
    ASSUME IInv, Holding, NEW a \in Tasks, FlushesUser(a)
    PROVE  Holding'
<1> DEFINE v == subject[a]
           k == UserId(v)
<1>1. /\ UNCHANGED <<stored, rows>> /\ OthersStay(a) /\ subject'[a] = v /\ v \in Users
      /\ lock[k] \in {None, a} /\ Writes(a, k, work'[k]) /\ lock'[k] = a /\ k \in RowIds
  BY IdsDiffer DEF FlushesUser, OthersKeep, Keeps, Writes
<1>2. /\ \A u \in Users \ {v} : /\ work'[UserId(u)] = work[UserId(u)]
                                /\ lock'[UserId(u)] = lock[UserId(u)]
      /\ \A e \in Erasures : /\ work'[ErasureId(e)] = work[ErasureId(e)]
                             /\ lock'[ErasureId(e)] = lock[ErasureId(e)]
      /\ \A i \in Items : /\ work'[ItemId(i)] = work[ItemId(i)]
                          /\ lock'[ItemId(i)] = lock[ItemId(i)]
  BY <1>1, IdsDiffer DEF Writes
<1>3. /\ \A b \in Webs \ {a} : RequestHolds(b)'
      /\ \A b \in Pollers \ {a} : PollHolds(b)'
  BY <1>1, OthersUntouched
<1>4. a \in Webs => RequestHolds(a)'
  <2>1. a \in Webs => pc[a] # "commit" /\ pc'[a] = "commit"
    BY TasksAssumption DEF FlushesUser
  <2> QED
    BY <1>1, <1>2, <2>1 DEF Holding, RequestHolds
<1>5. a \in Pollers => PollHolds(a)'
  <2> SUFFICES ASSUME a \in Pollers PROVE PollHolds(a)'
    OBVIOUS
  <2>1. /\ PollHolds(a) /\ pc[a] = "anonymise" /\ work'[k].password = "unusable"
        /\ work[k] = ErasedUser => work'[k] = ErasedUser
    BY TasksAssumption DEF FlushesUser, Holding
  <2>2. rows[k] = ErasedUser => work'[k] = ErasedUser
    BY <1>1, <2>1 DEF Holding, PollHolds
  <2>3. \A u \in Users \ {v} : Erases(a, u)' => Erases(a, u)
    BY <1>1, <1>2 DEF Erases
  <2> QED
    BY <1>1, <1>2, <2>1, <2>2, <2>3 DEF PollHolds
<1>6. \A u \in Users : lock'[UserId(u)] = None => work'[UserId(u)] = rows'[UserId(u)]
  BY <1>1, <1>2, NoTaskIsNone DEF Holding
<1> QED
  BY <1>1, <1>2, <1>3, <1>4, <1>5, <1>6 DEF Holding, Stored

\* The flush of a request.
LEMMA HoldingRequest ==
    ASSUME IInv, Holding, NEW a \in Tasks, FlushesRequest(a)
    PROVE  Holding'
<1> USE DEF OthersKeep
<1>1. OthersStay(a) /\ stored' = stored /\ a \in Webs \cup Pollers /\ a \notin Webs \cap Pollers
  BY TasksAssumption DEF FlushesRequest
<1>2. PICK e \in Erasures :
        LET r == rows[ErasureId(e)]
            w == work'[ErasureId(e)]
        IN  /\ Writes(a, ErasureId(e), w)
            /\ \/ /\ a \in Webs /\ pc[a] = "file" /\ pc'[a] = "commit" /\ subject'[a] = subject[a]
                  /\ e = filed + 1 /\ w = [subject |-> subject[a], status |-> "pending"]
               \/ /\ a \in Pollers /\ pc[a] = "next" /\ pc'[a] = "privacy"
                  /\ lock[ErasureId(e)] = None
                  /\ w = [subject |-> r.subject, status |-> "processing"]
               \/ /\ a \in Pollers /\ pc[a] \in Erasing /\ pc'[a] = "next"
                  /\ e = cur[a] /\ w.subject = subject[a]
                  /\ (pc[a] = "close" /\ w.status = "completed") \/ w.status = "failed"
  BY DEF FlushesRequest
<1> DEFINE k == ErasureId(e)
<1>3. k \in RowIds /\ Writes(a, k, work'[k]) /\ rows' = rows /\ lock'[k] = a
  BY <1>2, IdsDiffer DEF Writes
<1>4. /\ \A u \in Users : /\ work'[UserId(u)] = work[UserId(u)]
                          /\ lock'[UserId(u)] = lock[UserId(u)]
      /\ \A g \in Erasures \ {e} : /\ work'[ErasureId(g)] = work[ErasureId(g)]
                                   /\ lock'[ErasureId(g)] = lock[ErasureId(g)]
      /\ \A i \in Items : /\ work'[ItemId(i)] = work[ItemId(i)]
                          /\ lock'[ItemId(i)] = lock[ItemId(i)]
  BY <1>3, IdsDiffer DEF Writes
<1>5. InOrder(a) /\ Unfiled /\ filed \in Nat
  BY DEF IInv, TypeOK
<1>6. lock[k] \in {None, a}
  <2>1. e = filed + 1 => lock[k] = None
    BY <1>5 DEF Unfiled
  <2>2. pc[a] \in Erasing /\ e = cur[a] => lock[k] = a
    BY <1>5 DEF InOrder, Processes
  <2> QED
    BY <1>2, <2>1, <2>2
<1>7. /\ \A b \in Webs \ {a} : RequestHolds(b)'
      /\ \A b \in Pollers \ {a} : PollHolds(b)'
  BY <1>1, <1>3, <1>6, OthersUntouched
<1>8. a \in Webs => RequestHolds(a)'
  <2> SUFFICES ASSUME a \in Webs PROVE RequestHolds(a)'
    OBVIOUS
  <2>1. pc[a] = "file" /\ pc'[a] = "commit" /\ subject'[a] = subject[a]
        /\ work'[k].subject = subject[a]
    BY <1>1, <1>2
  <2> QED
    BY <1>4, <2>1 DEF Holding, RequestHolds
<1>9. a \in Pollers => PollHolds(a)'
  <2> SUFFICES ASSUME a \in Pollers PROVE PollHolds(a)'
    OBVIOUS
  <2>1. PollHolds(a) /\ pc'[a] # "close"
    BY <1>1, <1>2 DEF Holding
  <2>2. pc[a] \in Erasing /\ e = cur[a] => subject[a] = rows[k].subject
    BY <1>5, <2>1 DEF InOrder, Processes, PollHolds
  <2>3. work'[k].subject = rows[k].subject /\ work'[k].status # "pending"
    BY <1>1, <1>2, <2>2
  <2>4. work'[k].status = "completed" => pc[a] = "close" /\ work'[k].subject = subject[a]
    BY <1>1, <1>2
  <2>5. \A u \in Users : Erases(a, u)' => Erases(a, u)
    <3> SUFFICES ASSUME NEW u \in Users, NEW g \in Erasures, lock'[ErasureId(g)] = a,
                        work'[ErasureId(g)] = [subject |-> u, status |-> "completed"]
                 PROVE  Erases(a, u)
      BY <2>1 DEF Erases
    <3> QED
      BY <1>4, <2>4 DEF Erases
  <2> QED
    BY <1>3, <1>4, <2>1, <2>3, <2>5 DEF PollHolds
<1> QED
  BY <1>1, <1>3, <1>4, <1>7, <1>8, <1>9 DEF Holding, Stored

\* The insert of an item.
LEMMA HoldingItem ==
    ASSUME IInv, Holding, NEW a \in Tasks, Leaves(a)
    PROVE  Holding'
<1> DEFINE n == stored + 1
           k == ItemId(n)
<1>1. /\ OthersStay(a) /\ a \in Webs /\ a \notin Pollers /\ pc[a] = "idle" /\ pc'[a] = "commit"
      /\ n \in Items /\ stored' = n /\ stored \in Nat
      /\ Writes(a, k, work'[k]) /\ rows' = rows /\ lock'[k] = a /\ k \in RowIds
      /\ work'[k].kind = "invitation" \/ work'[k].subject = subject'[a]
  BY IdsDiffer, TasksAssumption DEF Leaves, OthersKeep, Writes, IInv, TypeOK
<1>2. \A i \in Items : ItemId(i) \in RowIds /\ (ItemId(i) = k => i = n)
  <2>1. \A i \in Items : ItemId(i)[2] = i
    BY DEF ItemId
  <2>2. k[2] = n
    BY DEF ItemId
  <2> QED
    BY <2>1, <2>2, IdsDiffer
<1>3. /\ \A u \in Users : /\ work'[UserId(u)] = work[UserId(u)]
                          /\ lock'[UserId(u)] = lock[UserId(u)]
      /\ \A e \in Erasures : /\ work'[ErasureId(e)] = work[ErasureId(e)]
                             /\ lock'[ErasureId(e)] = lock[ErasureId(e)]
      /\ \A i \in Items \ {n} : /\ work'[ItemId(i)] = work[ItemId(i)]
                                /\ lock'[ItemId(i)] = lock[ItemId(i)]
  BY <1>1, <1>2, IdsDiffer DEF Writes
<1>4. lock[k] = None /\ rows[k] = AbsentItem
  BY <1>1 DEF Holding, Stored
<1>5. /\ \A b \in Webs \ {a} : RequestHolds(b)'
      /\ \A b \in Pollers \ {a} : PollHolds(b)'
  BY <1>1, <1>4, OthersUntouched
<1>6. RequestHolds(a)'
  BY <1>1, <1>3 DEF Holding, RequestHolds
<1>7. Stored'
  <2> HIDE DEF k
  <2>1. \A i \in Items \ {n} : i > n => i > stored
    BY <1>1 DEF Items
  <2>2. ~(n > n)
    BY <1>1
  <2> QED
    BY <1>1, <1>3, <1>4, <2>1, <2>2 DEF Holding, Stored, k
<1> QED
  BY <1>1, <1>3, <1>5, <1>6, <1>7 DEF Holding

\* The poll deletes items.
LEMMA HoldingDelete ==
    ASSUME IInv, Holding, NEW a \in Tasks, Deletes(a)
    PROVE  Holding'
<1>1. /\ OthersStay(a) /\ a \in Pollers /\ a \notin Webs /\ ItemsOnly /\ stored' = stored
      /\ pc'[a] # "close"
  BY TasksAssumption DEF Deletes, OthersKeep
<1>2. \A i \in Items :
        \/ /\ lock'[ItemId(i)] = a /\ work'[ItemId(i)] = AbsentItem
           /\ Visible(a, ItemId(i)) # AbsentItem
        \/ lock'[ItemId(i)] = lock[ItemId(i)] /\ work'[ItemId(i)] = work[ItemId(i)]
  BY DEF Deletes
<1>3. \A k \in RowIds, b \in Tasks \ {a} : lock'[k] = b =>
        lock[k] = b /\ work'[k] = work[k] /\ rows'[k] = rows[k]
  BY <1>1, <1>2, RowIdsAssumption DEF ItemsOnly
<1>4. /\ \A b \in Webs \ {a} : RequestHolds(b)'
      /\ \A b \in Pollers \ {a} : PollHolds(b)'
  BY <1>1, <1>3, OthersHold DEF ItemsOnly
<1>5. PollHolds(a)'
  BY <1>1, <1>2 DEF Holding, PollHolds, Erases, ItemsOnly
<1>6. Stored'
  BY <1>1, <1>2, NoTaskIsNone DEF Holding, Stored, ItemsOnly, Visible
<1> QED
  BY <1>1, <1>4, <1>5, <1>6 DEF Holding, ItemsOnly

\* The end of a transaction.
LEMMA HoldingEnd ==
    ASSUME IInv, Holding, NEW a \in Tasks, Ends(a)
    PROVE  Holding'
<1>1. /\ OthersStay(a) /\ stored' = stored /\ pc'[a] = "idle"
      /\ \A k \in RowIds : lock[k] # a =>
            rows'[k] = rows[k] /\ work'[k] = work[k] /\ lock'[k] = lock[k]
      /\ \A k \in RowIds : lock[k] = a =>
            /\ rows'[k] = work'[k] /\ lock'[k] # a
            /\ lock'[k] # None => lock'[k] \in Tasks /\ Waits[lock'[k]] = k
  BY DEF Ends, OthersKeep
<1>2. /\ \A u \in Users : UserId(u) \in RowIds
      /\ \A e \in Erasures : ErasureId(e) \in RowIds
      /\ \A i \in Items : ItemId(i) \in RowIds
  BY IdsDiffer
<1>3. \A k \in RowIds : lock'[k] # a
  BY <1>1
<1>4. /\ \A b \in Webs \ {a} : RequestHolds(b)'
      /\ \A b \in Pollers \ {a} : PollHolds(b)'
  <2>1. \A k \in RowIds, b \in Tasks \ {a} : lock'[k] = b =>
          \/ lock[k] = b /\ work'[k] = work[k] /\ rows'[k] = rows[k]
          \/ rows'[k] = work'[k] /\ Waits[b] = k
    BY <1>1, NoTaskIsNone
  <2> QED
    BY <1>1, <1>2, <2>1, OthersHold
<1>5. RequestHolds(a)' /\ PollHolds(a)'
  BY <1>1, <1>2, <1>3 DEF RequestHolds, PollHolds, Erases
<1>6. \A i \in Items : lock[ItemId(i)] = a => lock'[ItemId(i)] = None
  BY <1>1, <1>2, Waiting, IdsDiffer
<1>7. Stored'
  BY <1>1, <1>2, <1>6, NoTaskIsNone, TasksAssumption DEF Holding, Stored
<1>8. \A u \in Users : lock'[UserId(u)] = None => work'[UserId(u)] = rows'[UserId(u)]
  BY <1>1, <1>2 DEF Holding
<1> QED
  BY <1>4, <1>5, <1>7, <1>8 DEF Holding

\* Nobody holds anything.
LEMMA HoldingInit == Init => Holding
<1> SUFFICES ASSUME Init PROVE Holding
  OBVIOUS
<1>1. /\ \A k \in RowIds : lock[k] = None
      /\ \A i \in Items : rows[ItemId(i)] = AbsentItem
      /\ work = rows /\ \A a \in Tasks : pc[a] = "idle"
  BY IdsDiffer DEF Init
<1> QED
  BY <1>1, IdsDiffer, NoTaskIsNone, TasksAssumption
  DEF Holding, Stored, RequestHolds, PollHolds, Erases

\* The locks stay with who may hold them.
LEMMA HoldingNext == IInv /\ Holding /\ [Next]_vars => Holding'
<1> SUFFICES ASSUME IInv, Holding, [Next]_vars PROVE Holding'
  OBVIOUS
<1>1. CASE \E a \in Tasks : Moves(a)
  BY <1>1, HoldingQuiet, HoldingUser, HoldingRequest, HoldingItem, HoldingDelete, HoldingEnd
  DEF Moves
<1>2. CASE Passes
  BY <1>2 DEF Passes, Holding, Stored, RequestHolds, PollHolds, Erases
<1> QED
  BY <1>1, <1>2, StepKinds

\* Both hold throughout.
LEMMA Held == Spec => [](IInv /\ Holding)
<1>1. Init => IInv /\ Holding
  BY InvInit, HoldingInit
<1>2. (IInv /\ Holding) /\ [Next]_vars => (IInv /\ Holding)'
  BY InvNext, HoldingNext
<1> QED
  BY <1>1, <1>2, PTL DEF Spec
-------------------------------------------------------------------------------
(* The account.                                                              *)

\* A row changes only with the commit of the task that has the lock on it.
LEMMA Commits ==
    ASSUME IInv, [Next]_vars, NEW k \in RowIds, rows'[k] # rows[k]
    PROVE  \E a \in Tasks : Ends(a) /\ lock[k] = a /\ \A j \in RowIds : lock[j] = a =>
              rows'[j] = work[j]
<1>1. PICK a \in Tasks : Moves(a)
  BY StepKinds DEF Passes
<1>2. CASE Ends(a)
  BY <1>2 DEF Ends
<1>3. CASE Quiet(a) \/ FlushesUser(a) \/ FlushesRequest(a) \/ Leaves(a) \/ Deletes(a)
  BY <1>3 DEF Quiet, FlushesUser, FlushesRequest, Leaves, Deletes, Writes, ItemsOnly
<1> QED
  BY <1>1, <1>2, <1>3 DEF Moves

\* The step that completes a request is the commit of a poll that has erased its
\* user.
LEMMA Completes ==
    ASSUME IInv, Holding, [Next]_vars, NEW e \in Erasures,
           ErasureStatus(e) # "completed", ErasureStatus(e)' = "completed"
    PROVE  \E a \in Pollers, u \in Users :
              /\ Ends(a) /\ \A j \in RowIds : lock[j] = a => rows'[j] = work[j]
              /\ lock[ErasureId(e)] = a /\ Erases(a, u)
              /\ work[ErasureId(e)] = [subject |-> u, status |-> "completed"]
              /\ rows[ErasureId(e)].subject = u /\ rows'[ErasureId(e)].subject = u
<1> DEFINE k == ErasureId(e)
<1>1. k \in RowIds /\ TablesTyped /\ Owned /\ Registered
  BY IdsDiffer, TypeParts DEF IInv
<1>2. PICK a \in Tasks :
        Ends(a) /\ lock[k] = a /\ \A j \in RowIds : lock[j] = a => rows'[j] = work[j]
  BY <1>1, Commits DEF ErasureStatus
<1>3. rows'[k] = work[k] /\ work[k].status = "completed" /\ work[k] \in ErasureRow
  BY <1>1, <1>2 DEF ErasureStatus, TablesTyped
<1>4. a \in Pollers
  BY <1>1, <1>2, <1>3, TasksAssumption DEF Owned
<1>5. PICK u \in Users : work[k].subject = u
  BY <1>1, <1>3 DEF Registered
<1>6. work[k] = [subject |-> u, status |-> "completed"]
  BY <1>3, <1>5 DEF ErasureRow
<1>7. rows[k].subject = u
  BY <1>2, <1>4, <1>5 DEF Holding, PollHolds
<1>8. Erases(a, u)
  BY <1>2, <1>6 DEF Erases
<1> QED
  BY <1>2, <1>3, <1>4, <1>5, <1>6, <1>7, <1>8

\* Whatever password change runs in between, the commit that completes an erasure
\* comes with a user row that no password opens: the eraser's own write of the row
\* cannot be lost between the read of save() and the flush.
THEOREM CompletionLocks == Spec => CompletionLocksAccount
<1>1. ASSUME IInv, Holding, [Next]_vars
      PROVE  [\A e \in Erasures :
                ErasureStatus(e) # "completed" /\ ErasureStatus(e)' = "completed"
                  => rows'[UserId(rows'[ErasureId(e)].subject)].password = "unusable"]_vars
  <2> SUFFICES ASSUME NEW e \in Erasures, ErasureStatus(e) # "completed",
                      ErasureStatus(e)' = "completed"
               PROVE  rows'[UserId(rows'[ErasureId(e)].subject)].password = "unusable"
    OBVIOUS
  <2>1. PICK a \in Pollers, u \in Users :
          /\ Ends(a) /\ \A j \in RowIds : lock[j] = a => rows'[j] = work[j]
          /\ Erases(a, u) /\ rows'[ErasureId(e)].subject = u
    BY <1>1, Completes
  <2>2. lock[UserId(u)] = a /\ work[UserId(u)].password = "unusable"
    BY <1>1, <2>1 DEF Holding, PollHolds
  <2> QED
    BY <2>1, <2>2, IdsDiffer
<1> QED
  BY <1>1, Held, PTL DEF Spec, CompletionLocksAccount

\* An erased account with no token and no request under way gets none.
LEMMA StaysLockedOut ==
    ASSUME IInv, Holding, [Next]_vars, NEW u \in Users, IsLockedOut(u)
    PROVE  IsLockedOut(u)'
<1>1. rows[UserId(u)] = ErasedUser /\ u \notin tokens /\ \A a \in Webs : subject[a] # u
  BY DEF IsLockedOut
<1>2. rows'[UserId(u)] = ErasedUser
  <2> SUFFICES ASSUME rows'[UserId(u)] # rows[UserId(u)] PROVE FALSE
    BY <1>1
  <2>1. UserId(u) \in RowIds
    BY IdsDiffer
  <2>2. PICK a \in Tasks : lock[UserId(u)] = a /\ rows'[UserId(u)] = work[UserId(u)]
    BY <2>1, Commits
  <2>3. a \notin Webs
    BY <1>1, <2>2 DEF Holding, RequestHolds
  <2>4. work[UserId(u)] = ErasedUser
    BY <1>1, <2>2, <2>3, TasksAssumption DEF Holding, PollHolds
  <2> QED
    BY <1>1, <2>2, <2>4
<1>3. u # None /\ ErasedUser # NoUser /\ ~FoundByEmail(u)
  BY <1>1, NoneAssumption DEF ErasedUser, NoUser, FoundByEmail
<1>4. u \notin tokens' /\ \A a \in Webs : subject'[a] # u
  <2>1. CASE Passes
    BY <1>1, <2>1 DEF Passes
  <2>2. ASSUME NEW a \in Tasks, Moves(a)
        PROVE  u \notin tokens' /\ \A b \in Webs : subject'[b] # u
    <3>1. \A b \in Webs \ {a} : subject'[b] # u
      <4>1. OthersKeep(a)
        BY <2>2 DEF Moves, Quiet, FlushesUser, FlushesRequest, Leaves, Deletes, Ends
      <4>2. \A b \in Webs \ {a} : subject'[b] = subject[b]
        BY <4>1, TasksAssumption DEF OthersKeep, OthersStay
      <4> QED
        BY <1>1, <4>2
    <3>2. u \notin tokens'
      <4>1. CASE Quiet(a)
        BY <1>1, <4>1 DEF Quiet, Keeps
      <4>2. CASE FlushesUser(a) \/ FlushesRequest(a) \/ Leaves(a) \/ Deletes(a) \/ Ends(a)
        BY <1>1, <4>2 DEF FlushesUser, FlushesRequest, Leaves, Deletes, Ends, Keeps
      <4> QED
        BY <2>2, <4>1, <4>2 DEF Moves
    <3>3. a \in Webs => subject'[a] # u
      <4> SUFFICES ASSUME a \in Webs PROVE subject'[a] # u
        OBVIOUS
      <4>1. a \notin Pollers
        BY TasksAssumption
      <4>2. CASE Quiet(a)
        BY <1>1, <1>3, <4>1, <4>2 DEF Quiet, Keeps
      <4>3. CASE Leaves(a)
        BY <1>1, <1>3, <4>3 DEF Leaves
      <4>4. CASE FlushesUser(a) \/ FlushesRequest(a) \/ Deletes(a) \/ Ends(a)
        BY <1>1, <1>3, <4>1, <4>4 DEF FlushesUser, FlushesRequest, Deletes, Ends, Keeps
      <4> QED
        BY <2>2, <4>2, <4>3, <4>4 DEF Moves
    <3> QED
      BY <3>1, <3>2, <3>3
  <2> QED
    BY <2>1, <2>2, StepKinds
<1> QED
  BY <1>2, <1>4 DEF IsLockedOut

\* What such an account owns only becomes less.
LEMMA OwnsNoMore ==
    ASSUME IInv, Holding, [Next]_vars, NEW u \in Users, IsLockedOut(u)
    PROVE  OwnedBy(u, rows') \subseteq OwnedBy(u, rows)
<1> SUFFICES ASSUME NEW k \in OwnedBy(u, rows'), rows'[k] # rows[k] PROVE k \in OwnedBy(u, rows)
  BY DEF OwnedBy
<1>1. /\ k \in RowIds /\ k[1] \in {"erasure", "item"} /\ rows'[k].subject = u
      /\ k[1] = "item" => rows'[k].kind # "invitation"
  BY DEF OwnedBy
<1>2. PICK a \in Tasks : lock[k] = a /\ rows'[k] = work[k]
  BY <1>1, Commits
<1>3. \A v : UserId(v)[1] = "user"
  BY DEF UserId
<1>4. a \in Webs => subject[a] # u
  BY DEF IsLockedOut
<1>5. CASE \E e \in Erasures : k = ErasureId(e)
  <2>1. PICK e \in Erasures : k = ErasureId(e)
    BY <1>5
  <2>2. a \notin Webs
    BY <1>1, <1>2, <1>4, <2>1 DEF Holding, RequestHolds
  <2>3. rows[k].subject = u
    BY <1>1, <1>2, <2>1, <2>2, TasksAssumption DEF Holding, PollHolds
  <2> QED
    BY <1>1, <2>1, <2>3, IdsDiffer DEF OwnedBy
<1>6. CASE \E i \in Items : k = ItemId(i)
  <2>1. PICK i \in Items : k = ItemId(i)
    BY <1>6
  <2>2. k[1] = "item"
    BY <2>1, IdsDiffer
  <2>3. a \notin Webs
    BY <1>1, <1>2, <1>4, <2>1, <2>2 DEF Holding, RequestHolds
  <2>4. work[k] = AbsentItem
    BY <1>2, <2>1, <2>3, TasksAssumption DEF Holding, PollHolds
  <2> QED
    BY <1>1, <1>2, <2>4, NoneAssumption DEF AbsentItem
<1> QED
  BY <1>1, <1>3, <1>5, <1>6, RowIdsAssumption

\* An erased account without a token is out of reach for good: no request gets
\* past login or token again, no commit that was under way brings the row back,
\* and nothing is added to what the account owns.
THEOREM OutOfReach == Spec => LockedOut
<1>1. ASSUME IInv, Holding, [Next]_vars
      PROVE  [\A u \in Users : IsLockedOut(u) =>
                IsLockedOut(u)' /\ OwnedBy(u, rows') \subseteq OwnedBy(u, rows)]_vars
  BY <1>1, StaysLockedOut, OwnsNoMore
<1> QED
  BY <1>1, Held, PTL DEF Spec, LockedOut
-------------------------------------------------------------------------------
(* The subject's data.                                                       *)

\* Listed items stay as they were listed, and deleted ones deleted, until the poll
\* ends: nobody else deletes, and who inserts does not replace.
LEMMA ListedStay ==
    ASSUME IInv, Holding, NEW a \in Tasks, Moves(a), NEW b \in Pollers, ~(a = b /\ Ends(a)),
           NEW i \in Items, rows[ItemId(i)] # AbsentItem
    PROVE  /\ rows'[ItemId(i)] = rows[ItemId(i)]
           /\ lock[ItemId(i)] = b => lock'[ItemId(i)] = b
<1>1. /\ ItemId(i) \in RowIds
      /\ \A u \in Users : UserId(u) # ItemId(i) /\ UserId(u) \in RowIds
      /\ \A e \in Erasures : ErasureId(e) # ItemId(i) /\ ErasureId(e) \in RowIds
  BY IdsDiffer
<1>2. CASE Quiet(a)
  BY <1>2 DEF Quiet
<1>3. CASE FlushesUser(a)
  BY <1>1, <1>3 DEF FlushesUser, Writes
<1>4. CASE FlushesRequest(a)
  BY <1>1, <1>4 DEF FlushesRequest, Writes
<1>5. CASE Leaves(a)
  <2>1. stored + 1 \in Items /\ stored \in Nat
    BY <1>5 DEF Leaves, IInv, TypeOK
  <2>2. rows[ItemId(stored + 1)] = AbsentItem
    BY <2>1 DEF Holding, Stored
  <2>3. ItemId(i) # ItemId(stored + 1)
    BY <2>2
  <2> QED
    BY <1>1, <1>5, <2>3 DEF Leaves, Writes
<1>6. CASE Deletes(a)
  <2>1. a = b
    BY <1>6, OneWorker DEF Deletes
  <2> QED
    BY <1>6, <2>1 DEF Deletes, ItemsOnly
<1>7. CASE Ends(a)
  <2>1. a \in Webs
    BY <1>7, OneWorker, TasksAssumption
  <2>2. lock[ItemId(i)] # a
    BY <2>1 DEF Holding, Stored
  <2> QED
    BY <1>1, <1>7, <2>2 DEF Ends
<1> QED
  BY <1>2, <1>3, <1>4, <1>5, <1>6, <1>7 DEF Moves

\* A completed erasure stays completed.
LEMMA AnsweredStays ==
    ASSUME IInv, [Next]_vars, NEW u, Answered(u)
    PROVE  Answered(u)'
<1>1. PICK e \in Erasures : rows[ErasureId(e)] = [subject |-> u, status |-> "completed"]
  BY DEF Answered
<1>2. rows'[ErasureId(e)] = rows[ErasureId(e)]
  BY <1>1, AnswerStays DEF ErasureStatus
<1> QED
  BY <1>1, <1>2 DEF Answered

\* What is deleted stays so while the poll goes on.
LEMMA GoneStays ==
    ASSUME IInv, Holding, Cleaning, [Next]_vars, NEW a \in Tasks, Moves(a),
           NEW b \in Pollers, ~(a = b /\ Ends(a)), known'[b] = known[b], NEW u
    PROVE  /\ \A i \in known[b] : rows'[ItemId(i)] = rows[ItemId(i)]
           /\ \A kind : Gone(b, u, kind) => Gone(b, u, kind)'
           /\ InvitationsGone(b, u) => InvitationsGone(b, u)'
           /\ AllGone(b, u) => AllGone(b, u)'
<1>1. \A i \in known[b] : i \in Items /\ rows[ItemId(i)] # AbsentItem
  BY TasksAssumption DEF Cleaning, Cleans, IInv, TypeOK, AbsentItem
<1>2. \A i \in known[b] : /\ rows'[ItemId(i)] = rows[ItemId(i)]
                          /\ lock[ItemId(i)] = b => lock'[ItemId(i)] = b
  BY <1>1, ListedStay
<1>3. ASSUME NEW c, Gone(b, u, c)
      PROVE  Gone(b, u, c)'
  <2> SUFFICES ASSUME NEW i \in known[b],
                      rows'[ItemId(i)] = [subject |-> u, kind |-> c]
               PROVE  lock'[ItemId(i)] = b
    BY DEF Gone
  <2> QED
    BY <1>2, <1>3 DEF Gone
<1>4. InvitationsGone(b, u) => InvitationsGone(b, u)'
  BY <1>3, AnsweredStays DEF InvitationsGone
<1>5. AllGone(b, u) => AllGone(b, u)'
  BY <1>3, <1>4 DEF AllGone
<1> QED
  BY <1>2, <1>3, <1>4, <1>5

\* What goes on beside the poll leaves it as it was.
LEMMA OthersClean ==
    ASSUME IInv, Holding, Cleaning, [Next]_vars, NEW a \in Tasks, Moves(a),
           NEW b \in Pollers, a # b
    PROVE  Cleans(b)'
<1>1. Cleans(b) /\ b \in Tasks
  BY TasksAssumption DEF Cleaning
<1>2. OthersKeep(a)
  BY DEF Moves, Quiet, FlushesUser, FlushesRequest, Leaves, Deletes, Ends
<1>3. known'[b] = known[b] /\ pc'[b] = pc[b] /\ subject'[b] = subject[b]
  BY <1>1, <1>2 DEF OthersKeep, OthersStay
<1>4. \A e \in Erasures : lock'[ErasureId(e)] = b =>
        lock[ErasureId(e)] = b /\ work'[ErasureId(e)] = work[ErasureId(e)]
  <2> SUFFICES ASSUME NEW e \in Erasures, lock'[ErasureId(e)] = b
               PROVE  lock[ErasureId(e)] = b /\ work'[ErasureId(e)] = work[ErasureId(e)]
    OBVIOUS
  <2>1. /\ ErasureId(e) \in RowIds
        /\ \A u \in Users : UserId(u) # ErasureId(e) /\ UserId(u) \in RowIds
        /\ ItemId(stored + 1) # ErasureId(e)
    BY IdsDiffer
  <2>2. CASE Ends(a)
    <3>1. Waits[b] # ErasureId(e)
      BY <1>1, <2>1, Waiting, IdsDiffer
    <3> QED
      BY <1>1, <2>1, <2>2, <3>1, NoTaskIsNone DEF Ends
  <2>3. CASE Quiet(a) \/ FlushesUser(a) \/ Leaves(a) \/ Deletes(a)
    BY <2>1, <2>3 DEF Quiet, FlushesUser, Leaves, Deletes, Writes, ItemsOnly
  <2>4. CASE FlushesRequest(a)
    BY <2>1, <2>4 DEF FlushesRequest, Writes
  <2> QED
    BY <2>2, <2>3, <2>4 DEF Moves
<1>5. \A u : /\ \A kind : Gone(b, u, kind) => Gone(b, u, kind)'
             /\ InvitationsGone(b, u) => InvitationsGone(b, u)'
             /\ AllGone(b, u) => AllGone(b, u)'
  BY <1>3, GoneStays
<1>6. \A i \in known[b] : rows'[ItemId(i)] = rows[ItemId(i)]
  BY <1>3, GoneStays
<1>7. /\ Gone(b, subject[b], "export") => Gone(b, subject[b], "export")'
      /\ Gone(b, subject[b], "token") => Gone(b, subject[b], "token")'
      /\ InvitationsGone(b, subject[b]) => InvitationsGone(b, subject[b])'
  BY <1>3, <1>6, <1>5 DEF Gone, InvitationsGone
<1> QED
  BY <1>1, <1>3, <1>4, <1>5, <1>6, <1>7 DEF Cleans

\* What the poll does itself: each eraser deletes what it is there for, and a
\* request is completed when all of them have run.
LEMMA PollCleans ==
    ASSUME IInv, Holding, Cleaning, [Next]_vars, NEW a \in Pollers, Moves(a)
    PROVE  Cleans(a)'
<1>1. Cleans(a) /\ InOrder(a) /\ a \in Tasks /\ a \notin Webs /\ LocalsTyped
  BY TasksAssumption, TypeParts DEF Cleaning, IInv
<1>2. CASE Ends(a)
  <2>1. known'[a] = {} /\ pc'[a] \notin Erasing
    BY <1>2 DEF Ends, Erasing
  <2>2. \A u : AllGone(a, u)'
    BY <2>1 DEF AllGone, InvitationsGone, Gone
  <2> QED
    BY <2>1, <2>2 DEF Cleans, Erasing
<1>3. CASE Quiet(a) /\ pc[a] = "idle"
  <2>1. /\ pc'[a] = "next" /\ UNCHANGED <<rows, work, lock>>
        /\ \A i \in known'[a] : IsReachable(rows[ItemId(i)])
    BY <1>1, <1>3 DEF Quiet
  <2>2. \A e \in Erasures : lock'[ErasureId(e)] # a
    BY <1>1, <1>3, <2>1 DEF InOrder, OwnsNothing
  <2>3. \A i \in known'[a] : rows[ItemId(i)].kind # "none"
    BY <2>1 DEF IsReachable
  <2> QED
    BY <2>1, <2>2, <2>3 DEF Cleans, Erasing
<1>4. ASSUME ~Ends(a), ~(Quiet(a) /\ pc[a] = "idle")
      PROVE  Cleans(a)'
  <2>1. known'[a] = known[a]
    BY <1>1, <1>4 DEF Moves, Quiet, FlushesUser, FlushesRequest, Leaves, Deletes, Keeps
  <2>2. \A u : /\ \A kind : Gone(a, u, kind) => Gone(a, u, kind)'
               /\ InvitationsGone(a, u) => InvitationsGone(a, u)'
               /\ AllGone(a, u) => AllGone(a, u)'
    BY <1>1, <1>4, <2>1, GoneStays
  <2>3. \A i \in known[a] : rows'[ItemId(i)] = rows[ItemId(i)]
    BY <1>1, <1>4, <2>1, GoneStays
  <2>4. \A i \in known'[a] : rows'[ItemId(i)].kind # "none"
    BY <1>1, <2>1, <2>3 DEF Cleans
  <2> DEFINE Done(u) == \E e \in Erasures :
               lock[ErasureId(e)] = a /\ work[ErasureId(e)] = [subject |-> u, status |-> "completed"]
  <2>5. \A u \in Users : Done(u) => AllGone(a, u)'
    BY <1>1, <2>2 DEF Cleans
  <2>6. CASE Quiet(a) \/ FlushesUser(a)
    <3>1. /\ subject'[a] = subject[a]
          /\ <<pc[a], pc'[a]>> \in {<<"user", "anonymise">>, <<"anonymise", "close">>}
      BY <1>1, <1>4, <2>6 DEF Quiet, FlushesUser, Keeps
    <3>2. PICK u : u = subject[a]
      OBVIOUS
    <3>3. AllGone(a, u)'
      BY <1>1, <2>2, <3>1, <3>2 DEF Cleans, Erasing, AllGone
    <3>4. \A e \in Erasures : /\ lock'[ErasureId(e)] = lock[ErasureId(e)]
                              /\ work'[ErasureId(e)] = work[ErasureId(e)]
      BY <2>6, IdsDiffer DEF Quiet, FlushesUser, Writes
    <3>5. AllGone(a, subject[a])'
      BY <3>1, <3>2, <3>3 DEF AllGone, InvitationsGone, Gone
    <3> QED
      BY <2>4, <2>5, <3>4, <3>5 DEF Cleans, AllGone
  <2>7. CASE Deletes(a)
    <3>1. /\ subject'[a] = subject[a] /\ subject[a] \in Users /\ pc[a] \in Erasing /\ ItemsOnly
      BY <1>1, <2>7 DEF Deletes, Keeps, InOrder, Processes, Erasing
    <3>2. PICK u \in Users : u = subject[a]
      BY <3>1
    <3>3. ASSUME NEW kind, DeletesAll(a, kind)
          PROVE  Gone(a, u, kind)'
      <4> SUFFICES ASSUME NEW i \in known[a], rows[ItemId(i)] = [subject |-> u, kind |-> kind]
                   PROVE  lock'[ItemId(i)] = a
        BY <2>1, <3>1 DEF Gone, ItemsOnly
      <4>1. i \in Items
        BY <1>1 DEF LocalsTyped
      <4>2. CASE lock[ItemId(i)] = a
        BY <2>7, <4>1, <4>2 DEF Deletes
      <4>3. CASE lock[ItemId(i)] # a
        BY <3>2, <3>3, <4>1, <4>3 DEF DeletesAll, Visible
      <4> QED
        BY <4>2, <4>3
    <3>4. \A e \in Erasures : /\ lock'[ErasureId(e)] = lock[ErasureId(e)]
                              /\ work'[ErasureId(e)] = work[ErasureId(e)]
      BY <3>1 DEF ItemsOnly
    <3>5. CASE pc[a] = "privacy"
      <4>1. pc'[a] = "organizations" /\ Gone(a, u, "export")'
        BY <2>7, <3>3, <3>5 DEF Deletes
      <4>2. Gone(a, subject[a], "export")'
        BY <3>1, <3>2, <4>1 DEF Gone
      <4> QED
        BY <2>4, <2>5, <3>4, <4>1, <4>2 DEF Cleans, Erasing
    <3>6. CASE pc[a] = "organizations"
      <4>1. pc'[a] = "tokens"
        BY <2>7, <3>6 DEF Deletes
      <4>2. Gone(a, u, "export")'
        BY <1>1, <2>2, <3>2, <3>6 DEF Cleans, Erasing
      <4>3. InvitationsGone(a, u)'
        <5>1. CASE Visible(a, UserId(u)).email = "own"
          <6>1. DeletesAll(a, "invitation")
            BY <2>7, <3>2, <3>6, <5>1 DEF Deletes
          <6> QED
            BY <3>3, <6>1 DEF InvitationsGone
        <5>2. CASE Visible(a, UserId(u)).email # "own"
          <6>1. Known(u) /\ TablesTyped /\ Registered /\ ErasedIsAnswered
            BY <1>1, <3>1, <3>2, TypeParts DEF IInv, InOrder, Processes
          <6>2. rows[UserId(u)] \in UserRow /\ work[UserId(u)] \in UserRow
            BY <6>1 DEF Known, Registered, TablesTyped
          <6>3. CASE lock[UserId(u)] # a
            <7>1. rows[UserId(u)].email = "erased"
              BY <5>2, <6>2, <6>3 DEF Visible, UserRow
            <7>2. Answered(u)
              BY <6>1, <7>1 DEF ErasedIsAnswered, ErasedOnlyByCompletion
            <7> QED
              BY <2>2, <7>2 DEF InvitationsGone
          <6>4. CASE lock[UserId(u)] = a
            <7>1. work[UserId(u)].email = "erased"
              BY <5>2, <6>2, <6>4 DEF Visible, UserRow
            <7>2. Answered(u) \/ ErasedInHand(u)
              BY <6>1, <7>1 DEF ErasedIsAnswered
            <7>3. ErasedInHand(u) => Done(u)
              BY <3>6, <6>4 DEF ErasedInHand
            <7>4. Answered(u) => InvitationsGone(a, u)'
              BY <2>2 DEF InvitationsGone
            <7>5. Done(u) => InvitationsGone(a, u)'
              BY <2>5 DEF AllGone
            <7> QED
              BY <7>2, <7>3, <7>4, <7>5
          <6> QED
            BY <6>3, <6>4
        <5> QED
          BY <5>1, <5>2
      <4>4. Gone(a, subject[a], "export")' /\ InvitationsGone(a, subject[a])'
        BY <3>1, <3>2, <4>2, <4>3 DEF Gone, InvitationsGone
      <4> QED
        BY <2>4, <2>5, <3>4, <4>1, <4>4 DEF Cleans, Erasing
    <3>7. CASE pc[a] = "tokens"
      <4>1. pc'[a] = "user" /\ Gone(a, u, "token")'
        BY <2>7, <3>3, <3>7 DEF Deletes
      <4>2. Gone(a, u, "export")' /\ InvitationsGone(a, u)'
        BY <1>1, <2>2, <3>2, <3>7 DEF Cleans, Erasing
      <4>3. /\ Gone(a, subject[a], "export")' /\ InvitationsGone(a, subject[a])'
            /\ Gone(a, subject[a], "token")'
        BY <3>1, <3>2, <4>1, <4>2 DEF Gone, InvitationsGone
      <4> QED
        BY <2>4, <2>5, <3>4, <4>3 DEF Cleans
    <3> QED
      BY <2>7, <3>5, <3>6, <3>7 DEF Deletes
  <2>8. CASE FlushesRequest(a)
    <3>1. PICK e \in Erasures :
            LET r == rows[ErasureId(e)]
                w == work'[ErasureId(e)]
            IN  /\ Writes(a, ErasureId(e), w)
                /\ \/ /\ pc[a] = "next" /\ pc'[a] = "privacy" /\ w.status = "processing"
                   \/ /\ pc[a] \in Erasing /\ pc'[a] = "next" /\ w.subject = subject[a]
                      /\ (pc[a] = "close" /\ w.status = "completed") \/ w.status = "failed"
      BY <1>1, <2>8 DEF FlushesRequest
    <3>2. \A g \in Erasures \ {e} : /\ work'[ErasureId(g)] = work[ErasureId(g)]
                                    /\ lock'[ErasureId(g)] = lock[ErasureId(g)]
      BY <3>1, IdsDiffer DEF Writes
    <3>3. ASSUME NEW u \in Users, work'[ErasureId(e)] = [subject |-> u, status |-> "completed"]
          PROVE  AllGone(a, u)'
      <4>1. pc[a] = "close" /\ subject[a] = u
        BY <3>1, <3>3
      <4>2. AllGone(a, u)
        BY <1>1, <4>1 DEF Cleans, AllGone, Erasing
      <4> QED
        BY <2>2, <4>2
    <3>4. \A u \in Users, g \in Erasures :
            lock'[ErasureId(g)] = a /\ work'[ErasureId(g)] = [subject |-> u, status |-> "completed"]
               => AllGone(a, u)'
      BY <2>5, <3>2, <3>3
    <3>5. pc'[a] \notin Erasing \ {"privacy"}
      BY <3>1 DEF Erasing
    <3> QED
      BY <2>4, <3>4, <3>5 DEF Cleans, Erasing
  <2> QED
    BY <1>1, <1>4, <2>6, <2>7, <2>8 DEF Moves, Leaves
<1> QED
  BY <1>2, <1>3, <1>4

\* Every step keeps what the poll has cleaned.
LEMMA CleaningNext == IInv /\ Holding /\ Cleaning /\ [Next]_vars => Cleaning'
<1> SUFFICES ASSUME IInv, Holding, Cleaning, [Next]_vars PROVE Cleaning'
  OBVIOUS
<1>1. CASE \E a \in Tasks : Moves(a)
  <2>1. PICK a \in Tasks : Moves(a)
    BY <1>1
  <2> QED
    BY <2>1, PollCleans, OthersClean DEF Cleaning
<1>2. CASE Passes
  <2>1. UNCHANGED <<rows, work, lock, pc, subject, known>>
    BY <1>2 DEF Passes
  <2> SUFFICES ASSUME NEW a \in Pollers, Cleans(a) PROVE Cleans(a)'
    BY DEF Cleaning
  <2>2. \A u : AllGone(a, u)' = AllGone(a, u)
    BY <2>1 DEF AllGone, InvitationsGone, Gone, Answered
  <2>3. /\ Gone(a, subject[a], "export")' = Gone(a, subject[a], "export")
        /\ Gone(a, subject[a], "token")' = Gone(a, subject[a], "token")
        /\ InvitationsGone(a, subject[a])' = InvitationsGone(a, subject[a])
    BY <2>1 DEF InvitationsGone, Gone, Answered
  <2> QED
    BY <2>1, <2>2, <2>3 DEF Cleans
<1> QED
  BY <1>1, <1>2, StepKinds

\* The commit that completes an erasure leaves nothing of what led back to the
\* subject when the poll made its list, in whatever order items, requests and
\* password changes have come; of the invitations this holds for the subject's
\* first erasure, which finds them before it erases the address.
THEOREM CompletionCleans == Spec => CompletionRemovesData
<1>1. Init => Cleaning
  <2> SUFFICES ASSUME Init PROVE Cleaning
    OBVIOUS
  <2>1. \A a \in Pollers : known[a] = {} /\ pc[a] = "idle"
    BY TasksAssumption DEF Init
  <2>2. \A a \in Pollers : \A u : AllGone(a, u)
    BY <2>1 DEF AllGone, InvitationsGone, Gone
  <2> QED
    BY <2>1, <2>2 DEF Cleaning, Cleans, Erasing
<1>2. (IInv /\ Holding) /\ Cleaning /\ [Next]_vars => Cleaning'
  BY CleaningNext
<1>3. ASSUME IInv, Holding, Cleaning, [Next]_vars
      PROVE  [\A a \in Pollers, e \in Erasures :
                ErasureStatus(e) # "completed" /\ ErasureStatus(e)' = "completed"
                => LET u == rows[ErasureId(e)].subject
                   IN  \A i \in known[a] :
                          rows'[ItemId(i)].subject = u =>
                              rows[ItemId(i)].kind = "invitation" /\ Answered(u)]_vars
  <2> SUFFICES ASSUME NEW b \in Pollers, NEW e \in Erasures, ErasureStatus(e) # "completed",
                      ErasureStatus(e)' = "completed", NEW i \in known[b],
                      rows'[ItemId(i)].subject = rows[ErasureId(e)].subject
               PROVE  /\ rows[ItemId(i)].kind = "invitation"
                      /\ Answered(rows[ErasureId(e)].subject)
    OBVIOUS
  <2>1. PICK a \in Pollers, u \in Users :
          /\ Ends(a) /\ \A j \in RowIds : lock[j] = a => rows'[j] = work[j]
          /\ lock[ErasureId(e)] = a
          /\ work[ErasureId(e)] = [subject |-> u, status |-> "completed"]
          /\ rows[ErasureId(e)].subject = u
    BY <1>3, Completes
  <2>2. a = b /\ a \in Tasks /\ Cleans(a) /\ AllGone(a, u)
    BY <1>3, <2>1, OneWorker, TasksAssumption DEF Cleaning, Cleans
  <2>3. /\ i \in Items /\ ItemId(i) \in RowIds
        /\ rows[ItemId(i)] \in ItemRow /\ rows[ItemId(i)].kind # "none"
    BY <1>3, <2>2, IdsDiffer DEF IInv, TypeOK, Cleans
  <2>4. lock[ItemId(i)] # a
    <3> SUFFICES ASSUME lock[ItemId(i)] = a PROVE FALSE
      OBVIOUS
    <3>1. rows'[ItemId(i)] = AbsentItem
      BY <1>3, <2>1, <2>3 DEF Holding, PollHolds
    <3> QED
      BY <2>1, <3>1, NoneAssumption DEF AbsentItem
  <2>5. rows[ItemId(i)].subject = u
    BY <2>1, <2>3, <2>4 DEF Ends
  <2>6. PICK kind : kind = rows[ItemId(i)].kind
    OBVIOUS
  <2>7. rows[ItemId(i)] = [subject |-> u, kind |-> kind]
    BY <2>3, <2>5, <2>6 DEF ItemRow
  <2>8. ~Gone(a, u, kind)
    BY <2>2, <2>4, <2>7 DEF Gone
  <2> QED
    BY <2>1, <2>2, <2>3, <2>6, <2>8 DEF AllGone, InvitationsGone, ItemRow
<1> QED
  BY <1>1, <1>2, <1>3, Held, PTL DEF Spec, CompletionRemovesData
-------------------------------------------------------------------------------
(* The active requests of a subject.                                         *)

AllFiled == \E f : Filers(f)

\* A step that commits nothing and files nothing.
LEMMA FilersStay ==
    ASSUME NEW f, Filers(f), rows' = rows,
           \A e \in Erasures : lock'[ErasureId(e)] \in Webs =>
               lock'[ErasureId(e)] = lock[ErasureId(e)] /\ work'[ErasureId(e)] = work[ErasureId(e)],
           \A a \in Webs : pc'[a] = "file" =>
               \/ pc[a] = "file" /\ subject'[a] = subject[a]
               \/ \A e \in Erasures : ~IsActiveFor(e, subject'[a])
    PROVE  Filers(f)'
<1>1. \A e \in Erasures : \A u : IsActiveFor(e, u)' <=> IsActiveFor(e, u)
  BY DEF IsActiveFor
<1>2. \A e \in Erasures :
        /\ lock'[ErasureId(e)] \in Webs => f[e] = lock'[ErasureId(e)]
        /\ rows'[ErasureId(e)].status \in Active => f[e] \in Webs
  BY DEF Filers
<1>3. ASSUME NEW e \in Erasures, NEW g \in Erasures
      PROVE  /\ lock'[ErasureId(e)] \in Webs /\ lock'[ErasureId(g)] = lock'[ErasureId(e)] => e = g
             /\ \A u \in Users :
                   IsActiveFor(e, u)' /\ IsActiveFor(g, u)' /\ f[e] = f[g] => e = g
             /\ lock'[ErasureId(e)] \in Webs /\ IsActiveFor(g, work[ErasureId(e)].subject)'
                   => f[g] # lock'[ErasureId(e)]
  BY DEF Filers, IsActiveFor
<1>4. ASSUME NEW a \in Webs, NEW e \in Erasures, pc'[a] = "file", IsActiveFor(e, subject[a])'
      PROVE  f[e] # a
  BY <1>4 DEF Filers, IsActiveFor
<1> QED
  BY <1>2, <1>3, <1>4 DEF Filers

\* A request is filed: its task has found no active request that it had filed.
LEMMA FilersFile ==
    ASSUME IInv, NEW f, Filers(f), NEW a \in Webs, FlushesRequest(a)
    PROVE  \E g : Filers(g)'
<1>1. a \in Tasks /\ a \notin Pollers /\ Unfiled /\ InOrder(a) /\ filed \in Nat
  BY TasksAssumption DEF IInv, TypeOK
<1>2. PICK n \in Erasures :
        /\ n = filed + 1 /\ pc[a] = "file" /\ pc'[a] = "commit" /\ subject'[a] = subject[a]
        /\ Writes(a, ErasureId(n), work'[ErasureId(n)])
        /\ work'[ErasureId(n)].subject = subject[a]
  BY <1>1 DEF FlushesRequest
<1>3. OthersStay(a) /\ rows' = rows /\ lock'[ErasureId(n)] = a
  BY <1>2 DEF FlushesRequest, OthersKeep, Writes
<1>4. \A e \in Erasures \ {n} : /\ lock'[ErasureId(e)] = lock[ErasureId(e)]
                                /\ work'[ErasureId(e)] = work[ErasureId(e)]
  BY <1>2, IdsDiffer DEF Writes
<1>5. rows[ErasureId(n)].status = "absent" /\ \A e \in Erasures : lock[ErasureId(e)] # a
  BY <1>1, <1>2 DEF Unfiled, InOrder, OwnsNothing, OfUser
<1>6. PICK g : \A e \in Erasures : g[e] = IF e = n THEN a ELSE f[e]
  <2> DEFINE g == [e \in Erasures |-> IF e = n THEN a ELSE f[e]]
  <2>1. \A e \in Erasures : g[e] = IF e = n THEN a ELSE f[e]
    OBVIOUS
  <2> QED
    BY <2>1
<1>7. \A e \in Erasures : \A u : IsActiveFor(e, u)' => IsActiveFor(e, u) /\ e # n /\ g[e] = f[e]
  BY <1>3, <1>5, <1>6 DEF IsActiveFor, Active
<1>8. \A e \in Erasures :
        /\ lock'[ErasureId(e)] \in Webs => g[e] = lock'[ErasureId(e)]
        /\ rows'[ErasureId(e)].status \in Active => g[e] \in Webs
  BY <1>3, <1>4, <1>5, <1>6 DEF Filers, Active
<1>9. ASSUME NEW e \in Erasures, NEW h \in Erasures
      PROVE  /\ lock'[ErasureId(e)] \in Webs /\ lock'[ErasureId(h)] = lock'[ErasureId(e)] => e = h
             /\ \A u \in Users :
                   IsActiveFor(e, u)' /\ IsActiveFor(h, u)' /\ g[e] = g[h] => e = h
             /\ lock'[ErasureId(e)] \in Webs /\ IsActiveFor(h, work[ErasureId(e)].subject)'
                   => g[h] # lock'[ErasureId(e)]
  <2>1. lock'[ErasureId(e)] \in Webs /\ lock'[ErasureId(h)] = lock'[ErasureId(e)] => e = h
    BY <1>3, <1>4, <1>5 DEF Filers
  <2>2. \A u \in Users : IsActiveFor(e, u)' /\ IsActiveFor(h, u)' /\ g[e] = g[h] => e = h
    BY <1>7 DEF Filers
  <2>3. ASSUME lock'[ErasureId(e)] \in Webs, IsActiveFor(h, work[ErasureId(e)].subject)'
        PROVE  g[h] # lock'[ErasureId(e)]
    <3>1. PICK u : u = work'[ErasureId(e)].subject
      OBVIOUS
    <3>2. IsActiveFor(h, u) /\ g[h] = f[h]
      BY <1>7, <2>3, <3>1 DEF IsActiveFor
    <3>3. CASE e = n
      BY <1>2, <1>3, <3>1, <3>2, <3>3 DEF Filers
    <3>4. CASE e # n
      BY <1>4, <2>3, <3>1, <3>2, <3>4 DEF Filers
    <3> QED
      BY <3>3, <3>4
  <2> QED
    BY <2>1, <2>2, <2>3
<1>10. ASSUME NEW b \in Webs, NEW e \in Erasures, pc'[b] = "file", IsActiveFor(e, subject[b])'
       PROVE  g[e] # b
  <2>1. b # a /\ pc[b] = "file" /\ subject'[b] = subject[b]
    BY <1>2, <1>3, <1>10, TasksAssumption DEF OthersStay
  <2>2. IsActiveFor(e, subject[b]) /\ g[e] = f[e]
    BY <1>3, <1>7, <1>10, <2>1 DEF IsActiveFor
  <2> QED
    BY <2>1, <2>2 DEF Filers
<1>11. Filers(g)'
  BY <1>8, <1>9, <1>10 DEF Filers
<1> QED
  BY <1>11

\* A commit makes the request of its task active, or answers what a poll had in
\* hand.
LEMMA FilersEnd ==
    ASSUME IInv, IInv', Holding, NEW f, Filers(f), NEW a \in Tasks, Ends(a)
    PROVE  Filers(f)'
<1>1. /\ OthersStay(a) /\ pc'[a] = "idle"
      /\ \A e \in Erasures : ErasureId(e) \in RowIds
  BY IdsDiffer DEF Ends, OthersKeep
<1>2. \A e \in Erasures : lock'[ErasureId(e)] \in Webs =>
        /\ lock'[ErasureId(e)] = lock[ErasureId(e)] /\ lock[ErasureId(e)] # a
        /\ work'[ErasureId(e)] = work[ErasureId(e)]
  <2> SUFFICES ASSUME NEW e \in Erasures, lock'[ErasureId(e)] \in Webs
               PROVE  lock[ErasureId(e)] # a
    BY <1>1 DEF Ends
  <2>1. Waits[lock'[ErasureId(e)]] # ErasureId(e)
    BY <1>1, Waiting, IdsDiffer, TasksAssumption
  <2> QED
    BY <1>1, <2>1, NoTaskIsNone, TasksAssumption DEF Ends
<1>3. \A e \in Erasures : rows'[ErasureId(e)].status # "processing"
  BY DEF IInv, ProcessingIsInHand, NoCommittedProcessing, ErasureStatus
<1>4. ASSUME NEW e \in Erasures, NEW u, IsActiveFor(e, u)'
      PROVE  \/ IsActiveFor(e, u)
             \/ a \in Webs /\ lock[ErasureId(e)] = a /\ work[ErasureId(e)].subject = u /\ f[e] = a
  <2>1. rows'[ErasureId(e)].subject = u /\ rows'[ErasureId(e)].status = "pending"
    BY <1>3, <1>4 DEF IsActiveFor, Active
  <2>2. CASE rows'[ErasureId(e)] = rows[ErasureId(e)]
    BY <2>1, <2>2 DEF IsActiveFor, Active
  <2>3. CASE rows'[ErasureId(e)] # rows[ErasureId(e)]
    <3>1. lock[ErasureId(e)] = a /\ rows'[ErasureId(e)] = work[ErasureId(e)]
      BY <1>1, <2>3 DEF Ends
    <3>2. a \notin Pollers
      BY <2>1, <3>1 DEF Holding, PollHolds
    <3> QED
      BY <2>1, <3>1, <3>2, TasksAssumption DEF Filers
  <2> QED
    BY <2>2, <2>3
<1>5. \A e \in Erasures :
        /\ lock'[ErasureId(e)] \in Webs => f[e] = lock'[ErasureId(e)]
        /\ rows'[ErasureId(e)].status \in Active => f[e] \in Webs
  <2>1. \A e \in Erasures : lock'[ErasureId(e)] \in Webs => f[e] = lock'[ErasureId(e)]
    BY <1>2 DEF Filers
  <2>2. ASSUME NEW e \in Erasures, rows'[ErasureId(e)].status \in Active
        PROVE  f[e] \in Webs
    <3>1. PICK u : u = rows'[ErasureId(e)].subject
      OBVIOUS
    <3>2. IsActiveFor(e, u)'
      BY <2>2, <3>1 DEF IsActiveFor
    <3> QED
      BY <1>4, <3>2 DEF Filers, IsActiveFor
  <2> QED
    BY <2>1, <2>2
<1>6. ASSUME NEW e \in Erasures, NEW g \in Erasures
      PROVE  /\ lock'[ErasureId(e)] \in Webs /\ lock'[ErasureId(g)] = lock'[ErasureId(e)] => e = g
             /\ \A u \in Users :
                   IsActiveFor(e, u)' /\ IsActiveFor(g, u)' /\ f[e] = f[g] => e = g
             /\ lock'[ErasureId(e)] \in Webs /\ IsActiveFor(g, work[ErasureId(e)].subject)'
                   => f[g] # lock'[ErasureId(e)]
  <2>1. lock'[ErasureId(e)] \in Webs /\ lock'[ErasureId(g)] = lock'[ErasureId(e)] => e = g
    BY <1>2 DEF Filers
  <2>2. ASSUME NEW u \in Users, IsActiveFor(e, u)', IsActiveFor(g, u)', f[e] = f[g]
        PROVE  e = g
    <3>1. CASE IsActiveFor(e, u) /\ IsActiveFor(g, u)
      BY <2>2, <3>1 DEF Filers
    <3>2. CASE ~IsActiveFor(e, u) /\ IsActiveFor(g, u)
      BY <1>4, <2>2, <3>2 DEF Filers
    <3>3. CASE IsActiveFor(e, u) /\ ~IsActiveFor(g, u)
      BY <1>4, <2>2, <3>3 DEF Filers
    <3>4. CASE ~IsActiveFor(e, u) /\ ~IsActiveFor(g, u)
      BY <1>4, <2>2, <3>4 DEF Filers
    <3> QED
      BY <3>1, <3>2, <3>3, <3>4
  <2>3. ASSUME lock'[ErasureId(e)] \in Webs, IsActiveFor(g, work[ErasureId(e)].subject)'
        PROVE  f[g] # lock'[ErasureId(e)]
    <3>1. PICK u : u = work[ErasureId(e)].subject
      OBVIOUS
    <3>2. lock[ErasureId(e)] \in Webs /\ lock[ErasureId(e)] # a /\ IsActiveFor(g, u)'
      BY <1>2, <2>3, <3>1 DEF IsActiveFor
    <3>3. f[g] # lock[ErasureId(e)]
      BY <1>4, <3>1, <3>2 DEF Filers
    <3> QED
      BY <1>2, <2>3, <3>3
  <2> QED
    BY <2>1, <2>2, <2>3
<1>7. ASSUME NEW b \in Webs, NEW e \in Erasures, pc'[b] = "file", IsActiveFor(e, subject[b])'
      PROVE  f[e] # b
  <2>1. b # a /\ pc[b] = "file" /\ subject'[b] = subject[b]
    BY <1>1, <1>7, TasksAssumption DEF OthersStay
  <2>2. PICK u : u = subject[b]
    OBVIOUS
  <2>3. IsActiveFor(e, u)'
    BY <1>7, <2>1, <2>2 DEF IsActiveFor
  <2> QED
    BY <1>4, <2>1, <2>2, <2>3 DEF Filers
<1> QED
  BY <1>5, <1>6, <1>7 DEF Filers

\* Every step keeps the requests apart.
LEMMA FiledNext ==
    ASSUME IInv, IInv', Holding, AllFiled, [Next]_vars
    PROVE  AllFiled'
<1>1. PICK f : Filers(f)
  BY DEF AllFiled
<1>2. CASE Passes
  <2>1. Filers(f)'
    BY <1>1, <1>2, FilersStay DEF Passes
  <2> QED
    BY <2>1 DEF AllFiled
<1>3. CASE \E a \in Tasks : Moves(a)
  <2>1. PICK a \in Tasks : Moves(a)
    BY <1>3
  <2>2. CASE Ends(a)
    <3>1. Filers(f)'
      BY <1>1, <2>2, FilersEnd
    <3> QED
      BY <3>1 DEF AllFiled
  <2>3. CASE FlushesRequest(a) /\ a \in Webs
    BY <1>1, <2>3, FilersFile DEF AllFiled
  <2>4. CASE Quiet(a) \/ FlushesUser(a) \/ Leaves(a) \/ Deletes(a)
               \/ (FlushesRequest(a) /\ a \notin Webs)
    <3>1. OthersStay(a) /\ rows' = rows
      BY <2>4 DEF Quiet, FlushesUser, Leaves, Deletes, FlushesRequest, OthersKeep, Writes, ItemsOnly
    <3>2. \A e \in Erasures : lock'[ErasureId(e)] \in Webs =>
            lock'[ErasureId(e)] = lock[ErasureId(e)] /\ work'[ErasureId(e)] = work[ErasureId(e)]
      <4> SUFFICES ASSUME NEW e \in Erasures, lock'[ErasureId(e)] \in Webs
                   PROVE  /\ lock'[ErasureId(e)] = lock[ErasureId(e)]
                          /\ work'[ErasureId(e)] = work[ErasureId(e)]
        OBVIOUS
      <4>1. /\ ErasureId(e) \in RowIds
            /\ \A u : UserId(u) # ErasureId(e)
            /\ \A i : ItemId(i) # ErasureId(e)
        BY IdsDiffer
      <4>2. CASE Quiet(a) \/ Deletes(a)
        BY <4>2 DEF Quiet, Deletes, ItemsOnly
      <4>3. CASE FlushesUser(a) \/ Leaves(a)
        BY <4>1, <4>3 DEF FlushesUser, Leaves, Writes
      <4>4. CASE FlushesRequest(a) /\ a \notin Webs
        BY <4>1, <4>4 DEF FlushesRequest, Writes
      <4> QED
        BY <2>4, <4>2, <4>3, <4>4
    <3>3. \A b \in Webs : pc'[b] = "file" =>
            \/ pc[b] = "file" /\ subject'[b] = subject[b]
            \/ \A e \in Erasures : ~IsActiveFor(e, subject'[b])
      <4>1. pc'[a] = "file" => \A e \in Erasures : ~IsActiveFor(e, subject'[a])
        BY <2>4, TasksAssumption DEF Quiet, FlushesUser, Leaves, Deletes, FlushesRequest
      <4> QED
        BY <3>1, <4>1, TasksAssumption DEF OthersStay
    <3>4. Filers(f)'
      BY <1>1, <3>1, <3>2, <3>3, FilersStay
    <3> QED
      BY <3>4 DEF AllFiled
  <2> QED
    BY <2>1, <2>2, <2>3, <2>4 DEF Moves
<1> QED
  BY <1>2, <1>3, StepKinds

\* Whoever can be told apart by an owner is no more than the owners.
LEMMA DistinctFilers ==
    ASSUME NEW S, NEW T, IsFiniteSet(T), NEW f,
           \A x \in S : f[x] \in T, \A x, y \in S : f[x] = f[y] => x = y
    PROVE  Cardinality(S) <= Cardinality(T)
<1> DEFINE g == [x \in S |-> f[x]]
<1>1. g \in [S -> T] /\ \A x, y \in S : g[x] = g[y] => x = y
  OBVIOUS
<1> HIDE DEF g
<1>2. g \in Injection(S, T)
  BY <1>1 DEF Injection, IsInjective
<1> QED
  BY <1>2, FS_Injection

\* The check for an active request, which no constraint backs, lets through at
\* most one for each HTTP request that can be between the check and the commit: a
\* subject never has more active erasures, however many were filed in time.
THEOREM ActiveErasuresBounded == Spec => []ActiveErasuresOverlap
<1>1. Init => AllFiled
  <2> SUFFICES ASSUME Init PROVE AllFiled
    OBVIOUS
  <2>1. \A e \in Erasures :
          rows[ErasureId(e)] = AbsentErasure /\ lock[ErasureId(e)] \notin Webs
    BY IdsDiffer, NoTaskIsNone, TasksAssumption DEF Init
  <2>2. \A e \in Erasures : \A u : ~IsActiveFor(e, u) /\ rows[ErasureId(e)].status \notin Active
    BY <2>1 DEF IsActiveFor, AbsentErasure, Active
  <2>3. Filers(None)
    BY <2>1, <2>2 DEF Filers
  <2> QED
    BY <2>3 DEF AllFiled
<1>2. (IInv /\ Holding) /\ (IInv /\ Holding)' /\ AllFiled /\ [Next]_vars => AllFiled'
  BY FiledNext
<1>3. AllFiled => ActiveErasuresOverlap
  <2> SUFFICES ASSUME NEW f, Filers(f), NEW u \in Users
               PROVE  Cardinality({e \in Erasures : /\ rows[ErasureId(e)].subject = u
                                                    /\ rows[ErasureId(e)].status \in Active})
                         <= Cardinality(Webs)
    BY DEF AllFiled, ActiveErasuresOverlap
  <2> DEFINE S == {e \in Erasures : /\ rows[ErasureId(e)].subject = u
                                    /\ rows[ErasureId(e)].status \in Active}
  <2>1. /\ \A e \in S : f[e] \in Webs
        /\ \A e, g \in S : f[e] = f[g] => e = g
    BY DEF Filers, IsActiveFor
  <2> HIDE DEF S
  <2>2. Cardinality(S) <= Cardinality(Webs)
    BY <2>1, FiniteAssumption, DistinctFilers
  <2> QED
    BY <2>2 DEF S
<1> QED
  BY <1>1, <1>2, <1>3, Held, PTL DEF Spec
=============================================================================
