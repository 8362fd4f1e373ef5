------------------------------- MODULE Groups -------------------------------
(***************************************************************************)
(* One group of the API gateway: its membership rows, one invitation, and  *)
(* the requests that change them.  A request checks what it reads and then *)
(* commits; others commit in between.  The tables have no constraint that  *)
(* would make a user's or a worker's membership unique, but a commit that  *)
(* updates a row which is gone, or that breaks a foreign key, raises and   *)
(* is rolled back as a whole (deleting a row that is gone only warns).     *)
(***************************************************************************)
EXTENDS Naturals, FiniteSets

CONSTANTS
  Users,      \* accounts
  Devices,    \* worker ids
  Sessions,   \* requests that may be under way at the same time
  Founder,    \* who created the group
  Limits,     \* GroupInvitation.max_uses, 0 for none
  RowBound,   \* bound: membership rows ever made
  Null      \* SQL NULL: no user, no worker

\* The founder's row must fit in.
ASSUME GroupParameters ==
  /\ Founder \in Users /\ Limits \subseteq Nat /\ RowBound \in Nat \ {0} /\ Null \notin Users \cup Devices

Roles == {"owner", "admin", "member", "worker"}

VARIABLES
  open,        \* is the group there?
  public,      \* Group.is_public
  members,     \* group_members: records with their primary key
  made,        \* keys given out
  invitation,  \* "none", "live", or "gone" once revoked or deleted with the group
  maxUses, uses,
  workers,     \* the workers table
  session      \* the request of each session, with what it has read

groupVars == <<open, public, members, made, invitation, maxUses, uses, workers, session>>

NoSession == [op |-> "idle"]
Row(k, u, w, r) == [key |-> k, user |-> u, worker |-> w, role |-> r]
Rows == [key : 1..RowBound, user : Users \cup {Null}, worker : Devices \cup {Null}, role : Roles]

GroupsTypeOK ==
  /\ open \in BOOLEAN /\ public \in BOOLEAN
  /\ members \subseteq Rows
  /\ \A a, b \in members : a.key = b.key => a = b
  /\ invitation \in {"none", "live", "gone"}
  /\ maxUses \in Limits /\ uses \in Nat
  /\ workers \subseteq Devices

\* create_group: the founder's row comes with it.
GroupsInit ==
  /\ open = TRUE /\ public \in BOOLEAN
  /\ members = {Row(1, Founder, Null, "owner")} /\ made = 1
  /\ invitation = "none" /\ maxUses \in Limits /\ uses = 0
  /\ workers = {}
  /\ session = [s \in Sessions |-> NoSession]

RowsOf(u) == {r \in members : r.user = u}
\* scalar_one_or_none raises when there are two.
Only(u, r) == RowsOf(u) = {r}
Manages(u, roles) == \E r \in members : Only(u, r) /\ r.role \in roles

Start(s, request) ==
  /\ session[s] = NoSession
  /\ session' = [session EXCEPT ![s] = request]
  /\ UNCHANGED <<open, public, members, made, invitation, maxUses, uses, workers>>

Commit(s, op) == session[s].op = op /\ session' = [session EXCEPT ![s] = NoSession]
Rollback == UNCHANGED <<open, public, members, made, invitation, maxUses, uses, workers>>

\* A request for one step: nothing it read can have changed.
Alone == UNCHANGED session

-----------------------------------------------------------------------------
\* create_invitation
CreateInvitation(u) ==
  /\ open /\ invitation = "none" /\ Manages(u, {"owner", "admin"})
  /\ invitation' = "live"
  /\ Alone /\ UNCHANGED <<open, public, members, made, maxUses, uses, workers>>

\* revoke_invitation
RevokeInvitation(u) ==
  /\ invitation = "live" /\ Manages(u, {"owner", "admin"})
  /\ invitation' = "gone"
  /\ Alone /\ UNCHANGED <<open, public, members, made, maxUses, uses, workers>>

\* Mutant: one use too many.
BeginAccept_OneTooMany(s, u, w) ==
  /\ invitation = "live"
  /\ maxUses = 0 \/ uses <= maxUses
  /\ \A r \in members : r.worker # w
  /\ Cardinality(RowsOf(u)) <= 1
  /\ Start(s, [op |-> "accept", user |-> u, worker |-> w, uses |-> uses, row |-> RowsOf(u), known |-> w \in workers])

\* accept_invitation of user u for worker w.  A worker that is a member already
\* is answered at once.
BeginAccept(s, u, w) ==
  /\ invitation = "live"
  /\ maxUses = 0 \/ uses < maxUses
  /\ \A r \in members : r.worker # w
  /\ Cardinality(RowsOf(u)) <= 1
  /\ Start(s, [op |-> "accept", user |-> u, worker |-> w, uses |-> uses, row |-> RowsOf(u), known |-> w \in workers])

\* The commit: the worker's id goes to the membership that the user has, or into a
\* new one; the worker is made known; the use is counted, from the count as read.
\* It updates the invitation in any case, so it fails once that is gone.
CommitAccept(s) ==
  LET a == session[s]
      mine == {r \in members : \E x \in a.row : x.key = r.key}
  IN /\ Commit(s, "accept")
     /\ IF \/ invitation # "live"
           \/ a.row # {} /\ mine = {}
           \/ ~a.known /\ a.worker \in workers
        THEN Rollback
        ELSE /\ IF a.row # {}
                THEN members' = (members \ mine) \cup {[r EXCEPT !.worker = a.worker] : r \in mine} /\ UNCHANGED made
                ELSE /\ made < RowBound /\ made' = made + 1
                     /\ members' = members \cup {Row(made + 1, a.user, a.worker, "worker")}
             /\ workers' = workers \cup {a.worker}
             /\ uses' = a.uses + 1
             /\ UNCHANGED <<open, public, invitation, maxUses>>

\* join_public_group: a row without a user.
BeginJoin(s, w) ==
  /\ open /\ public
  /\ \A r \in members : r.worker # w
  /\ Start(s, [op |-> "join", worker |-> w])

CommitJoin(s) ==
  /\ Commit(s, "join")
  /\ IF ~open THEN Rollback
     ELSE /\ made < RowBound /\ made' = made + 1
          /\ members' = members \cup {Row(made + 1, Null, session[s].worker, "worker")}
          /\ UNCHANGED <<open, public, invitation, maxUses, uses, workers>>

\* update_member_role: any role, for anyone, the owner included.
BeginRole(s, u, r, to) ==
  /\ Manages(u, {"owner", "admin"})
  /\ r.user # Null /\ Only(r.user, r) /\ to # r.role
  /\ Start(s, [op |-> "role", row |-> r, role |-> to])

CommitRole(s) ==
  /\ Commit(s, "role")
  /\ members' = {IF r.key = session[s].row.key THEN [r EXCEPT !.role = session[s].role] ELSE r : r \in members}
  /\ UNCHANGED <<open, public, made, invitation, maxUses, uses, workers>>

\* remove_member: oneself, or by an owner or admin; not an owner.
BeginRemove(s, u, r) ==
  /\ r.user = u \/ Manages(u, {"owner", "admin"})
  /\ r.user # Null /\ Only(r.user, r) /\ r.role # "owner"
  /\ Start(s, [op |-> "remove", row |-> r])

CommitRemove(s) ==
  /\ Commit(s, "remove")
  /\ members' = {r \in members : r.key # session[s].row.key}
  /\ UNCHANGED <<open, public, made, invitation, maxUses, uses, workers>>

\* delete_group: the rows it has loaded, then the group with its invitation; a
\* foreign key stops it if there are more by now.
BeginDeleteGroup(s, u) ==
  /\ Manages(u, {"owner"})
  /\ Start(s, [op |-> "delete", rows |-> {r.key : r \in members}, invited |-> invitation])

CommitDeleteGroup(s) ==
  /\ Commit(s, "delete")
  /\ IF \/ \E r \in members : r.key \notin session[s].rows
        \/ invitation = "live" /\ session[s].invited # "live"
     THEN Rollback
     ELSE /\ open' = FALSE /\ members' = {}
          /\ invitation' = IF invitation = "live" THEN "gone" ELSE invitation
          /\ UNCHANGED <<public, made, maxUses, uses, workers>>

\* update_group
UpdateGroup(u) ==
  /\ open /\ Manages(u, {"owner", "admin"})
  /\ public' = ~public
  /\ Alone /\ UNCHANGED <<open, members, made, invitation, maxUses, uses, workers>>

\* register_worker and deregister_worker of the gateway.
RegisterDevice(w) ==
  /\ workers' = workers \cup {w}
  /\ Alone /\ UNCHANGED <<open, public, members, made, invitation, maxUses, uses>>
DeregisterDevice(w) ==
  /\ w \in workers /\ workers' = workers \ {w}
  /\ Alone /\ UNCHANGED <<open, public, members, made, invitation, maxUses, uses>>

GroupsNext ==
  \/ \E u \in Users : CreateInvitation(u) \/ RevokeInvitation(u) \/ UpdateGroup(u)
  \/ \E w \in Devices : RegisterDevice(w) \/ DeregisterDevice(w)
  \/ \E s \in Sessions :
       \/ \E u \in Users, w \in Devices : BeginAccept(s, u, w)
       \/ \E w \in Devices : BeginJoin(s, w)
       \/ \E u \in Users, r \in members : \/ BeginRemove(s, u, r)
                                          \/ \E to \in Roles : BeginRole(s, u, r, to)
       \/ \E u \in Users : BeginDeleteGroup(s, u)
       \/ CommitAccept(s) \/ CommitJoin(s) \/ CommitRole(s) \/ CommitRemove(s) \/ CommitDeleteGroup(s)

GroupsSpec == GroupsInit /\ [][GroupsNext]_groupVars

-----------------------------------------------------------------------------
\* Racing acceptances lose counts and may let in more than max_uses; but the count
\* itself never passes the limit, and no acceptance, however early it read the
\* invitation, gives an account a membership or a worker once it was revoked or
\* the group deleted.
InvitationHolds ==
  [][LET Linked == {<<r.key, r.worker>> : r \in {x \in members : x.user # Null}}
     IN /\ maxUses > 0 => uses' <= maxUses
        /\ invitation = "gone" => Linked' \subseteq Linked]_groupVars
=============================================================================
