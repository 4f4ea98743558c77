-------------------------------- MODULE Teams --------------------------------
(***************************************************************************)
(* Who belongs to a workspace and to an organisation.  One person is       *)
(* invited to the workspace of a key, accepts with the invitation's token, *)
(* is given a role and is removed (src/src/routes/team/index.ts,           *)
(* accept-invite in src/src/routes/auth/index.ts).  The person's           *)
(* membership of an organisation is kept by the identity service; the row  *)
(* here follows it, written by an admin's request after the service's call *)
(* (src/src/routes/org/index.ts), by a sign-in, and by the directory       *)
(* (src/src/routes/webhooks/workos.ts).                                    *)
(***************************************************************************)
EXTENDS Integers, FiniteSets

CONSTANTS MaxInvites, Actors, MaxTeamActs

Invites == 1 .. MaxInvites

VARIABLES
  invite,    \* team_invites: the person's, in the order they were made
  teammate,  \* team_members: whether the person is one
  service,   \* the identity service: whether the membership is active
  orgRow,    \* org_members.status
  act,       \* requests at work
  team       \* what a late write undid, and the steps spent (MaxTeamActs)

teamVars == <<invite, teammate, service, orgRow, act, team>>

NoAct == [pc |-> "idle", i |-> 0, old |-> FALSE]

TeamsInit ==
  /\ invite = [i \in Invites |-> "absent"]
  /\ teammate = FALSE
  /\ service = "none" /\ orgRow = "none"
  /\ act = [a \in Actors |-> NoAct]
  /\ team = [closed |-> {}, back |-> FALSE, orgBack |-> FALSE, off |-> FALSE, acts |-> 0]

TeamSpend(n) == team.acts + n <= MaxTeamActs

IdleActor == CHOOSE a \in Actors : act[a] = NoAct
StartAct(pc, i) ==
  /\ \E a \in Actors : act[a] = NoAct
  /\ TeamSpend(1)
  /\ act' = [act EXCEPT ![IdleActor] = [NoAct EXCEPT !.pc = pc, !.i = i]]
  /\ team' = [team EXCEPT !.acts = @ + 1]
ActOver(a) == act' = [act EXCEPT ![a] = NoAct]

----------------------------------------------------------------------------
(* The workspace *)

\* An owner's request to invite found the person no member; pending
\* invitations of the address are revoked, and a new one is made.
InviteTeammate == ~teammate /\ StartAct("revokeOld", 0) /\ UNCHANGED <<invite, teammate, service, orgRow>>

InviteRevokesOld(a) ==
  /\ act[a].pc = "revokeOld"
  /\ invite' = [i \in Invites |-> IF invite[i] = "pending" THEN "revoked" ELSE invite[i]]
  /\ act' = [act EXCEPT ![a].pc = "invite"]
  /\ UNCHANGED <<teammate, service, orgRow, team>>

CreateInvite(a) ==
  /\ act[a].pc = "invite"
  /\ \E i \in Invites : /\ invite[i] = "absent" /\ \A j \in Invites : j < i => invite[j] # "absent"
                        /\ invite' = [invite EXCEPT ![i] = "pending"]
  /\ ActOver(a)
  /\ UNCHANGED <<teammate, service, orgRow, team>>

\* An invitation is revoked whatever its state.
RevokeInvite(i) ==
  /\ invite[i] # "absent" /\ TeamSpend(1)
  /\ invite' = [invite EXCEPT ![i] = "revoked"]
  /\ act' = [a \in Actors |-> IF act[a].pc \in {"join", "accepted"} /\ act[a].i = i THEN [act[a] EXCEPT !.old = TRUE] ELSE act[a]]
  /\ team' = [team EXCEPT !.acts = @ + 1]
  /\ UNCHANGED <<teammate, service, orgRow>>

\* mutant
AcceptableAgain(i) == invite[i] \in {"pending", "accepted"}
\* The invitation is looked at; its week may be over.
Acceptable(i) == invite[i] = "pending"

AcceptInvite(i) ==
  /\ Acceptable(i)
  /\ StartAct("join", i)
  /\ UNCHANGED <<invite, teammate, service, orgRow>>

\* The member is upserted.  The token may have been withdrawn, or the person
\* removed, since it was looked at (old).
Join(a) ==
  /\ act[a].pc = "join"
  /\ teammate' = TRUE
  /\ act' = [act EXCEPT ![a].pc = "accepted"]
  /\ team' = [team EXCEPT !.back = @ \/ (~act[a].old /\ act[a].i \in team.closed)]
  /\ UNCHANGED <<invite, service, orgRow>>

\* The invitation is used up, by another transaction.
MarkAccepted(a) ==
  /\ act[a].pc = "accepted"
  /\ invite' = [invite EXCEPT ![act[a].i] = "accepted"]
  /\ ActOver(a)
  /\ UNCHANGED <<teammate, service, orgRow, team>>

\* Accepts that are under way go on (old); closed are the invitations that were
\* used up or withdrawn before.
RemoveTeammate ==
  /\ teammate /\ TeamSpend(1)
  /\ teammate' = FALSE
  /\ act' = [a \in Actors |-> IF act[a].pc = "join" THEN [act[a] EXCEPT !.old = TRUE] ELSE act[a]]
  /\ team' = [team EXCEPT !.acts = @ + 1, !.closed = {i \in Invites : invite[i] \in {"accepted", "revoked"}}]
  /\ UNCHANGED <<invite, service, orgRow>>

----------------------------------------------------------------------------
(* The organisation *)

\* An admin's invitation goes to the service, where the person accepts it.
OrgInvited ==
  /\ service # "active" /\ TeamSpend(1)
  /\ service' = "active"
  /\ team' = [team EXCEPT !.acts = @ + 1]
  /\ UNCHANGED <<invite, teammate, orgRow, act>>

\* A sign-in reads the membership of the service and upserts an active one.
OrgSignIn ==
  /\ service = "active"
  /\ StartAct("signin", 0)
  /\ UNCHANGED <<invite, teammate, service, orgRow>>

UpsertOrgMember(a) ==
  /\ act[a].pc = "signin"
  /\ orgRow' = "active"
  /\ team' = [team EXCEPT !.orgBack = @ \/ service # "active"]
  /\ ActOver(a)
  /\ UNCHANGED <<invite, teammate, service>>

\* DELETE /org/members: the service first, the row after it.
RemoveOrgMember ==
  /\ service = "active"
  /\ StartAct("remove", 0)
  /\ service' = "inactive"
  /\ UNCHANGED <<invite, teammate, orgRow>>

\* mutant
DeactivatedNot == orgRow
\* Update throws when there is no row.
Deactivated == IF orgRow = "none" THEN "none" ELSE "inactive"

DeactivateRow(a) ==
  /\ act[a].pc = "remove"
  /\ orgRow' = Deactivated
  /\ ActOver(a)
  /\ team' = [team EXCEPT !.orgBack = IF service # "active" THEN FALSE ELSE @]
  /\ UNCHANGED <<invite, teammate, service>>

\* The directory tells of its users after the fact; each event is one
\* transaction.
DirectoryUserCreated ==
  /\ TeamSpend(1) /\ orgRow # "active"
  /\ service' = "active" /\ orgRow' = "active"
  /\ team' = [team EXCEPT !.acts = @ + 1]
  /\ UNCHANGED <<invite, teammate, act>>

DirectoryUserDeleted ==
  /\ TeamSpend(1) /\ service = "active"
  /\ service' = "inactive"
  /\ orgRow' = Deactivated
  /\ team' = [team EXCEPT !.acts = @ + 1, !.orgBack = FALSE]
  /\ UNCHANGED <<invite, teammate, act>>

\* The request fails or its process ends between two of its steps.
ActorDies(a) ==
  /\ act[a].pc # "idle" /\ TeamSpend(2)
  /\ ActOver(a)
  /\ team' = [team EXCEPT !.acts = @ + 2, !.off = @ \/ act[a].pc = "remove"]
  /\ UNCHANGED <<invite, teammate, service, orgRow>>

TeamsNext ==
  \/ InviteTeammate \/ RemoveTeammate \/ OrgInvited \/ OrgSignIn \/ RemoveOrgMember
  \/ DirectoryUserCreated \/ DirectoryUserDeleted
  \/ \E i \in Invites : RevokeInvite(i) \/ AcceptInvite(i)
  \/ \E a \in Actors : \/ InviteRevokesOld(a) \/ CreateInvite(a) \/ Join(a) \/ MarkAccepted(a)
                       \/ UpsertOrgMember(a) \/ DeactivateRow(a) \/ ActorDies(a)

TeamsSpec == TeamsInit /\ [][TeamsNext]_teamVars

----------------------------------------------------------------------------
\* Who has been removed does not come back by an invitation that was used up or
\* withdrawn before: only by one still open or a new one, or by an accept that
\* was already under way.
RemovedStaysOut == ~team.back

\* When nothing is under way, a member that the service has deactivated is not
\* active here: unless the removal broke off after the service's call, or a
\* sign-in that had read the membership before it was written after it.
OrgFollowsService ==
  (\A a \in Actors : act[a] = NoAct) /\ orgRow = "active" => service = "active" \/ team.off \/ team.orgBack

\* Both, of the two kinds of membership.
MembersHold == RemovedStaysOut /\ OrgFollowsService
=============================================================================
