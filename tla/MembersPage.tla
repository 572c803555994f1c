----------------------------- MODULE MembersPage -----------------------------
(***************************************************************************)
(* Members & roles (MembersSection and the settings controller) over the   *)
(* mock's member endpoints.  Emails stand for people; an id is given to    *)
(* each invitation.  A request takes effect when it is sent; its answer    *)
(* comes later and in any order.                                           *)
(***************************************************************************)
EXTENDS Naturals, Sequences, FiniteSets, Lists

CONSTANTS Emails,        \* who can be invited
          MaxMembers,    \* bound: members ever
          MaxMemberCalls,\* bound: requests of the page
          MemberFaults,  \* of "blocked": a deletion pending refuses writes
          EarlyClicks    \* the list may still be loading when the page is used

ASSUME MembersPageAssumption ==
  /\ MaxMembers \in Nat \ {0} /\ MaxMemberCalls \in Nat /\ EarlyClicks \in BOOLEAN
  /\ MemberFaults \subseteq {"blocked"} /\ "founder" \notin Emails

VARIABLES roster,      \* the server's members, in order: [id, email, role, status]
          blocked,     \* a purge is pending
          nextMember,
          rows,        \* members shown
          invitee,     \* the email typed, none or one
          inviting,
          memberCalls, \* answers on their way
          memberSent,
          untold       \* history: refusals that no toast told

membersVars == <<roster, blocked, nextMember, rows, invitee, inviting, memberCalls,
                 memberSent, untold>>

Founder == [id |-> 1, email |-> "founder", role |-> "owner", status |-> "active"]

MembersAnswer == [op |-> "list", members |-> roster]

MembersPageInit ==
  /\ roster = <<Founder>> /\ blocked = FALSE /\ nextMember = 2
  /\ rows = <<>> /\ invitee = <<>> /\ inviting = FALSE
  /\ memberCalls = {MembersAnswer} /\ memberSent = 0 /\ untold = 0

-----------------------------------------------------------------------------
(* The endpoints                                                           *)

EmailTaken(e) == \E i \in DOMAIN roster : roster[i].email = e
Indices(id) == {i \in DOMAIN roster : roster[i].id = id}
Owners == {i \in DOMAIN roster : roster[i].role = "owner"}

RefusesInvite(e) == blocked \/ EmailTaken(e)
Invited(e, role) == [id |-> nextMember, email |-> e, role |-> role, status |-> "pending"]

\* The last owner's role stays; an owner is not removed at all.
CanSetRole(i, role) ==
  ~ blocked /\ (roster[i].role = "owner" /\ role # "owner" => Cardinality(Owners) > 1)
CanRemove(i) == ~ blocked /\ roster[i].role # "owner"

WithRole(i, role) == [roster EXCEPT ![i].role = role]
Without(list, id) == AtPlaces(list, {i \in DOMAIN list : list[i].id # id})

FirstSignIn ==
  /\ \E i \in DOMAIN roster : roster[i].status = "pending" /\
       roster' = [roster EXCEPT ![i].status = "active"]
  /\ UNCHANGED <<blocked, nextMember, rows, invitee, inviting, memberCalls, memberSent,
                 untold>>

PurgeScheduled ==
  /\ "blocked" \in MemberFaults /\ ~ blocked /\ blocked' = TRUE
  /\ UNCHANGED <<roster, nextMember, rows, invitee, inviting, memberCalls, memberSent,
                 untold>>

-----------------------------------------------------------------------------
(* The page                                                                *)

ListLanded == \A c \in memberCalls : c.op # "list"
CanSend == /\ memberSent < MaxMemberCalls /\ memberSent' = memberSent + 1
           /\ EarlyClicks \/ ListLanded

SendMember(c) == memberCalls' = memberCalls \cup {c}
Landing(c) == memberCalls' = memberCalls \ {c}

MembersLoad ==
  \E c \in {c \in memberCalls : c.op = "list"} :
    /\ Landing(c) /\ rows' = c.members
    /\ UNCHANGED <<roster, blocked, nextMember, invitee, inviting, memberSent, untold>>

TypeInvitee ==
  /\ \E e \in Emails : invitee' = <<e>> /\ invitee' # invitee
  /\ UNCHANGED <<roster, blocked, nextMember, rows, inviting, memberCalls, memberSent,
                 untold>>

Invite ==
  /\ invitee # <<>> /\ ~ inviting /\ CanSend /\ nextMember <= MaxMembers
  /\ \E role \in {"admin", "member"} :
       IF RefusesInvite(invitee[1])
       THEN SendMember([op |-> "invite", ok |-> FALSE]) /\ UNCHANGED <<roster,
                                                                       nextMember>>
       ELSE /\ roster' = Append(roster, Invited(invitee[1], role))
            /\ nextMember' = nextMember + 1
            /\ SendMember([op |-> "invite", ok |-> TRUE, member |-> Invited(invitee[1], role)])
  /\ inviting' = TRUE
  /\ UNCHANGED <<blocked, rows, invitee, untold>>

AfterInvite(c) == Append(rows, c.member)

\* The button is disabled meanwhile, the form is not: what was typed since goes.
InviteAnswered ==
  \E c \in {c \in memberCalls : c.op = "invite"} :
    /\ Landing(c) /\ inviting' = FALSE
    /\ rows' = IF c.ok THEN AfterInvite(c) ELSE rows
    /\ invitee' = IF c.ok THEN <<>> ELSE invitee
    /\ UNCHANGED <<roster, blocked, nextMember, memberSent, untold>>

\* Only the rows of other roles have a role to pick and a button to remove.
Manageable(row) == row.role # "owner"

SetRole ==
  /\ CanSend
  /\ \E r \in DOMAIN rows : \E role \in {"admin", "member"} \ {rows[r].role} :
       /\ Manageable(rows[r])
       /\ LET allowed == {i \in Indices(rows[r].id) : CanSetRole(i, role)}
          IN IF allowed = {}
             THEN SendMember([op |-> "role", ok |-> FALSE]) /\ UNCHANGED roster
             ELSE \E i \in allowed :
                    /\ roster' = WithRole(i, role)
                    /\ SendMember([op |-> "role", ok |-> TRUE, member |-> roster'[i]])
  /\ UNCHANGED <<blocked, nextMember, rows, invitee, inviting, untold>>

RemoveMember ==
  /\ CanSend
  /\ \E r \in DOMAIN rows :
       /\ Manageable(rows[r])
       /\ IF \E i \in Indices(rows[r].id) : CanRemove(i)
          THEN /\ roster' = Without(roster, rows[r].id)
               /\ SendMember([op |-> "remove", ok |-> TRUE, id |-> rows[r].id])
          ELSE SendMember([op |-> "remove", ok |-> FALSE]) /\ UNCHANGED roster
  /\ UNCHANGED <<blocked, nextMember, rows, invitee, inviting, untold>>

AfterMember(c) ==
  IF c.op = "role" THEN [i \in DOMAIN rows |-> IF rows[i].id = c.member.id THEN c.member ELSE rows[i]]
  ELSE Without(rows, c.id)

\* No one catches what is refused.
MemberAnswered ==
  \E c \in {c \in memberCalls : c.op \in {"role", "remove"}} :
    /\ Landing(c)
    /\ IF c.ok THEN rows' = AfterMember(c) /\ UNCHANGED untold
       ELSE untold' = untold + 1 /\ UNCHANGED rows
    /\ UNCHANGED <<roster, blocked, nextMember, invitee, inviting, memberSent>>

MembersPageNext ==
  \/ FirstSignIn \/ PurgeScheduled \/ MembersLoad \/ TypeInvitee \/ Invite
  \/ InviteAnswered \/ SetRole \/ RemoveMember \/ MemberAnswered

MembersPageSpec == MembersPageInit /\ [][MembersPageNext]_membersVars

-----------------------------------------------------------------------------
(* Properties                                                              *)

MembersPageTypeOK ==
  /\ nextMember \in 2..(MaxMembers + 1) /\ memberSent \in 0..MaxMemberCalls
  /\ \A i \in DOMAIN roster : roster[i].id \in 1..MaxMembers
  /\ inviting \in BOOLEAN /\ blocked \in BOOLEAN /\ untold \in 0..MaxMemberCalls
  /\ Len(invitee) <= 1

IdsOf(list) == {list[i].id : i \in DOMAIN list}

\* Once answered, the page lists every member there is, once, and nobody who
\* was removed, whatever order the answers came in (use-settings.ts:54-76).
RosterIsTrue ==
  memberCalls = {} => IdsOf(rows) = IdsOf(roster) /\ Len(rows) = Cardinality(IdsOf(rows))

\* A refused write is told (sections.tsx:416: "writes still surface
\* purge_pending through their own toasts").
\* Not kept by the code (README, "By hand").
RefusalsAreTold == untold = 0
=============================================================================
