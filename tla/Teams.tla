------------------------------- MODULE Teams -------------------------------
(***************************************************************************)
(* Teams, their members and leader, and the channel that every team has    *)
(* (teams.service.ts).  A handler reads the team and makes its checks      *)
(* first.  Creating, deleting, adding and removing then write in one       *)
(* transaction, one step here although READ COMMITTED lets others in       *)
(* between its statements: nothing is claimed of overlapping ones.         *)
(* updateTeam saves the entity it read, deleted_at included.               *)
(***************************************************************************)
EXTENDS Awaits

CONSTANTS
  TeamIds,
  People,
  Names

NoneAssumption == None \notin People

VARIABLE teams \* rows of teams, with those of team_members, channels, channel_members

vars == <<teams, pc, local, overlapped>>

\* members and audience are the rows of the team and of its channel; title is
\* the name of the channel.
Statuses == {"none", "active", "deleted"}
Rows == [status : Statuses, name : OrNone(Names), leader : OrNone(People),
         members : SUBSET People, audience : SUBSET People, title : OrNone(Names), open : BOOLEAN]
NoTeam == [status |-> "none", name |-> None, leader |-> None, members |-> {}, audience |-> {},
           title |-> None, open |-> FALSE]

Steps == {"idle", "creating", "updating", "renaming", "titling", "deleting", "adding", "dismissing",
          "removing", "appointing"}

\* team: what was read, or will be created; person: whom the request is about.
NoLocal == [id |-> None, team |-> NoTeam, person |-> None]

Init ==
  /\ teams = [m \in TeamIds |-> NoTeam]
  /\ AllIdle(NoLocal)

Return(h) == Goto(h, "idle") /\ Hold(h, NoLocal)

\* No team that is not deleted has the name.
Free(n) == \A m \in TeamIds : teams[m].status = "active" => teams[m].name # n

\* getTeam, and the checks of the handler, which is then suspended.
Find(h, m, row, p, step) ==
  /\ pc[h] = "idle"
  /\ teams[m].status = "active"
  /\ Goto(h, step)
  /\ Hold(h, [id |-> m, team |-> row, person |-> p])
  /\ UNCHANGED teams

Write(h, row) == teams' = [teams EXCEPT ![local[h].id] = row]

-----------------------------------------------------------------------------
\* createTeam.  The creator is a member; a leader need not be one.
CreateTeam(h, m, n, people, leader) ==
  /\ pc[h] = "idle"
  /\ teams[m].status = "none"
  /\ \A g \in Handlers : local[g].id # m \* ids are fresh
  /\ people # {}
  /\ Free(n)
  /\ Goto(h, "creating")
  /\ Hold(h, [id |-> m, person |-> None, team |->
       [status |-> "active", name |-> n, leader |-> leader, members |-> people,
        audience |-> people, title |-> n, open |-> TRUE]])
  /\ UNCHANGED teams
CreateCommit(h) ==
  /\ pc[h] = "creating"
  /\ Write(h, local[h].team)
  /\ Return(h)

\* updateTeam: the name must be free if it changes; description and colour are
\* not modelled.
UpdateTeam(h, m, n) ==
  /\ n \notin {None, teams[m].name} => Free(n)
  /\ Find(h, m, [teams[m] EXCEPT !.name = IF n = None THEN @ ELSE n], None,
          IF n = None THEN "updating" ELSE "renaming")
UpdateSave(h) ==
  LET row == teams[local[h].id] read == local[h].team IN
  /\ pc[h] \in {"updating", "renaming"}
  /\ Write(h, [row EXCEPT !.status = "active", !.name = read.name, !.leader = read.leader])
  /\ IF pc[h] = "updating" THEN Return(h)
     ELSE Goto(h, "titling") /\ UNCHANGED local
\* The name of the channel, by its id.
UpdateChannel(h) ==
  /\ pc[h] = "titling"
  /\ Write(h, [teams[local[h].id] EXCEPT !.title = local[h].team.name])
  /\ Return(h)

DeleteTeam(h, m) == Find(h, m, NoTeam, None, "deleting")
DeleteCommit(h) ==
  /\ pc[h] = "deleting"
  /\ Write(h, [teams[local[h].id] EXCEPT !.open = FALSE, !.members = {}, !.status = "deleted"])
  /\ Return(h)

AddTeamMember(h, m, p) == p \notin teams[m].members /\ Find(h, m, NoTeam, p, "adding")
\* Mutant: the channel is forgotten.
AddToTeam(h) ==
  /\ pc[h] = "adding"
  /\ Write(h, [teams[local[h].id] EXCEPT !.members = @ \cup {local[h].person}])
  /\ Return(h)
AddCommit(h) ==
  /\ pc[h] = "adding"
  /\ Write(h, [teams[local[h].id] EXCEPT !.members = @ \cup {local[h].person},
                                         !.audience = @ \cup {local[h].person}])
  /\ Return(h)

\* removeTeamMember.  A leader is dismissed first, in a statement of its own.
RemoveTeamMember(h, m, p) ==
  /\ p \in teams[m].members
  /\ Find(h, m, NoTeam, p, IF teams[m].leader = p THEN "dismissing" ELSE "removing")
Dismiss(h) ==
  /\ pc[h] = "dismissing"
  /\ Write(h, [teams[local[h].id] EXCEPT !.leader = None])
  /\ Goto(h, "removing")
  /\ UNCHANGED local
RemoveCommit(h) ==
  /\ pc[h] = "removing"
  /\ Write(h, [teams[local[h].id] EXCEPT !.members = @ \ {local[h].person},
                                         !.audience = @ \ {local[h].person}])
  /\ Return(h)

SetTeamLeader(h, m, p) == p \in teams[m].members /\ Find(h, m, NoTeam, p, "appointing")
SetTeamLeaderUpdate(h) ==
  /\ pc[h] = "appointing"
  /\ Write(h, [teams[local[h].id] EXCEPT !.leader = local[h].person])
  /\ Return(h)

-----------------------------------------------------------------------------
HandlerStep(h) ==
  \/ \E m \in TeamIds :
       \/ \E n \in Names, people \in SUBSET People, p \in OrNone(People) :
            CreateTeam(h, m, n, people, p)
       \/ (\E n \in OrNone(Names) : UpdateTeam(h, m, n)) \/ DeleteTeam(h, m)
       \/ \E p \in People :
            AddTeamMember(h, m, p) \/ RemoveTeamMember(h, m, p) \/ SetTeamLeader(h, m, p)
  \/ CreateCommit(h) \/ UpdateSave(h) \/ UpdateChannel(h) \/ DeleteCommit(h)
  \/ AddCommit(h) \/ Dismiss(h) \/ RemoveCommit(h) \/ SetTeamLeaderUpdate(h)

Next == \E h \in Handlers : HandlerStep(h) /\ Overlap(h)

Spec == Init /\ [][Next]_vars

-----------------------------------------------------------------------------
TypeOK ==
  /\ teams \in [TeamIds -> Rows]
  /\ pc \in [Handlers -> Steps]
  /\ local \in [Handlers -> [id : OrNone(TeamIds), team : Rows, person : OrNone(People)]]
  /\ overlapped \in BOOLEAN

\* As long as handlers do not overlap, whenever none is at work: the channel of
\* a team has the team's name and members, and no two teams have one name.
TeamsInStep ==
  Quiet /\ ~overlapped =>
    \A m \in TeamIds : teams[m].status = "active" =>
      /\ teams[m].open /\ teams[m].title = teams[m].name
      /\ teams[m].audience = teams[m].members
      /\ \A o \in TeamIds \ {m} : teams[o].status = "active" => teams[o].name # teams[m].name

\* As long as handlers do not overlap, who becomes leader of a team is a member,
\* and a leader who is removed from the team no longer leads it.
LeaderIsMember ==
  ~overlapped' =>
    \A m \in TeamIds : teams[m].status = "active" /\ teams'[m].status = "active" =>
      /\ teams'[m].leader # teams[m].leader => teams'[m].leader \in OrNone(teams'[m].members)
      /\ teams'[m].leader \in teams[m].members => teams'[m].leader \in teams'[m].members
=============================================================================
