------------------------------- MODULE Office -------------------------------
(***************************************************************************)
(* Fourteen services of the office.  They write different tables, so that  *)
(* a behaviour is one of a single service, and the variables of the others *)
(* stay None.                                                              *)
(***************************************************************************)
EXTENDS Naturals, Awaits

CONSTANTS
  VacationIds, Days, Totals, MaxCrashes,    \* of Vacations
  Users, Shifts, Swaps,                     \* of ShiftSwap
  Invites, Emails, Limits,                  \* of Invitations
  Employees, Deadlines,                     \* of Tasks
  Categories, Scores,                       \* of Evaluations
  TeamIds, People, Names,                   \* of Teams
  Duties, Titles,                           \* of ShiftSchedules
  MessageIds, Readers,                      \* of Collaboration
  ModuleIds, Plans, ModulesOf, Presets,     \* of FeatureModules
  ShareIds, RequestIds,                     \* of Calendar
  LocationIds, Staff, LocationQuota,        \* of Locations
  PaymentIds, CouponLimit, OrderTotal, Amounts   \* of Payments

VARIABLES
  area, \* the service
  torn, \* of the services whose saves are modelled in two statements
  requests, balance, crashes,                  \* of Vacations
  worker, swaps,                               \* of ShiftSwap
  invites, members, made,                      \* of Invitations
  task,                                        \* of Tasks
  cycle, evaluation, answers,                  \* of Evaluations
  teams,                                       \* of Teams
  roster, duties, exchanged,                   \* of ShiftSchedules
  handover,                                    \* of Handovers
  messages, reads, events,                     \* of Collaboration
  modules, inStep,                             \* of FeatureModules
  event, shares, shareRequests, granted, died, \* of Calendar
  contract,                                    \* of Contracts
  locations, assigned, switchedOn,             \* of Locations
  tables, payments, uses, charged, back, lost  \* of Payments

vacationsVars == <<requests, balance, crashes>>
swapsVars == <<worker, swaps>>
invitationsVars == <<invites, members, made>>
tasksVars == <<task>>
evaluationsVars == <<cycle, evaluation, answers>>
teamsVars == <<teams>>
rostersVars == <<roster, duties, exchanged>>
handoversVars == <<handover>>
messagesVars == <<messages, reads, events>>
modulesVars == <<modules, inStep>>
calendarVars == <<event, shares, shareRequests, granted, died>>
contractsVars == <<contract>>
locationsVars == <<locations, assigned, switchedOn>>
paymentsVars == <<tables, payments, uses, charged, back, lost>>
vars == <<area, pc, local, overlapped, torn,
          vacationsVars, swapsVars, invitationsVars, tasksVars,
          evaluationsVars, teamsVars, rostersVars, handoversVars,
          messagesVars, modulesVars, calendarVars, contractsVars,
          locationsVars, paymentsVars>>

Vacations == INSTANCE Vacations WITH Ids <- VacationIds
ShiftSwap == INSTANCE ShiftSwap
Invitations == INSTANCE Invitations
Tasks == INSTANCE Tasks
Evaluations == INSTANCE Evaluations
Teams == INSTANCE Teams
ShiftSchedules == INSTANCE ShiftSchedules
Handovers == INSTANCE Handovers
Collaboration == INSTANCE Collaboration
FeatureModules == INSTANCE FeatureModules
Calendar == INSTANCE Calendar
Contracts == INSTANCE Contracts
Locations == INSTANCE Locations WITH People <- Staff, Quota <- LocationQuota
Payments == INSTANCE Payments WITH Limit <- CouponLimit, Total <- OrderTotal

ASSUME OfficeAssumption ==
  /\ Vacations!DaysAssumption /\ Vacations!NoneAssumption
  /\ ShiftSwap!NoneAssumption
  /\ Invitations!LimitsAssumption /\ Invitations!NoneAssumption
  /\ Tasks!NoneAssumption
  /\ Evaluations!ScoresAssumption
  /\ Teams!NoneAssumption
  /\ Collaboration!MessagesAssumption
  /\ FeatureModules!ModulesAssumption
  /\ Calendar!CalendarAssumption
  /\ Locations!LocationsAssumption
  /\ Payments!PaymentsAssumption

\* The services whose saves are modelled in two statements.
TwoStatements == {"swaps", "evaluations", "rosters", "handovers", "messages", "contracts"}

\* The variables of the other services.
NoOthers ==
  /\ IF area \in TwoStatements THEN TRUE ELSE torn = None
  /\ IF area = "vacations" THEN TRUE ELSE
      /\ requests = None /\ balance = None /\ crashes = None
  /\ IF area = "swaps" THEN TRUE ELSE worker = None /\ swaps = None
  /\ IF area = "invitations" THEN TRUE ELSE
      /\ invites = None /\ members = None /\ made = None
  /\ IF area = "tasks" THEN TRUE ELSE task = None
  /\ IF area = "evaluations" THEN TRUE ELSE
      /\ cycle = None /\ evaluation = None /\ answers = None
  /\ IF area = "teams" THEN TRUE ELSE teams = None
  /\ IF area = "rosters" THEN TRUE ELSE
      /\ roster = None /\ duties = None /\ exchanged = None
  /\ IF area = "handovers" THEN TRUE ELSE handover = None
  /\ IF area = "messages" THEN TRUE ELSE messages = None /\ reads = None /\ events = None
  /\ IF area = "modules" THEN TRUE ELSE modules = None /\ inStep = None
  /\ IF area = "calendar" THEN TRUE ELSE
      /\ event = None /\ shares = None /\ shareRequests = None /\ granted = None
      /\ died = None
  /\ IF area = "contracts" THEN TRUE ELSE contract = None
  /\ IF area = "locations" THEN TRUE ELSE
      /\ locations = None /\ assigned = None /\ switchedOn = None
  /\ IF area = "payments" THEN TRUE ELSE
      /\ tables = None /\ payments = None /\ uses = None /\ charged = None
      /\ back = None /\ lost = None
OthersStay ==
  /\ UNCHANGED area
  /\ IF area \in TwoStatements THEN TRUE ELSE UNCHANGED torn
  /\ IF area = "vacations" THEN TRUE ELSE UNCHANGED vacationsVars
  /\ IF area = "swaps" THEN TRUE ELSE UNCHANGED swapsVars
  /\ IF area = "invitations" THEN TRUE ELSE UNCHANGED invitationsVars
  /\ IF area = "tasks" THEN TRUE ELSE UNCHANGED tasksVars
  /\ IF area = "evaluations" THEN TRUE ELSE UNCHANGED evaluationsVars
  /\ IF area = "teams" THEN TRUE ELSE UNCHANGED teamsVars
  /\ IF area = "rosters" THEN TRUE ELSE UNCHANGED rostersVars
  /\ IF area = "handovers" THEN TRUE ELSE UNCHANGED handoversVars
  /\ IF area = "messages" THEN TRUE ELSE UNCHANGED messagesVars
  /\ IF area = "modules" THEN TRUE ELSE UNCHANGED modulesVars
  /\ IF area = "calendar" THEN TRUE ELSE UNCHANGED calendarVars
  /\ IF area = "contracts" THEN TRUE ELSE UNCHANGED contractsVars
  /\ IF area = "locations" THEN TRUE ELSE UNCHANGED locationsVars
  /\ IF area = "payments" THEN TRUE ELSE UNCHANGED paymentsVars

Init ==
  \/ area = "vacations" /\ Vacations!Init /\ NoOthers
  \/ area = "swaps" /\ ShiftSwap!Init /\ NoOthers
  \/ area = "invitations" /\ Invitations!Init /\ NoOthers
  \/ area = "tasks" /\ Tasks!Init /\ NoOthers
  \/ area = "evaluations" /\ Evaluations!Init /\ NoOthers
  \/ area = "teams" /\ Teams!Init /\ NoOthers
  \/ area = "rosters" /\ ShiftSchedules!Init /\ NoOthers
  \/ area = "handovers" /\ Handovers!Init /\ NoOthers
  \/ area = "messages" /\ Collaboration!Init /\ NoOthers
  \/ area = "modules" /\ FeatureModules!Init /\ NoOthers
  \/ area = "calendar" /\ Calendar!Init /\ NoOthers
  \/ area = "contracts" /\ Contracts!Init /\ NoOthers
  \/ area = "locations" /\ Locations!Init /\ NoOthers
  \/ area = "payments" /\ Payments!Init /\ NoOthers

Next ==
  \/ area = "vacations" /\ Vacations!Next /\ OthersStay
  \/ area = "swaps" /\ ShiftSwap!Next /\ OthersStay
  \/ area = "invitations" /\ Invitations!Next /\ OthersStay
  \/ area = "tasks" /\ Tasks!Next /\ OthersStay
  \/ area = "evaluations" /\ Evaluations!Next /\ OthersStay
  \/ area = "teams" /\ Teams!Next /\ OthersStay
  \/ area = "rosters" /\ ShiftSchedules!Next /\ OthersStay
  \/ area = "handovers" /\ Handovers!Next /\ OthersStay
  \/ area = "messages" /\ Collaboration!Next /\ OthersStay
  \/ area = "modules" /\ FeatureModules!Next /\ OthersStay
  \/ area = "calendar" /\ Calendar!Next /\ OthersStay
  \/ area = "contracts" /\ Contracts!Next /\ OthersStay
  \/ area = "locations" /\ Locations!Next /\ OthersStay
  \/ area = "payments" /\ Payments!Next /\ OthersStay

Spec == Init /\ [][Next]_vars

-----------------------------------------------------------------------------
\* The types of each service, with the foreign keys of the swaps and the balance of
\* leave, which never becomes negative.
TypeOK ==
  /\ area = "vacations" => Vacations!TypeOK
  /\ area = "swaps" => ShiftSwap!TypeOK
  /\ area = "invitations" => Invitations!TypeOK
  /\ area = "tasks" => Tasks!TypeOK
  /\ area = "evaluations" => Evaluations!TypeOK
  /\ area = "teams" => Teams!TypeOK
  /\ area = "rosters" => ShiftSchedules!TypeOK
  /\ area = "handovers" => Handovers!TypeOK
  /\ area = "messages" => Collaboration!TypeOK
  /\ area = "modules" => FeatureModules!TypeOK
  /\ area = "calendar" => Calendar!TypeOK
  /\ area = "contracts" => Contracts!TypeOK
  /\ area = "locations" => Locations!TypeOK
  /\ area = "payments" => Payments!TypeOK

\* Whenever no handler is at work, used_days is the sum of the approved leaves,
\* as long as handlers come one after the other and none dies.
UsedIsApproved == area = "vacations" => Vacations!UsedIsApproved

\* However handlers interleave, what a manager is asked to approve has two
\* different parties: in a swap always, in a cover unless an UPDATE fell between the
\* two statements of another save.
ReadyForApproval == area = "swaps" => ShiftSwap!ReadyForApproval

\* Handlers that do not overlap never open two requests that offer one shift, nor
\* write two rows of one duty, also when a batch of duties was broken off, unless an
\* exchange of shifts has given the employee another's row, nor leave two requests
\* to share an event pending; whenever none is at work and none died, the approved
\* requests, and no others, have made their shares.
OfferedOnce ==
  /\ area = "swaps" => ShiftSwap!OfferedOnce
  /\ area = "rosters" => ShiftSchedules!OneDuty
  /\ area = "calendar" => Calendar!SharedOnRequest

\* However requests interleave, a link never counts more uses than it allows; as
\* long as they do not overlap, no more accounts come of it than that.  A coupon is
\* used, and locations are active, once more than allowed for each request but the
\* first, at most, unless an edit has switched a location on; and a coupon counts as
\* used exactly what was paid with it.
LimitRespected ==
  /\ area = "invitations" => Invitations!LimitRespected
  /\ area = "payments" => Payments!CouponCounted
  /\ area = "locations" => Locations!QuotaKept

\* However handlers interleave, unless an UPDATE fell between the SELECT and the
\* UPDATE of another save, the columns of a row tell one story: an evaluation has a
\* score exactly when it is submitted; a handover is complete exactly when both sides
\* have signed, also when they press twice; the text of a deleted message is masked
\* and no other is; a contract is terminated, and a roster published, exactly when it
\* has the date of it.  As long as handlers do not overlap, a score is that of its
\* answers, and nobody works at a removed location or has two primary places of work.
\* Always: a message that refers to an event has had one made for it, also when the
\* handler died; what is recorded as paid, or as paid back, Toss has charged, or paid
\* back, and whenever no handler is at work and nothing was lost, so is what Toss has.
RowsAgree ==
  /\ area = "payments" => Payments!MoneyTold
  /\ area = "locations" => Locations!OnePrimary
  /\ area = "evaluations" => Evaluations!ScoreOfAnswers
  /\ area = "handovers" => Handovers!BothSigned
  /\ area = "messages" => Collaboration!DeletedIsMasked
  /\ area = "contracts" => Contracts!TerminatedIsDated
  /\ area = "rosters" => ShiftSchedules!PublishedIsDated

\* As long as handlers do not overlap, whenever none is at work: the channel of
\* a team has the team's name and members, and no two teams have one name.
TeamsInStep == area = "teams" => Teams!TeamsInStep

\* As long as handlers do not overlap, a shift passes from one employee to
\* another only in the step that approves a request.
MovesWithApproval == [][area = "swaps" => ShiftSwap!RosterKept]_vars

\* As long as requests do not overlap, a canceled invitation makes no account
\* and changes no more, unless it is sent again.
CanceledStaysCanceled == [][area = "invitations" => Invitations!CancelKept]_vars

\* As long as handlers do not overlap: a deleted task stays deleted and a request
\* to delete it stands, whatever is edited; a report takes up no task that was
\* begun or ended; granting more time moves the deadline to what was asked; a
\* deleted message, a removed roster and a removed contract stay so, a published
\* roster is not edited, a terminated contract and an expired one are not active
\* again; and a plan leaves alone what an add-on or the owner has switched.
NothingUndone ==
  [][/\ area = "tasks" => Tasks!TaskKept
     /\ area = "messages" => Collaboration!MessageKept
     /\ area = "rosters" => ShiftSchedules!RosterKept
     /\ area = "modules" => FeatureModules!OthersKept
     /\ area = "contracts" => Contracts!ContractKept]_vars

\* What was decided stands, as long as handlers do not overlap: a leave or an
\* exchange of shifts is decided once, only a cancellation follows; a submitted
\* evaluation, and a closed cycle, change no more; who was removed from a team
\* does not lead it; a signed or disputed handover is over; a payment is paid back
\* once, unless something was lost; and a request to share an event is decided once,
\* and a revoked share stays so, also when handlers do overlap.
DecidedOnce ==
  [][/\ area = "payments" => Payments!RefundStands
     /\ area = "vacations" => Vacations!DecisionKept
     /\ area = "swaps" => ShiftSwap!DecisionKept
     /\ area = "evaluations" => Evaluations!ScoreStands
     /\ area = "teams" => Teams!LeaderIsMember
     /\ area = "handovers" => Handovers!AnswerKept
     /\ area = "calendar" => Calendar!ShareKept]_vars
=============================================================================
