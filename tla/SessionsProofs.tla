--------------------------- MODULE SessionsProofs ---------------------------
(* Ended sessions stay ended, for any number of browsers, tabs and requests. *)
EXTENDS Sessions, TLAPS

\* The rows the argument is about; which tokens there are does not matter.
AccountType(S) == [status : {"active", "inactive"}, session : S, refresh : BOOLEAN]
RefreshType(S) == [at : RefreshSteps, token : S, live : BOOLEAN, late : BOOLEAN]
Types(S) == account \in AccountType(S) /\ refresh \in [Tabs -> RefreshType(S)]

\* A refresh at the server either works for an account that can be refreshed, or
\* has read the row before the sessions were ended.
RefreshIsKnown ==
  \A t \in Tabs : refresh[t].at = "working" => account.refresh \/ refresh[t].late

IInv == RefreshIsKnown /\ \E S : Types(S)

LEMMA InitIInv == Init => IInv
<1> SUFFICES ASSUME Init PROVE IInv
  OBVIOUS
<1>1. \E S : Types(S)
  <2>1. \E S : account \in AccountType(S)
    <3>1. CASE account = [status |-> "active", session |-> None, refresh |-> FALSE]
      <4>1. account \in AccountType({None})
        BY <3>1 DEF AccountType
      <4>2. QED
        BY <4>1
    <3>2. CASE \E known \in BOOLEAN : account = [status |-> "active",
                 session |-> IF known THEN 1 ELSE None, refresh |-> known]
      <4>1. PICK known \in BOOLEAN : account = [status |-> "active",
                 session |-> IF known THEN 1 ELSE None, refresh |-> known]
        BY <3>2
      <4>2. PICK session : session = IF known THEN 1 ELSE None
        OBVIOUS
      <4>3. account \in AccountType({session})
        BY <4>1, <4>2 DEF AccountType
      <4>4. QED
        BY <4>3
    <3>3. QED
      BY <3>1, <3>2, Zenon DEF Init
  <2>2. PICK S : account \in AccountType(S)
    BY <2>1
  <2>3. Types(S \cup {None})
    BY <2>2 DEF Init, Types, AccountType, NoRefresh, RefreshType, RefreshSteps
  <2>4. QED
    BY <2>3
<1>2. RefreshIsKnown
  BY DEF Init, NoRefresh, RefreshIsKnown
<1>3. QED
  BY <1>1, <1>2, Zenon DEF IInv

\* What starts a session leaves the account one that can be refreshed.
LEMMA IssueStep ==
  ASSUME NEW S, account \in AccountType(S), NEW b, Issue(b), NEW s, s = issued + 1
  PROVE  account' \in AccountType(S \cup {s}) /\ account'.refresh
  BY DEF AccountType, Issue

\* What ends the sessions marks the refreshes that have read the row.
LEMMA RevokeStep ==
  ASSUME NEW S, Types(S), NEW row \in AccountType(S), Revoke(row)
  PROVE  IInv'
<1>1. refresh' \in [Tabs -> RefreshType(S)]
  BY DEF Revoke, Types, RefreshType
<1>2. \A t \in Tabs : refresh'[t].at = "working" => refresh'[t].late
  BY DEF Revoke, Types, RefreshType
<1>3. Types(S)'
  BY <1>1 DEF Types, Revoke
<1>4. QED
  BY <1>2, <1>3, Zenon DEF IInv, RefreshIsKnown

\* A step that changes neither.
LEMMA IdleStep ==
  ASSUME IInv, account' = account, refresh' = refresh
  PROVE  IInv'
<1>1. PICK S : Types(S)
  BY DEF IInv
<1>2. Types(S)'
  BY <1>1 DEF Types
<1>3. RefreshIsKnown'
  BY DEF IInv, RefreshIsKnown
<1>4. QED
  BY <1>2, <1>3, Zenon DEF IInv

\* The steps of the requests.
LEMMA CallStepIInv ==
  ASSUME IInv, NEW c \in Calls,
         CallStep(c) \/ GiveUp(c) \/ \E kind \in Kinds : Call(c, kind)
  PROVE  IInv'
<1>0. PICK S : Types(S)
  BY DEF IInv
<1>t. TabOf[c] \in Tabs
  BY TabOfAssumption
<1>1. CASE Receive(c)
  BY <1>1, IdleStep DEF Receive, server
<1>2. CASE Serve(c)
  <2>1. CASE UNCHANGED <<server, refresh>>
    BY <2>1, IdleStep DEF server
  <2>2. CASE Revoke([account EXCEPT !.session = None, !.refresh = FALSE])
    <3>1. [account EXCEPT !.session = None, !.refresh = FALSE] \in AccountType(S \cup {None})
      BY <1>0 DEF Types, AccountType
    <3>2. Types(S \cup {None})
      BY <1>0 DEF Types, AccountType, RefreshType
    <3>3. QED
      BY <2>2, <3>1, <3>2, RevokeStep
  <2>3. CASE Revoke([account EXCEPT !.refresh = FALSE])
    <3>1. [account EXCEPT !.refresh = FALSE] \in AccountType(S)
      BY <1>0 DEF Types, AccountType
    <3>2. QED
      BY <1>0, <2>3, <3>1, RevokeStep
  <2>4. CASE Issue(browser[TabOf[c]]) /\ UNCHANGED refresh
    <3>1. PICK s : s = issued + 1
      OBVIOUS
    <3>2. account' \in AccountType(S \cup {s}) /\ account'.refresh
      BY <1>0, <2>4, <3>1, IssueStep DEF Types
    <3> HIDE <3>1
    <3>3. Types(S \cup {s})'
      BY <1>0, <2>4, <3>2 DEF Types, RefreshType
    <3>4. QED
      BY <3>2, <3>3, Zenon DEF IInv, RefreshIsKnown
  <2>5. QED
    BY <1>2, <2>1, <2>2, <2>3, <2>4 DEF Serve
<1>3. CASE Resolve(c)
  <2>1. UNCHANGED <<server, refresh>>
    BY <1>3, Zenon DEF Resolve
  <2>2. QED
    BY <2>1, IdleStep DEF server
<1>4. CASE RejectRetried(c)
  BY <1>4, IdleStep DEF RejectRetried, server
<1>5. CASE Park(c)
  BY <1>5, IdleStep DEF Park, server
<1>6. CASE StartRefresh(c)
  <2>0. PICK token : token = Stored(TabOf[c]).refresh
    OBVIOUS
  <2>1. account' = account
    BY <1>6 DEF StartRefresh, server
  <2>2. CASE UNCHANGED refresh
    BY <2>1, <2>2, IdleStep
  <2>3. CASE refresh' = [refresh EXCEPT ![TabOf[c]] = [NoRefresh EXCEPT !.at = "sent",
                                                                        !.token = token]]
    <3>1. Types(S \cup {token})'
      <4>1. [NoRefresh EXCEPT !.at = "sent", !.token = token] \in RefreshType(S \cup {token})
        BY DEF RefreshType, RefreshSteps, NoRefresh
      <4>2. refresh \in [Tabs -> RefreshType(S \cup {token})]
        BY <1>0 DEF Types, RefreshType
      <4>3. account \in AccountType(S \cup {token})
        BY <1>0 DEF Types, AccountType
      <4>4. refresh' \in [Tabs -> RefreshType(S \cup {token})]
        BY <1>t, <2>3, <4>1, <4>2
      <4>5. QED
        BY <2>1, <4>3, <4>4, Zenon DEF Types
    <3>2. RefreshIsKnown'
      BY <1>0, <1>t, <2>1, <2>3 DEF IInv, RefreshIsKnown, Types, RefreshType, NoRefresh
    <3>3. QED
      BY <3>1, <3>2, Zenon DEF IInv
  <2>4. QED
    BY <1>6, <2>0, <2>2, <2>3 DEF StartRefresh
<1>7. CASE GiveUp(c)
  BY <1>7, IdleStep DEF GiveUp, server
<1>8. CASE \E kind \in Kinds : Call(c, kind)
  BY <1>8, IdleStep DEF Call, server
<1>9. QED
  BY <1>1, <1>2, <1>3, <1>4, <1>5, <1>6, <1>7, <1>8 DEF CallStep

\* The steps of the tabs and of their refreshes.
LEMMA TabStepIInv ==
  ASSUME IInv, NEW t \in Tabs, TabStep(t) \/ RefreshFailed(t) \/ Enter(t)
  PROVE  IInv'
<1>0. PICK S : Types(S)
  BY DEF IInv
<1>1. CASE ReceiveRefresh(t)
  <2> DEFINE answer == IF Refreshable(refresh[t].token) THEN "working" ELSE "unauthorized"
  <2>1. refresh' = [refresh EXCEPT ![t].at = answer] /\ account' = account
    BY <1>1 DEF ReceiveRefresh, server
  <2>2. answer \in RefreshSteps /\ (answer = "working" => account.refresh)
    BY DEF Refreshable, RefreshSteps
  <2> HIDE DEF answer
  <2>3. Types(S)'
    BY <1>0, <2>1, <2>2 DEF Types, RefreshType
  <2>4. RefreshIsKnown'
    BY <1>0, <2>1, <2>2 DEF IInv, RefreshIsKnown, Types, RefreshType
  <2>5. QED
    BY <2>3, <2>4, Zenon DEF IInv
<1>2. CASE ServeRefresh(t)
  <2>0. PICK s : s = issued + 1
    OBVIOUS
  <2>1. account' \in AccountType(S \cup {s}) /\ account'.refresh
    BY <1>0, <1>2, <2>0, IssueStep DEF ServeRefresh, Types
  <2>2. issued' = s
    BY <1>2, <2>0 DEF ServeRefresh, Issue
  <2>3. refresh' \in [Tabs -> RefreshType(S \cup {s, None})]
    <3>1. CASE refresh' = [refresh EXCEPT ![t].at = "ok", ![t].token = s]
      BY <1>0, <3>1 DEF Types, RefreshType, RefreshSteps
    <3>2. CASE refresh' = [refresh EXCEPT ![t] = NoRefresh]
      BY <1>0, <3>2 DEF Types, RefreshType, RefreshSteps, NoRefresh
    <3>3. QED
      BY <1>2, <2>2, <3>1, <3>2 DEF ServeRefresh
  <2> HIDE <2>0, <2>2
  <2>4. Types(S \cup {s, None})'
    BY <2>1, <2>3 DEF Types, AccountType
  <2>5. QED
    BY <2>1, <2>4, Zenon DEF IInv, RefreshIsKnown
<1>3. CASE Refreshed(t) \/ RefreshFailed(t) \/ Unload(t)
  <2>1. account' = account
    BY <1>3 DEF Refreshed, RefreshFailed, Unload, server
  <2>2. CASE refresh' = [refresh EXCEPT ![t].live = FALSE]
    <3>1. Types(S)'
      BY <1>0, <2>1, <2>2 DEF Types, RefreshType
    <3>2. RefreshIsKnown'
      BY <1>0, <2>1, <2>2 DEF IInv, RefreshIsKnown, Types, RefreshType
    <3>3. QED
      BY <3>1, <3>2, Zenon DEF IInv
  <2>3. CASE refresh' = [refresh EXCEPT ![t] = NoRefresh]
    <3>1. Types(S \cup {None})'
      BY <1>0, <2>1, <2>3 DEF Types, AccountType, RefreshType, RefreshSteps, NoRefresh
    <3>2. RefreshIsKnown'
      BY <1>0, <2>1, <2>3 DEF IInv, RefreshIsKnown, Types, RefreshType, NoRefresh
    <3>3. QED
      BY <3>1, <3>2, Zenon DEF IInv
  <2>4. QED
    BY <1>3, <2>2, <2>3 DEF Refreshed, RefreshFailed, Unload
<1>4. CASE Enter(t)
  BY <1>4, IdleStep DEF Enter, server
<1>5. QED
  BY <1>1, <1>2, <1>3, <1>4 DEF TabStep

LEMMA NextIInv == IInv /\ [Next]_vars => IInv'
<1> SUFFICES ASSUME IInv, [Next]_vars PROVE IInv'
  OBVIOUS
<1>1. CASE \E c \in Calls : CallStep(c) \/ GiveUp(c) \/ \E kind \in Kinds : Call(c, kind)
  BY <1>1, CallStepIInv
<1>2. CASE \E t \in Tabs : TabStep(t) \/ RefreshFailed(t) \/ Enter(t)
  BY <1>2, TabStepIInv
<1>3. CASE \E s \in Sessions : Expire(s)
  BY <1>3, IdleStep DEF Expire, server
<1>4. CASE EndSessions
  <2>1. PICK S : Types(S)
    BY DEF IInv
  <2>2. PICK status \in {account.status, "inactive"} :
          Revoke([account EXCEPT !.status = status, !.refresh = FALSE])
    BY <1>4 DEF EndSessions
  <2>3. [account EXCEPT !.status = status, !.refresh = FALSE] \in AccountType(S)
    BY <2>1 DEF Types, AccountType
  <2>4. QED
    BY <2>1, <2>2, <2>3, RevokeStep
<1>5. CASE UNCHANGED vars
  BY <1>5, IdleStep DEF vars
<1>6. QED
  BY <1>1, <1>2, <1>3, <1>4, <1>5 DEF Next

\* A step after which the account can be refreshed, and could not before, is a
\* login's, or a refresh's that had read the row before the sessions were ended.
LEMMA StartedByLogin ==
  ASSUME IInv, [Next]_vars, ~account.refresh, account'.refresh
  PROVE  \/ \E c \in Calls : call[c].kind = "login" /\ call[c].at = "working"
         \/ \E t \in Tabs : refresh[t].late
<1>0. PICK S : account \in AccountType(S)
  BY DEF IInv, Types
<1>1. ASSUME NEW c \in Calls, CallStep(c) \/ GiveUp(c) \/ \E kind \in Kinds : Call(c, kind)
      PROVE  call[c].kind = "login" /\ call[c].at = "working"
  <2>1. CASE Serve(c)
    <3>1. account' = account => FALSE
      OBVIOUS
    <3>2. ~[account EXCEPT !.session = None, !.refresh = FALSE].refresh
      BY <1>0 DEF AccountType
    <3>3. ~[account EXCEPT !.refresh = FALSE].refresh
      BY <1>0 DEF AccountType
    <3>4. QED
      BY <2>1, <3>1, <3>2, <3>3 DEF Serve, Revoke, server
  <2>2. CASE Resolve(c)
    BY <2>2, Zenon DEF Resolve, server
  <2>3. CASE \/ Receive(c) \/ RejectRetried(c) \/ Park(c) \/ StartRefresh(c)
             \/ GiveUp(c) \/ \E kind \in Kinds : Call(c, kind)
    BY <2>3 DEF Receive, RejectRetried, Park, StartRefresh, GiveUp, Call, server
  <2>4. QED
    BY <1>1, <2>1, <2>2, <2>3 DEF CallStep
<1>2. ASSUME NEW t \in Tabs, TabStep(t) \/ RefreshFailed(t) \/ Enter(t)
      PROVE  refresh[t].late
  <2>1. CASE ServeRefresh(t)
    BY <2>1 DEF ServeRefresh, IInv, RefreshIsKnown
  <2>2. CASE ReceiveRefresh(t) \/ Refreshed(t) \/ Unload(t) \/ RefreshFailed(t) \/ Enter(t)
    BY <2>2 DEF ReceiveRefresh, Refreshed, Unload, RefreshFailed, Enter, server
  <2>3. QED
    BY <1>2, <2>1, <2>2 DEF TabStep
<1>3. ~ \E s \in Sessions : Expire(s)
  BY DEF Expire, server
<1>4. ~EndSessions
  <2>1. ASSUME NEW status PROVE ~[account EXCEPT !.status = status, !.refresh = FALSE].refresh
    BY <1>0 DEF AccountType
  <2>2. QED
    BY <2>1 DEF EndSessions, Revoke
<1>5. ~UNCHANGED vars
  BY DEF vars
<1>6. QED
  BY <1>1, <1>2, <1>3, <1>4, <1>5 DEF Next

\* However browsers, tabs and requests interleave, and however answers are lost
\* or late: after a logout, a new password or a deactivation only a login starts
\* a session, or a refresh that was already past its checks.
THEOREM SessionsStayEnded == Spec => EndedStaysEnded
<1>1. Spec => []IInv
  BY InitIInv, NextIInv, PTL DEF Spec
<1>2. IInv /\ [Next]_vars =>
        [~account.refresh /\ account'.refresh =>
           \/ \E c \in Calls : call[c].kind = "login" /\ call[c].at = "working"
           \/ \E t \in Tabs : refresh[t].late]_vars
  BY StartedByLogin
<1>3. QED
  BY <1>1, <1>2, PTL DEF Spec, EndedStaysEnded
=============================================================================
