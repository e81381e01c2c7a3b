------------------------------ MODULE Recovery ------------------------------
(***************************************************************************)
(* A user who has forgotten the password (auth.service.ts): a link by mail *)
(* (forgotPassword), or a code by SMS that is exchanged for a link         *)
(* (sendPhoneOtp, verifyPhoneOtp), and the link sets the password once     *)
(* (resetPassword).  Links and codes are rows; no two statements here are  *)
(* one transaction, and those of a Promise.all are done in either order.   *)
(***************************************************************************)
EXTENDS Naturals, Awaits

CONSTANTS
  LinkIds, \* password_reset_tokens.id
  CodeIds  \* phone_otps.id

RecoveryAssumption == None \notin LinkIds \cup CodeIds

VARIABLES
  links,   \* rows of password_reset_tokens of the user
  codes,   \* rows of phone_otps of the user
  resets,  \* how often each link has set the password (history)
  broken   \* a handler died between two awaits (history)

vars == <<links, codes, resets, broken, pc, local, overlapped>>

Statuses == {"none", "open", "used", "lapsed"} \* lapsed: expires_at is past
Steps == {"idle", "asking", "mailing", "texting", "sending", "hashing", "setting", "marking",
          "exchanging", "pairing", "linking", "confirming"}

Init ==
  /\ links = [l \in LinkIds |-> "none"]
  /\ codes = [c \in CodeIds |-> "none"]
  /\ resets = [l \in LinkIds |-> 0]
  /\ broken = FALSE
  /\ AllIdle(None)

Return(h) == Goto(h, "idle") /\ Hold(h, None)
Begin(h, step, id) ==
  /\ pc[h] = "idle"
  /\ Goto(h, step) /\ Hold(h, id)
  /\ UNCHANGED <<links, codes, resets, broken>>

\* Rows with used_at NULL; a lapsed one is marked too, which nobody sees.
AllUsed(rows) == [i \in DOMAIN rows |-> IF rows[i] = "open" THEN "used" ELSE rows[i]]

NewLink == \E l \in LinkIds : links[l] = "none" /\ links' = [links EXCEPT ![l] = "open"]
MarkUsed(l) == links' = [links EXCEPT ![l] = "used"]
\* Bound: more often than twice counts as twice.
SetPassword(l) == resets' = [resets EXCEPT ![l] = IF @ = 2 THEN 2 ELSE @ + 1]

-----------------------------------------------------------------------------
\* forgotPassword: the open links are used up, then one is saved and mailed.
ForgotPassword(h) == Begin(h, "asking", None)
RevokeLinks(h) ==
  /\ pc[h] = "asking"
  /\ links' = AllUsed(links)
  /\ Goto(h, "mailing")
  /\ UNCHANGED <<codes, resets, broken, local>>
SaveLink(h) ==
  /\ pc[h] = "mailing"
  /\ NewLink
  /\ Return(h)
  /\ UNCHANGED <<codes, resets, broken>>

\* resetPassword; a link that is used or lapsed is refused.
ResetPassword(h, l) == links[l] = "open" /\ Begin(h, "hashing", l)
\* Mutant: the link is left as it is.
OnlySet(h) == pc[h] = "hashing" /\ SetPassword(local[h]) /\ Return(h) /\ UNCHANGED <<links, codes, broken>>
UpdateBoth(h) ==
  /\ \/ pc[h] = "hashing" /\ SetPassword(local[h]) /\ Goto(h, "marking") /\ UNCHANGED <<links, local>>
     \/ pc[h] = "hashing" /\ MarkUsed(local[h]) /\ Goto(h, "setting") /\ UNCHANGED <<resets, local>>
     \/ pc[h] = "marking" /\ MarkUsed(local[h]) /\ Return(h) /\ UNCHANGED resets
     \/ pc[h] = "setting" /\ SetPassword(local[h]) /\ Return(h) /\ UNCHANGED links
  /\ UNCHANGED <<codes, broken>>

\* sendPhoneOtp.
SendOtp(h) == Begin(h, "texting", None)
RevokeCodes(h) ==
  /\ pc[h] = "texting"
  /\ codes' = AllUsed(codes)
  /\ Goto(h, "sending")
  /\ UNCHANGED <<links, resets, broken, local>>
SaveCode(h) ==
  /\ pc[h] = "sending"
  /\ \E c \in CodeIds : codes[c] = "none" /\ codes' = [codes EXCEPT ![c] = "open"]
  /\ Return(h)
  /\ UNCHANGED <<links, resets, broken>>

\* verifyPhoneOtp.
VerifyOtp(h, c) == codes[c] = "open" /\ Begin(h, "exchanging", c)
RevokeOldLinks(h) ==
  /\ pc[h] = "exchanging"
  /\ links' = AllUsed(links)
  /\ Goto(h, "pairing")
  /\ UNCHANGED <<codes, resets, broken, local>>
Exchange(h) ==
  LET Confirm == codes' = [codes EXCEPT ![local[h]] = "used"] IN
  /\ \/ pc[h] = "pairing" /\ NewLink /\ Goto(h, "confirming") /\ UNCHANGED <<codes, local>>
     \/ pc[h] = "pairing" /\ Confirm /\ Goto(h, "linking") /\ UNCHANGED <<links, local>>
     \/ pc[h] = "confirming" /\ Confirm /\ Return(h) /\ UNCHANGED links
     \/ pc[h] = "linking" /\ NewLink /\ Return(h) /\ UNCHANGED codes
  /\ UNCHANGED <<resets, broken>>

\* An hour, or 15 minutes; 5 minutes for a code.
Lapse ==
  /\ \/ \E l \in LinkIds : links[l] = "open" /\ links' = [links EXCEPT ![l] = "lapsed"] /\ UNCHANGED codes
     \/ \E c \in CodeIds : codes[c] = "open" /\ codes' = [codes EXCEPT ![c] = "lapsed"] /\ UNCHANGED links
  /\ UNCHANGED <<resets, broken, pc, local, overlapped>>

\* The process dies between two awaits.
Crash(h) ==
  /\ InFlight(h)
  /\ broken' = TRUE
  /\ Return(h)
  /\ UNCHANGED <<links, codes, resets>>

HandlerStep(h) ==
  \/ ForgotPassword(h) \/ RevokeLinks(h) \/ SaveLink(h)
  \/ \E l \in LinkIds : ResetPassword(h, l)
  \/ UpdateBoth(h)
  \/ SendOtp(h) \/ RevokeCodes(h) \/ SaveCode(h)
  \/ \E c \in CodeIds : VerifyOtp(h, c)
  \/ RevokeOldLinks(h) \/ Exchange(h) \/ Crash(h)

Next == (\E h \in Handlers : HandlerStep(h) /\ Overlap(h)) \/ Lapse

Spec == Init /\ [][Next]_vars

-----------------------------------------------------------------------------
TypeOK ==
  /\ links \in [LinkIds -> Statuses]
  /\ codes \in [CodeIds -> Statuses]
  /\ resets \in [LinkIds -> 0 .. 2]
  /\ broken \in BOOLEAN
  /\ pc \in [Handlers -> Steps]
  /\ local \in [Handlers -> OrNone(LinkIds \cup CodeIds)]
  /\ overlapped \in BOOLEAN

\* As long as handlers do not overlap: the last link and the last code are the only
\* ones that can be used, also when a handler died after using up those before; and
\* when none died, a link that has set the password does so no more.
LastLinkOnly == ~overlapped =>
  /\ \A k, l \in LinkIds : links[k] = "open" /\ links[l] = "open" => k = l
  /\ \A c, d \in CodeIds : codes[c] = "open" /\ codes[d] = "open" => c = d
  /\ ~broken => \A l \in LinkIds : resets[l] <= 1 /\ (Quiet /\ resets[l] = 1 => links[l] # "open")
=============================================================================
