----------------------------- MODULE ConsentGate -----------------------------
(***************************************************************************)
(* The consent to a version of the policies.  /deploy and /admin send an   *)
(* account that has not accepted the present version to /consent, which    *)
(* brings it back.  Each tab goes by the answer of GET /auth/me it holds,  *)
(* read when a page is loaded or shown and when the network is back; a new *)
(* backend may bring a new version at any time.  The sign-in that comes    *)
(* before is SignInCookies; the two share no variable.                     *)
(***************************************************************************)
EXTENDS Naturals, SignInCookies

CONSTANTS
  ConsentTabs,
  MaxPolicies   \* bound: versions of the policies

ASSUME ConsentAssumption == MaxPolicies \in Nat \ {0}

VARIABLES
  current,     \* CURRENT_POLICY_VERSION
  accepted,    \* policy_version of the account, 0 for none
  signedIn,    \* the browser's session
  view,        \* view[t]: what a tab shows and waits for
  acceptances  \* history: versions recorded, beside what was on the screen when agreed

consentVars == <<current, accepted, signedIn, view, acceptances>>

-----------------------------------------------------------------------------
Gated == {"deploy", "admin"}
Policies == 1..MaxPolicies

\* What a tab holds of the account: nothing yet, no account, or a version and whether it
\* is still to be accepted.
Mes == {[state |-> s, version |-> 0] : s \in {"loading", "none"}}
         \cup [state : {"asked", "past"}, version : Policies]
Loading == [state |-> "loading", version |-> 0]
NoAccount == [state |-> "none", version |-> 0]

Closed == [at |-> "closed", next |-> "deploy", me |-> Loading, checked |-> FALSE,
           sent |-> 0, answered |-> FALSE]

ConsentTypeOK ==
  /\ current \in Policies /\ accepted \in 0..MaxPolicies /\ signedIn \in BOOLEAN
  /\ view \in [ConsentTabs -> [at : Gated \cup {"closed", "consent"}, next : Gated,
                  me : Mes, checked : BOOLEAN, sent : 0..MaxPolicies, answered : BOOLEAN]]
  /\ acceptances \subseteq [recorded : Policies, shown : Policies]

ConsentInit ==
  /\ current = 1 /\ accepted = 0 /\ signedIn = TRUE
  /\ view = [t \in ConsentTabs |-> Closed] /\ acceptances = {}

-----------------------------------------------------------------------------
(* The backend                                                             *)

PolicyChanges ==
  /\ current < MaxPolicies /\ current' = current + 1
  /\ UNCHANGED <<accepted, signedIn, view, acceptances>>

SessionComesOrGoes ==
  /\ signedIn' = ~signedIn
  /\ UNCHANGED <<current, accepted, view, acceptances>>

\* getMe.
Me == IF ~signedIn THEN NoAccount
      ELSE [state |-> IF accepted = current THEN "past" ELSE "asked", version |-> current]

\* Mutant: any version is taken for the present one.
TakesAny(v) == signedIn

\* acceptConsent, of a session and of the present version only.
Takes(v) == signedIn /\ v = current

ServeConsent(t) ==
  /\ view[t].sent # 0 /\ ~view[t].answered
  /\ IF Takes(view[t].sent)
     THEN /\ accepted' = current
          /\ acceptances' = acceptances \cup {[recorded |-> current, shown |-> view[t].sent]}
          /\ view' = [view EXCEPT ![t].answered = TRUE]
     ELSE /\ view' = [view EXCEPT ![t].sent = 0]
          /\ UNCHANGED <<accepted, acceptances>>
  /\ UNCHANGED <<current, signedIn>>

-----------------------------------------------------------------------------
(* The pages                                                               *)

safeRedirect(target) == IF target \in Gated THEN target ELSE "deploy"

\* A gated page sends an account that is asked to the consent page, to be brought back, the
\* consent page one that is not to where it is to be brought; without an account both end
\* where one signs in.  The account is an administrator's.  What is shown anew is not ticked.
Shows(page, next, m) ==
  [Closed EXCEPT !.me = m, !.next = IF page \in Gated THEN page ELSE next,
     !.at = CASE m.state = "loading" -> page
              [] m.state = "none" -> "deploy"
              [] m.state = "asked" -> "consent"
              [] m.state = "past" -> IF page = "consent" THEN next ELSE page]

OnlyView(t, v) == view' = [view EXCEPT ![t] = v] /\ UNCHANGED <<current, accepted, signedIn, acceptances>>

\* A page is loaded, by its address: /consent with any ?next=.
Visit(t) ==
  \/ \E page \in Gated : OnlyView(t, Shows(page, page, Loading))
  \/ \E target \in Gated \cup {"elsewhere"} :
       OnlyView(t, Shows("consent", safeRedirect(target), Loading))

\* An answer of getMe, or its failure where there was none before.  The consent page that
\* stays keeps its tick and its request.
MeArrives(t) ==
  /\ view[t].at # "closed"
  /\ \E m \in {Me} \cup (IF view[t].me = Loading THEN {NoAccount} ELSE {}) :
       IF view[t].at = "consent" /\ m.state = "asked"
       THEN OnlyView(t, [view[t] EXCEPT !.me = m])
       ELSE OnlyView(t, [Shows(view[t].at, view[t].next, m) EXCEPT
                           !.sent = view[t].sent, !.answered = view[t].answered])

TickPolicies(t) ==
  /\ view[t].at = "consent" /\ view[t].me.state = "asked" /\ view[t].sent = 0
  /\ OnlyView(t, [view[t] EXCEPT !.checked = ~@])

\* handleAccept: the version on the screen.
HandleAccept(t) ==
  /\ view[t].at = "consent" /\ view[t].checked /\ view[t].sent = 0
  /\ OnlyView(t, [view[t] EXCEPT !.sent = view[t].me.version])

\* The account is read again, perhaps in vain, and the tab goes on, wherever it is by now.
Accepted(t) ==
  /\ view[t].answered
  /\ \E m \in {Me, view[t].me} :
       OnlyView(t, Shows(view[t].next, view[t].next, m))

ConsentFails(t) ==
  /\ view[t].sent # 0 /\ OnlyView(t, [view[t] EXCEPT !.sent = 0, !.answered = FALSE])

ConsentNext ==
  \/ PolicyChanges \/ SessionComesOrGoes
  \/ \E t \in ConsentTabs : ServeConsent(t) \/ Visit(t) \/ MeArrives(t) \/ TickPolicies(t)
                            \/ HandleAccept(t) \/ Accepted(t) \/ ConsentFails(t)

ConsentSpec == ConsentInit /\ [][ConsentNext]_consentVars

-----------------------------------------------------------------------------
\* Whatever tabs are open and whenever the version changes, the version recorded is the one
\* that was on the screen when the user agreed, and a tab that shows a gated page to an
\* account does so after the version it was told of was accepted (auth.controller
\* acceptConsent, ConsentPageClient, DeployPageClient, AdminPageClient).
ConsentAsShown ==
  /\ \A a \in acceptances : a.recorded = a.shown
  /\ \A t \in ConsentTabs : view[t].at \in Gated /\ view[t].me.state \in {"asked", "past"} =>
       /\ view[t].me.state = "past" /\ accepted >= view[t].me.version
       /\ \E a \in acceptances : a.recorded = view[t].me.version

\* A sign-in and the consent that may follow it.
SignInHolds == LandsWhereStarted /\ ConsentAsShown
=============================================================================
