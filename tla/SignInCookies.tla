---------------------------- MODULE SignInCookies ----------------------------
(***************************************************************************)
(* The start and the end of a sign-in in one browser.  Its tabs share the  *)
(* state cookie and the return cookie; each tab goes to GitHub and comes   *)
(* back to /auth/github/callback with the state it left with.  A request   *)
(* carries the cookies of the moment it is sent, and what the answer does  *)
(* to them happens when it arrives: GET /login and GET /install of other   *)
(* tabs fall in between.                                                   *)
(***************************************************************************)
EXTENDS Naturals

CONSTANTS
  Tabs,
  ReturnPaths,   \* paths safeReturnPath lets through
  HomePath,    \* /deploy, what it makes of any other
  MaxSignIns     \* bound: states generated

ASSUME SignInAssumption == HomePath \notin ReturnPaths /\ MaxSignIns \in Nat

VARIABLES
  stateCookie,   \* 0: none
  returnCookie,  \* the state it was saved for and the path
  tab,           \* tab[t]: where it is, with its state and the path it asked for
  states         \* OAuth states generated so far

cookieVars == <<stateCookie, returnCookie, tab, states>>

-----------------------------------------------------------------------------
StateIds == 0..MaxSignIns
Landings == ReturnPaths \cup {HomePath}
NoReturn == [state |-> 0, path |-> HomePath]
Returns == [state : StateIds, path : Landings]

Page == [at |-> "page", state |-> 0, asked |-> HomePath, landing |-> HomePath]
TabRecords == [at : {"page", "github", "exchange", "signedIn"}, state : StateIds,
               asked : Landings, landing : Landings]

CookiesTypeOK ==
  /\ stateCookie \in StateIds /\ returnCookie \in Returns
  /\ tab \in [Tabs -> TabRecords] /\ states \in StateIds

CookieInit ==
  /\ stateCookie = 0 /\ returnCookie = NoReturn
  /\ tab = [t \in Tabs |-> Page] /\ states = 0

safeReturnPath(p) == IF p \in ReturnPaths THEN p ELSE HomePath

ToGithub(t, p) ==
  /\ tab[t].at = "page" /\ states < MaxSignIns
  /\ states' = states + 1 /\ stateCookie' = states + 1
  /\ tab' = [tab EXCEPT ![t] = [at |-> "github", state |-> states + 1,
                                asked |-> safeReturnPath(p), landing |-> HomePath]]

startOauth(t, p) ==
  /\ ToGithub(t, p)
  /\ returnCookie' = [state |-> states + 1, path |-> safeReturnPath(p)]

\* The installation keeps the state only.
startInstall(t) == ToGithub(t, HomePath) /\ UNCHANGED returnCookie

\* Back without a code: nothing to exchange, and the state cookie goes.
SetupCallback(t) ==
  /\ tab[t].at = "github"
  /\ tab' = [tab EXCEPT ![t] = Page] /\ stateCookie' = 0
  /\ UNCHANGED <<returnCookie, states>>

\* Back with a code: refused unless the state is the cookie's, and then the path is the
\* one saved for this very state.  The exchange with GitHub follows.
ReturnPathUnchecked(state) == returnCookie.path
ReturnPath(state) == IF returnCookie.state = state THEN returnCookie.path ELSE HomePath

Callback(t) ==
  /\ tab[t].at = "github"
  /\ tab' = IF tab[t].state # stateCookie THEN [tab EXCEPT ![t] = Page]
            ELSE [tab EXCEPT ![t].at = "exchange", ![t].landing = ReturnPath(tab[t].state)]
  /\ UNCHANGED <<stateCookie, returnCookie, states>>

\* The answer: both cookies are cleared, whatever they hold by now; a failed exchange
\* lands on the deploy page.
CallbackAnswers(t) ==
  /\ tab[t].at = "exchange"
  /\ \/ tab' = [tab EXCEPT ![t].at = "signedIn"]
     \/ tab' = [tab EXCEPT ![t] = Page]
  /\ stateCookie' = 0 /\ returnCookie' = NoReturn
  /\ UNCHANGED states

\* The user closes the tab's flow and starts over.
Abandon(t) ==
  /\ tab[t].at \in {"github", "signedIn"}
  /\ tab' = [tab EXCEPT ![t] = Page]
  /\ UNCHANGED <<stateCookie, returnCookie, states>>

CookieNext ==
  \E t \in Tabs :
    \/ \E p \in Landings : startOauth(t, p)
    \/ startInstall(t) \/ SetupCallback(t) \/ Callback(t) \/ CallbackAnswers(t) \/ Abandon(t)

CookieSpec == CookieInit /\ [][CookieNext]_cookieVars

-----------------------------------------------------------------------------
\* However sign-ins and installations of several tabs overlap, a sign-in ends where its
\* own start asked for, or on the deploy page, never where another tab was going
\* (auth.controller handleCallback).
LandsWhereStarted ==
  \A t \in Tabs : tab[t].at = "signedIn" => tab[t].landing \in {tab[t].asked, HomePath}
=============================================================================
