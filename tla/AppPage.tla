------------------------------- MODULE AppPage -------------------------------
(***************************************************************************)
(* /deploy/<login>/<repo> in the browser, with the handlers behind it: the *)
(* panel of the environment variables and the card that removes the app.   *)
(* The page may be open in several tabs of one session.  A save replaces   *)
(* the app's Secret and then asks for new pods; the pods read the Secret   *)
(* when they start.  The page may miss an answer, and each call of the     *)
(* backend to the namespace may fail with what came before it done.          *)
(***************************************************************************)
EXTENDS Naturals, Sequences

CONSTANTS
  AppTabs,   \* the tabs the page is open in
  MaxSaves,  \* bound: Secrets ever written
  NoTab

ASSUME AppPageAssumption == MaxSaves \in Nat /\ NoTab \notin AppTabs

VARIABLES
  owner,       \* the session may manage this app: the API answers neither 401 nor 403
  registered,  \* the account's registration: of this app, of another, or none
  namespace,   \* the app's namespace: its Secret (0 for none or an empty one) and its pods
  put,         \* the save being served, under the account's key
  saves,       \* Secrets written so far; a Secret is known by its number
  appTab,      \* appTab[t]: what the page shows and waits for
  promised     \* history: the last save a page was told is done

appPageVars == <<owner, registered, namespace, put, saves, appTab, promised>>

-----------------------------------------------------------------------------
Versions == 0..MaxSaves

\* granted: the Role is there and perhaps not yet the Deployment; starting: a pod that has
\* not read the Secret yet is to replace the one that runs.
NoNamespace == [granted |-> FALSE, deployed |-> FALSE, secret |-> 0, running |-> 0,
                starting |-> FALSE]
NoPut == [tab |-> NoTab, step |-> 0, version |-> 0]

\* read: the last read was not refused (RBAC); edited: the rows are not what it gave.
ClosedTab == [shown |-> FALSE, read |-> FALSE, served |-> 0, edited |-> FALSE,
              saving |-> "no"]

AppPageTypeOK ==
  /\ owner \in BOOLEAN /\ registered \in {"this", "another", "none"}
  /\ namespace \in [granted : BOOLEAN, deployed : BOOLEAN, secret : Versions, running : Versions,
                    starting : BOOLEAN]
  /\ put \in [tab : AppTabs \cup {NoTab}, step : 0..4, version : Versions]
  /\ saves \in Versions /\ promised \in Versions
  /\ appTab \in [AppTabs -> [shown : BOOLEAN, read : BOOLEAN, served : Versions, edited : BOOLEAN,
                             saving : {"no", "sent", "served", "refetch"}]]

AppPageInit ==
  /\ owner \in BOOLEAN /\ registered \in {"this", "another", "none"}
  /\ namespace = NoNamespace /\ put = NoPut /\ saves = 0
  /\ appTab = [t \in AppTabs |-> ClosedTab] /\ promised = 0

-----------------------------------------------------------------------------
(* The session, the registration and the namespace                          *)

\* Signed out, signed in, or as somebody else, in any tab.
SessionChanges ==
  /\ owner' = ~owner
  /\ UNCHANGED <<registered, namespace, put, saves, appTab, promised>>

\* Elsewhere an app is removed, or registered once the namespace of the last one is gone;
\* both take the account's key.
RegistrationChanges ==
  /\ put = NoPut
  /\ IF registered = "none"
       THEN namespace = NoNamespace /\ registered' \in {"this", "another"}
       ELSE registered' = "none"
  /\ UNCHANGED <<owner, namespace, put, saves, appTab, promised>>

\* Namespace and Role, then the Deployment; the namespace goes with all that is in it.
NamespaceSyncs ==
  /\ registered = "this" /\ ~namespace.deployed
  /\ namespace' = IF namespace.granted THEN [namespace EXCEPT !.deployed = TRUE, !.starting = TRUE]
                ELSE [namespace EXCEPT !.granted = TRUE]
  /\ UNCHANGED <<owner, registered, put, saves, appTab, promised>>

NamespaceGoes ==
  /\ registered = "none" /\ namespace.granted
  /\ namespace' = NoNamespace /\ promised' = 0
  /\ UNCHANGED <<owner, registered, put, saves, appTab>>

PodReadsSecret ==
  /\ namespace.starting
  /\ namespace' = [namespace EXCEPT !.starting = FALSE, !.running = namespace.secret]
  /\ UNCHANGED <<owner, registered, put, saves, appTab, promised>>

-----------------------------------------------------------------------------
(* What the page reads                                                     *)

Sees(t, changes) == appTab' = [appTab EXCEPT ![t] = changes]

\* Every five seconds.  401 and 403 take the panels away, whatever they were doing; what was
\* read of the environment stays in the cache of the tab, and so do the panels on other errors.
PollStatus(t) ==
  /\ appTab[t].shown # owner
  /\ Sees(t, [ClosedTab EXCEPT !.shown = owner, !.read = appTab[t].read, !.served = appTab[t].served])
  /\ UNCHANGED <<owner, registered, namespace, put, saves, promised>>

\* Other values replace the rows, edited or not; the same values leave them alone, and so
\* does a refusal, which hides them.
WithRead(row) ==
  IF namespace.granted
  THEN [row EXCEPT !.read = TRUE, !.served = namespace.secret,
                   !.edited = row.edited /\ row.served = namespace.secret]
  ELSE [row EXCEPT !.read = FALSE]

\* On load, after an error, and when the network is back.
ReadEnv(t) ==
  /\ appTab[t].shown /\ owner
  /\ Sees(t, WithRead(appTab[t]))
  /\ UNCHANGED <<owner, registered, namespace, put, saves, promised>>

EditRows(t) ==
  /\ appTab[t].shown /\ appTab[t].read
  /\ Sees(t, [appTab[t] EXCEPT !.edited = ~@])
  /\ UNCHANGED <<owner, registered, namespace, put, saves, promised>>

-----------------------------------------------------------------------------
(* handleSave, the controller's setEnv and EnvService.setEnv               *)

SaveRows(t) ==
  /\ appTab[t].shown /\ appTab[t].edited /\ appTab[t].saving = "no"
  /\ Sees(t, [appTab[t] EXCEPT !.saving = "sent"])
  /\ UNCHANGED <<owner, registered, namespace, put, saves, promised>>

\* Refused when a mutation of the account is under way, or by the guards.
ServePut(t) ==
  /\ appTab[t].saving = "sent"
  /\ \/ /\ owner /\ put = NoPut
        /\ put' = [NoPut EXCEPT !.tab = t, !.step = 1]
        /\ Sees(t, [appTab[t] EXCEPT !.saving = "served"])
     \/ /\ put' = put
        /\ Sees(t, [appTab[t] EXCEPT !.saving = "no"])
  /\ UNCHANGED <<owner, registered, namespace, saves, promised>>

\* Mutant: the pods are restarted before the Secret they are to read is there.
RestartsFirst == <<"current", "restart", "replace", "answer">>

SetEnvCalls == <<"current", "replace", "restart", "answer">>

Calling(call) == put # NoPut /\ SetEnvCalls[put.step] = call
NextCall == [put EXCEPT !.step = @ + 1]

\* Back at the tab, if it still waits.
AnswerSave(saving) ==
  appTab' = [t \in AppTabs |-> IF t = put.tab /\ appTab[t].saving = "served"
                            THEN [appTab[t] EXCEPT !.saving = saving] ELSE appTab[t]]

CheckCurrent ==
  /\ Calling("current")
  /\ IF registered = "this" THEN put' = NextCall /\ appTab' = appTab
     ELSE put' = NoPut /\ AnswerSave("no")
  /\ UNCHANGED <<owner, registered, namespace, saves, promised>>

ReplaceSecret ==
  /\ Calling("replace") /\ namespace.granted /\ saves < MaxSaves
  /\ saves' = saves + 1
  /\ namespace' = [namespace EXCEPT !.secret = saves + 1]
  /\ put' = [NextCall EXCEPT !.version = saves + 1]
  /\ UNCHANGED <<owner, registered, appTab, promised>>

\* Without a Deployment there is nothing to restart, and that is not an error.
PatchRestart ==
  /\ Calling("restart")
  /\ namespace' = [namespace EXCEPT !.starting = namespace.deployed]
  /\ put' = NextCall
  /\ UNCHANGED <<owner, registered, saves, appTab, promised>>

AnswerPut ==
  /\ Calling("answer")
  /\ promised' = IF appTab[put.tab].saving = "served" THEN put.version ELSE promised
  /\ put' = NoPut /\ AnswerSave("refetch")
  /\ UNCHANGED <<owner, registered, namespace, saves>>

\* A call fails, or the backend restarts.
PutFails ==
  /\ put # NoPut
  /\ put' = NoPut /\ AnswerSave("no")
  /\ UNCHANGED <<owner, registered, namespace, saves, promised>>

\* The connection goes; the handler keeps on.
PutAnswerLost(t) ==
  /\ appTab[t].saving = "served"
  /\ Sees(t, [appTab[t] EXCEPT !.saving = "no"])
  /\ UNCHANGED <<owner, registered, namespace, put, saves, promised>>

\* Whether or not the values can be read back, the save is over.
Refetch(t) ==
  /\ appTab[t].saving = "refetch"
  /\ \E row \in {appTab[t], WithRead(appTab[t])} : Sees(t, [row EXCEPT !.saving = "no"])
  /\ UNCHANGED <<owner, registered, namespace, put, saves, promised>>

-----------------------------------------------------------------------------
(* DeleteCard                                                              *)

\* Confirmed on the page.  The request names no app: what goes is the account's registration,
\* and the page leaves; it is refused while a save is being served.
RemoveApp(t) ==
  /\ appTab[t].shown /\ owner /\ put = NoPut
  /\ registered' = "none" /\ Sees(t, ClosedTab)
  /\ UNCHANGED <<owner, namespace, put, saves, promised>>

AppPageNext ==
  \/ SessionChanges \/ RegistrationChanges \/ NamespaceSyncs \/ NamespaceGoes \/ PodReadsSecret
  \/ \E t \in AppTabs : \/ PollStatus(t) \/ ReadEnv(t) \/ EditRows(t) \/ SaveRows(t)
                        \/ ServePut(t) \/ PutAnswerLost(t) \/ Refetch(t)
                        \/ RemoveApp(t)
  \/ CheckCurrent \/ ReplaceSecret \/ PatchRestart \/ AnswerPut \/ PutFails

AppPageSpec == AppPageInit /\ [][AppPageNext]_appPageVars

-----------------------------------------------------------------------------
\* Two tabs, answers that are lost, saves that end halfway and an app that is not deployed yet,
\* and all: values a page was told are saved are the ones the app runs with, or newer ones, or
\* pods are to start that have not read the Secret yet.
AnsweredWillRun == promised <= namespace.running \/ namespace.starting \/ ~namespace.deployed
=============================================================================
