------------------------------ MODULE MCServices ------------------------------
(***************************************************************************)
(* Instances of the services whose promises are about one moment or one    *)
(* step: accounts and sessions, commits and setups on GitHub, the cookies  *)
(* of a sign-in, the stages of a deployment, the provenance of an image,   *)
(* the list of pipelines, the deploy page and the page of an app, the      *)
(* daily scans, the checklist of a repository, the store of events, the    *)
(* list of alerts and the consent to the policies.  They share no          *)
(* variable, so a behaviour follows one of them, the focus, while the      *)
(* others stay as they begin.                                              *)
(***************************************************************************)
EXTENDS AccountSessions, GitCommit, SignInCookies, DeployStatus, Provenance, PipelineList,
        DeployPage, AppPage, ImageScan, StackCheck, EventFeed, AlertList,
        ConsentGate

CONSTANTS g1, n1, n2, w1, v1, v2, e1, e2, d1, c1, c2, a1, a2

MCFirstName == [g \in GithubAccounts |-> n1]
MCLower == [n \in Names |-> n2]
MCPuts == [w \in Writers |-> {"manifest"}]
MCDrops == [w \in Writers |-> {"dockerfile"}]
MCReplaces == [w \in Writers |-> {}]
MCDigestOf == [e \in Entries |-> d1]
MCDeployedAt == [e \in Entries |-> IF e = e1 THEN 1 ELSE 2]
MCFinishedAt == [c \in Commits |-> IF c = c1 THEN 1 ELSE 2]
MCBuiltFrom == [d \in Digests |-> c1]
MCScanOrder == <<a1, a2>>
MCAlertScopeOf == [v \in AlertViewers |-> IF v = v1 THEN {} ELSE {n1}]
MCScopeOf == [v \in Viewers |-> IF v = v1 THEN {n1} ELSE {n1, n2}]

\* Where a component has several initial states and is not the focus.
NothingThere == CHOOSE s \in Sources : s.schema = "none"

VARIABLE focus

servicesVars ==
  <<accountVars, gitVars, cookieVars, statusVars, provenanceVars, pipelineVars, pageVars,
    appPageVars, scanVars, stackVars, eventVars, alertVars, consentVars, focus>>

MCInit ==
  /\ focus \in {"accounts", "git", "cookies", "status", "provenance", "pipelines", "page",
               "app page", "scan", "stack", "events", "alerts", "consent"}
  /\ AccountInit /\ CookieInit /\ StatusInit /\ ProvenanceInit /\ PipelineInit /\ ScanInit
  /\ EventInit /\ AlertInit /\ ConsentInit
  /\ CommitInit /\ (focus # "git" => commits = <<[p \in Paths |-> "none"]>>)
  /\ PageInit /\ (focus # "page" => access = "open")
  /\ AppPageInit /\ (focus # "app page" => owner /\ registered = "none")
  /\ StackInit /\ (focus # "stack" => source = NothingThere)

MCNext ==
  /\ focus' = focus
  /\ \/ /\ focus = "accounts" /\ AccountNext
        /\ UNCHANGED <<gitVars, cookieVars, statusVars, provenanceVars, pipelineVars, pageVars,
                      appPageVars, scanVars, stackVars, eventVars, alertVars, consentVars>>
     \/ /\ focus = "git" /\ CommitNext
        /\ UNCHANGED <<accountVars, cookieVars, statusVars, provenanceVars, pipelineVars, pageVars,
                      appPageVars, scanVars, stackVars, eventVars, alertVars, consentVars>>
     \/ /\ focus = "cookies" /\ CookieNext
        /\ UNCHANGED <<accountVars, gitVars, statusVars, provenanceVars, pipelineVars, pageVars,
                      appPageVars, scanVars, stackVars, eventVars, alertVars, consentVars>>
     \/ /\ focus = "status" /\ StatusNext
        /\ UNCHANGED <<accountVars, gitVars, cookieVars, provenanceVars, pipelineVars, pageVars,
                      appPageVars, scanVars, stackVars, eventVars, alertVars, consentVars>>
     \/ /\ focus = "provenance" /\ ProvenanceNext
        /\ UNCHANGED <<accountVars, gitVars, cookieVars, statusVars, pipelineVars, pageVars,
                      appPageVars, scanVars, stackVars, eventVars, alertVars, consentVars>>
     \/ /\ focus = "pipelines" /\ PipelineNext
        /\ UNCHANGED <<accountVars, gitVars, cookieVars, statusVars, provenanceVars, pageVars,
                      appPageVars, scanVars, stackVars, eventVars, alertVars, consentVars>>
     \/ /\ focus = "page" /\ PageNext
        /\ UNCHANGED <<accountVars, gitVars, cookieVars, statusVars, provenanceVars, pipelineVars,
                      appPageVars, scanVars, stackVars, eventVars, alertVars, consentVars>>
     \/ /\ focus = "app page" /\ AppPageNext
        /\ UNCHANGED <<accountVars, gitVars, cookieVars, statusVars, provenanceVars, pipelineVars,
                      pageVars, scanVars, stackVars, eventVars, alertVars, consentVars>>
     \/ /\ focus = "scan" /\ ScanNext
        /\ UNCHANGED <<accountVars, gitVars, cookieVars, statusVars, provenanceVars, pipelineVars,
                      pageVars, appPageVars, stackVars, eventVars, alertVars, consentVars>>
     \/ /\ focus = "events" /\ EventNext
        /\ UNCHANGED <<accountVars, gitVars, cookieVars, statusVars, provenanceVars, pipelineVars,
                      pageVars, appPageVars, scanVars, stackVars, alertVars, consentVars>>
     \/ /\ focus = "alerts" /\ AlertNext
        /\ UNCHANGED <<accountVars, gitVars, cookieVars, statusVars, provenanceVars, pipelineVars,
                      pageVars, appPageVars, scanVars, stackVars, eventVars, consentVars>>
     \/ /\ focus = "consent" /\ ConsentNext
        /\ UNCHANGED <<accountVars, gitVars, cookieVars, statusVars, provenanceVars, pipelineVars,
                      pageVars, appPageVars, scanVars, stackVars, eventVars, alertVars>>
     \/ /\ focus = "stack" /\ StackNext
        /\ UNCHANGED <<accountVars, gitVars, cookieVars, statusVars, provenanceVars, pipelineVars,
                      pageVars, appPageVars, scanVars, eventVars, alertVars, consentVars>>

MCSpec == MCInit /\ [][MCNext]_servicesVars

\* Of the accounts, without who is admitted, which no step but those that set it and no
\* property but the types look at.
AccountView ==
  <<loginOf, valid, grants, [i \in RowIds |-> [users[i] EXCEPT !.allowed = FALSE]],
    sessions, audit, call, renamed, broken>>

\* What TLC tells states apart by: the variables of the other components have the values
\* they began with, which the focus determines.
MCView ==
  <<focus,
    CASE focus = "accounts" -> AccountView [] focus = "git" -> gitVars
      [] focus = "cookies" -> cookieVars [] focus = "status" -> statusVars
      [] focus = "provenance" -> provenanceVars [] focus = "pipelines" -> pipelineVars
      [] focus = "page" -> pageVars [] focus = "app page" -> appPageVars
      [] focus = "scan" -> scanVars [] focus = "stack" -> stackVars
      [] focus = "events" -> eventVars [] focus = "alerts" -> alertVars
      [] focus = "consent" -> consentVars>>

\* Of the focus: the others are as they began.
ServicesTypeOK ==
  /\ (focus = "accounts" => AccountTypeOK) /\ (focus = "git" => CommitTypeOK)
  /\ (focus = "cookies" => CookiesTypeOK) /\ (focus = "status" => StatusTypeOK)
  /\ (focus = "provenance" => ProvenanceTypeOK) /\ (focus = "pipelines" => PipelineTypeOK)
  /\ (focus = "page" => PageTypeOK) /\ (focus = "app page" => AppPageTypeOK)
  /\ (focus = "scan" => ScanTypeOK) /\ (focus = "stack" => StackTypeOK)
  /\ (focus = "events" => EventTypeOK) /\ (focus = "alerts" => AlertTypeOK)
  /\ (focus = "consent" => ConsentTypeOK)
=============================================================================
