----------------------------- MODULE MCBackground -----------------------------
(***************************************************************************)
(* Instances of the services whose promises are about time: the            *)
(* deploy-success mail, the patch plans, the custom-domain panel and the   *)
(* manifests of an account on their way into its namespace.  They share no *)
(* state but the live row of an account, which the first two have each for *)
(* itself, so a behaviour follows one of them, the focus, while the others *)
(* stay as they begin; a configuration names those it follows.             *)
(***************************************************************************)
EXTENDS DeployNotifications, SecurityPatch, DomainPanel, Manifests

CONSTANT Foci

ASSUME FociAssumption == Foci \subseteq {"mail", "patch", "panel", "manifests"}

VARIABLE focus

backgroundVars == <<mailVars, patchVars, panelVars, manifestVars, focus>>

MCInit ==
  /\ focus \in Foci
  /\ MailInit /\ PatchInit /\ PanelInit /\ ManifestsInit
  /\ focus = "mail" => member = Owners

MCNext ==
  /\ focus' = focus
  /\ \/ focus = "mail" /\ MailNext /\ UNCHANGED <<patchVars, panelVars, manifestVars>>
     \/ focus = "patch" /\ PatchNext /\ UNCHANGED <<mailVars, panelVars, manifestVars>>
     \/ focus = "panel" /\ PanelNext /\ UNCHANGED <<mailVars, patchVars, manifestVars>>
     \/ focus = "manifests" /\ ManifestsNext /\ UNCHANGED <<mailVars, patchVars, panelVars>>

\* MailFairness, PatchFairness, PanelFairness and ManifestsFairness, each where its component is
\* the focus.
MCFairness ==
  /\ WF_mailVars(focus = "mail" /\ MailTime)
  /\ \A d \in Digests : SF_mailVars(focus = "mail" /\ tick.digest = d /\ Dispatch)
  /\ WF_mailVars(focus = "mail" /\ (Serve \/ RecordSent \/ SendFails))
  /\ WF_patchVars(focus = "patch" /\ Prune)
  /\ \A t \in PanelTabs :
       /\ WF_panelVars(focus = "panel" /\ Poll(t)) /\ WF_panelVars(focus = "panel" /\ Retry(t))
       /\ SF_panelVars(focus = "panel" /\ RefreshServed(t))
  /\ WF_manifestVars(focus = "manifests" /\ (Sync \/ ApplicationPruned))
  /\ WF_manifestVars(focus = "manifests" /\ StartPod)
  /\ \A t \in Templates :
       /\ WF_manifestVars(focus = "manifests" /\ PodReady(t))
       /\ WF_manifestVars(focus = "manifests" /\ StopOld(t))
  /\ WF_manifestVars(focus = "manifests" /\ (StartSolver \/ ChallengeSolved))

MCSpec == MCInit /\ [][MCNext]_backgroundVars /\ MCFairness

BackgroundTypeOK == MailTypeOK /\ PatchTypeOK /\ PanelTypeOK /\ ManifestsTypeOK
=============================================================================
