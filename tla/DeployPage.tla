------------------------------ MODULE DeployPage ------------------------------
(***************************************************************************)
(* /deploy in the browser, in front of the handlers it calls: the page is  *)
(* open to an admitted account; a repository is selected, its stack and    *)
(* the plan of its setup are fetched and kept per repository; the user     *)
(* agrees to the plan that is shown and registers, or asks for a pull      *)
(* request.  Meanwhile repositories are pushed to, plans are fetched       *)
(* again, other repositories selected, and answers come late.              *)
(***************************************************************************)
EXTENDS Naturals, FiniteSets

CONSTANTS
  Repos,
  PageRequests, \* requests under way
  MaxHeads,     \* bound: heads of a repository
  ToReview,     \* heads with a file that differs from the template
  NoRepo

ASSUME PageAssumption ==
  MaxHeads \in Nat \ {0} /\ ToReview \subseteq 1..MaxHeads /\ NoRepo \notin Repos

VARIABLES
  head,       \* head[r]: the default branch of a repository
  access,     \* what the backend makes of the session: anonymous, gated, open
  me,         \* what the page last read of it
  selected,   \* ?repo=
  preview,    \* preview[r]: the stack as it was read
  plan,       \* plan[r]: the head of the plan kept for r, 0 for none
  planFails,  \* the last fetch of a plan failed
  trigger,    \* DeployTrigger: the box, the request it waits for, what it shows
  pageRequest, \* pageRequest[q]: a registration or pull request asked for
  modal,      \* the dialog that deletes the account
  ticked,     \* history: the plan shown when the box was last ticked
  changed     \* history: what a request changed last, beside what was agreed to

pageVars == <<head, access, me, selected, preview, plan, planFails, trigger, pageRequest, modal,
              ticked, changed>>

-----------------------------------------------------------------------------
Heads == 0..MaxHeads
Plans == [repo : Repos \cup {NoRepo}, head : Heads]
NoPlan == [repo |-> NoRepo, head |-> 0]
Untouched == [consent |-> FALSE, pending |-> FALSE, done |-> FALSE]
NoRequest == [step |-> "none", plan |-> NoPlan, agreed |-> NoPlan, mounted |-> FALSE]

PageTypeOK ==
  /\ head \in [Repos -> 1..MaxHeads]
  /\ access \in {"anonymous", "gated", "open"}
  /\ me \in {"loading", "anonymous", "gated", "open"}
  /\ selected \in Repos \cup {NoRepo}
  /\ preview \in [Repos -> {"loading", "passed", "blocked"}]
  /\ plan \in [Repos -> Heads] /\ planFails \subseteq Repos
  /\ trigger \in [consent : BOOLEAN, pending : BOOLEAN, done : BOOLEAN]
  /\ pageRequest \in [PageRequests -> [step : {"none", "sent", "reviewed", "done", "refused"},
                               plan : Plans, agreed : Plans, mounted : BOOLEAN]]
  /\ modal \in {"idle", "pending"}
  /\ ticked \in Plans
  /\ changed \in [from : Plans, agreed : Plans]

PageInit ==
  /\ head = [r \in Repos |-> 1] /\ access \in {"anonymous", "gated", "open"} /\ me = "loading"
  /\ selected = NoRepo /\ preview = [r \in Repos |-> "loading"]
  /\ plan = [r \in Repos |-> 0] /\ planFails = {}
  /\ trigger = Untouched /\ pageRequest = [q \in PageRequests |-> NoRequest] /\ modal = "idle"
  /\ ticked = NoPlan
  /\ changed = [from |-> NoPlan, agreed |-> NoPlan]

\* What the page shows is what it has of the account and of the selected repository.
Mounted(m, s, p) == m = "open" /\ s # NoRepo /\ p[s] = "passed"
ShownPlan == IF Mounted(me, selected, preview) THEN [repo |-> selected, head |-> plan[selected]]
         ELSE NoPlan

\* A new page: the part that is gone forgets its state and its answers, and the effect on
\* [fullName, setup.digest] resets what stays, before the user can act again.
TriggerKeptForRepo(sel, pl) == ShownPlan.repo = sel
TriggerKept(sel, pl) == ShownPlan.repo = sel /\ ShownPlan.head = pl[sel]
Renders(m, s, p, pl) ==
  /\ me' = m /\ selected' = s /\ preview' = p /\ plan' = pl
  /\ trigger' = IF Mounted(m, s, p) /\ TriggerKept(s, pl) THEN trigger ELSE Untouched
  /\ pageRequest' = IF Mounted(m, s, p) THEN pageRequest
                ELSE [q \in PageRequests |-> [pageRequest[q] EXCEPT !.mounted = FALSE]]

history == <<ticked, changed>>

-----------------------------------------------------------------------------
(* The repositories and the account                                        *)

PushRepo(r) ==
  /\ head[r] < MaxHeads /\ head' = [head EXCEPT ![r] = @ + 1]
  /\ UNCHANGED <<access, me, selected, preview, plan, planFails, trigger, pageRequest, modal, history>>

AccessChanges(a) ==
  /\ a # access /\ access' = a
  /\ UNCHANGED <<head, me, selected, preview, plan, planFails, trigger, pageRequest, modal, history>>

-----------------------------------------------------------------------------
(* The page                                                                *)

\* useMe, on load, after consent or a new sign-in, and on asking again.
ReadMe ==
  /\ me # "open"
  /\ Renders(access, selected, preview, plan)
  /\ UNCHANGED <<head, access, planFails, modal, history>>

PageLogout ==
  /\ me \in {"gated", "open"}
  /\ access' = "anonymous" /\ Renders("anonymous", selected, preview, plan)
  /\ modal' = "idle"
  /\ UNCHANGED <<head, planFails, history>>

\* A card selects its repository, or clears the selection.
Select(s) ==
  /\ me = "open" /\ s # selected
  /\ Renders(me, s, preview, plan)
  /\ UNCHANGED <<head, access, planFails, modal, history>>

PreviewArrives(r) ==
  /\ me = "open" /\ selected = r /\ preview[r] = "loading"
  /\ \E p \in {"passed", "blocked"} : Renders(me, selected, [preview EXCEPT ![r] = p], plan)
  /\ UNCHANGED <<head, access, planFails, modal, history>>

\* useSourceSetup: fetched when shown and whenever it is asked for again; what was fetched
\* before stays while a fetch fails.
PlanArrives ==
  /\ Mounted(me, selected, preview)
  /\ Renders(me, selected, preview, [plan EXCEPT ![selected] = head[selected]])
  /\ planFails' = planFails \ {selected}
  /\ UNCHANGED <<head, access, modal, history>>

PlanFails ==
  /\ Mounted(me, selected, preview) /\ planFails' = planFails \cup {selected}
  /\ UNCHANGED <<head, access, me, selected, preview, plan, trigger, pageRequest, modal, history>>

\* The button that asks again clears the box first.
AskAgain ==
  /\ Mounted(me, selected, preview) /\ ~trigger.pending
  /\ trigger' = [trigger EXCEPT !.consent = FALSE, !.done = FALSE]
  /\ UNCHANGED <<head, access, me, selected, preview, plan, planFails, pageRequest, modal, history>>

TickConsent ==
  /\ ShownPlan.head # 0 /\ ~trigger.pending /\ ~trigger.done
  /\ trigger' = [trigger EXCEPT !.consent = ~@]
  /\ ticked' = IF trigger.consent THEN NoPlan ELSE ShownPlan
  /\ UNCHANGED <<head, access, me, selected, preview, plan, planFails, pageRequest, modal, changed>>

canDeploy == /\ ShownPlan.head # 0 /\ selected \notin planFails
             /\ trigger.consent /\ ~trigger.pending /\ ~trigger.done

\* handleDeploy: registers, or asks for a pull request, with the digest that is shown.
Deploy(q) ==
  /\ canDeploy /\ pageRequest[q].step = "none"
  /\ pageRequest' = [pageRequest EXCEPT ![q] = [step |-> "sent", plan |-> ShownPlan, agreed |-> ticked,
                                        mounted |-> TRUE]]
  /\ trigger' = [trigger EXCEPT !.pending = TRUE]
  /\ UNCHANGED <<head, access, me, selected, preview, plan, planFails, modal, history>>

\* The answer goes to the part of the page that asked, whatever it shows by now.
AnswerArrives(q) ==
  /\ pageRequest[q].step \in {"done", "refused"}
  /\ trigger' = IF ~pageRequest[q].mounted THEN trigger
                ELSE IF pageRequest[q].step = "refused" THEN [trigger EXCEPT !.pending = FALSE]
                ELSE [consent |-> FALSE, pending |-> FALSE,
                      done |-> pageRequest[q].plan.head \notin ToReview \/ trigger.done]
  /\ pageRequest' = [pageRequest EXCEPT ![q] = NoRequest]
  /\ UNCHANGED <<head, access, me, selected, preview, plan, planFails, modal, history>>

-----------------------------------------------------------------------------
(* The account section                                                     *)

\* The login is typed in and the request is sent; to open or close the dialog changes
\* nothing else, and while it waits it does neither.
ConfirmDeletion ==
  /\ me = "open" /\ modal = "idle" /\ modal' = "pending"
  /\ UNCHANGED <<head, access, me, selected, preview, plan, planFails, trigger, pageRequest, history>>

AccountDeleted ==
  /\ modal = "pending" /\ access # "anonymous"
  /\ access' = "anonymous" /\ modal' = "idle"
  /\ Renders("anonymous", NoRepo, preview, plan)
  /\ UNCHANGED <<head, planFails, history>>

DeletionFails ==
  /\ modal = "pending" /\ modal' = "idle"
  /\ UNCHANGED <<head, access, me, selected, preview, plan, planFails, trigger, pageRequest, history>>

-----------------------------------------------------------------------------
(* The backend, for a request that was sent                                *)

server == <<head, access, me, selected, preview, plan, planFails, trigger, modal, ticked>>

\* The repository is inspected again; the digest must be that of the plan, and the access
\* that of a session.
assertReviewed(q) == head[pageRequest[q].plan.repo] = pageRequest[q].plan.head

ReviewPlan(q) ==
  /\ pageRequest[q].step = "sent"
  /\ pageRequest' = [pageRequest EXCEPT ![q].step =
                   IF access = "open" /\ assertReviewed(q) THEN "reviewed" ELSE "refused"]
  /\ UNCHANGED <<server, changed>>

\* createMissing and createPr start from the head of the plan or not at all.
Change(q) ==
  /\ pageRequest[q].step = "reviewed"
  /\ IF assertReviewed(q)
     THEN /\ LET r == pageRequest[q].plan.repo IN
             changed' = [from |-> [repo |-> r, head |-> head[r]], agreed |-> pageRequest[q].agreed]
          /\ pageRequest' = [pageRequest EXCEPT ![q].step = "done"]
     ELSE changed' = changed /\ pageRequest' = [pageRequest EXCEPT ![q].step = "refused"]
  /\ UNCHANGED server

-----------------------------------------------------------------------------
PageNext ==
  \/ \E r \in Repos : PushRepo(r) \/ PreviewArrives(r)
  \/ \E a \in {"anonymous", "gated", "open"} : AccessChanges(a)
  \/ \E s \in Repos \cup {NoRepo} : Select(s)
  \/ ReadMe \/ PageLogout \/ PlanArrives \/ PlanFails \/ AskAgain \/ TickConsent
  \/ \E q \in PageRequests : Deploy(q) \/ AnswerArrives(q) \/ ReviewPlan(q) \/ Change(q)
  \/ ConfirmDeletion \/ AccountDeleted \/ DeletionFails

PageSpec == PageInit /\ [][PageNext]_pageVars

-----------------------------------------------------------------------------
\* Whatever is fetched again, selected or pushed between the tick and the click, between
\* the click and the handler, and while answers are late: a repository is changed only
\* from the very plan that was shown when the user agreed (DeployTrigger, source-setup
\* assertReviewed, createMissing, createPr).
ChangedAsAgreed == changed.from = changed.agreed
=============================================================================
