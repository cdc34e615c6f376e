----------------------------- MODULE DomainPanel -----------------------------
(***************************************************************************)
(* The custom-domain panel of an app, open in several tabs, over the row   *)
(* of the app in the backend.  A tab acts on the row it last fetched; the  *)
(* backend acts on the row it has.  The step from applying to active is    *)
(* taken by whoever asks next, and nothing but a panel in a visible tab    *)
(* asks again.  The backend's handlers are one step each here; their own   *)
(* steps are in CustomDomain.                                              *)
(***************************************************************************)
EXTENDS Naturals

CONSTANTS
  PanelTabs,
  Hosts,       \* domains the user may enter
  NoHost

ASSUME PanelAssumption == NoHost \notin Hosts

VARIABLES
  domainRow,   \* the row of the app
  certified,   \* the certificate of the app's Ingress is ready
  panel        \* panel[t]: what the tab shows and what it waits for

panelVars == <<domainRow, certified, panel>>

-----------------------------------------------------------------------------
NoDomainRow == [host |-> NoHost, status |-> "none"]
DomainRows == [host : Hosts \cup {NoHost},
               status : {"none", "pending", "error", "verified", "applying", "active"}]
\* retry: SWR has the failed read down for another try.
Panels == [shown : DomainRows, error : BOOLEAN, retry : BOOLEAN, hidden : BOOLEAN,
           host : Hosts \cup {NoHost},
           doing : {"nothing", "register", "verify", "delete", "switch", "claim", "refresh"}]
Opened == [shown |-> NoDomainRow, error |-> FALSE, retry |-> FALSE, hidden |-> FALSE,
           host |-> NoHost, doing |-> "refresh"]

PanelTypeOK ==
  /\ domainRow \in DomainRows /\ certified \in BOOLEAN
  /\ panel \in [PanelTabs -> Panels]
  /\ (domainRow.status = "none") = (domainRow.host = NoHost)

PanelInit ==
  /\ domainRow = NoDomainRow /\ certified = FALSE
  /\ panel = [t \in PanelTabs |-> Opened]

-----------------------------------------------------------------------------
(* The cluster                                                             *)

\* cert-manager follows the Ingress, and renewals may fail.
CertificateChanges ==
  /\ certified \/ domainRow.status \in {"applying", "active"}
  /\ certified' = ~certified
  /\ UNCHANGED <<domainRow, panel>>

-----------------------------------------------------------------------------
(* What the user can do in a tab                                           *)

Ready(t) == panel[t].doing = "nothing" /\ ~panel[t].error /\ ~panel[t].hidden
Sends(t, what, d) ==
  /\ panel' = [panel EXCEPT ![t].doing = what, ![t].host = d]
  /\ UNCHANGED <<domainRow, certified>>

Submit(t, d) == Ready(t) /\ panel[t].shown.status = "none" /\ Sends(t, "register", d)

\* Verified rows are stuck until they are verified again.
Verify(t) ==
  /\ Ready(t) /\ panel[t].shown.status \in {"pending", "error", "verified"}
  /\ Sends(t, "verify", NoHost)

Delete(t) ==
  /\ Ready(t) /\ panel[t].shown.status \in {"pending", "error", "active"}
  /\ Sends(t, "delete", NoHost)

\* After a conflict with an A record: another name under the same domain.
SwitchTo(t, d) ==
  Ready(t) /\ panel[t].shown.status = "error" /\ Sends(t, "switch", d)

\* The button.
Refresh(t) ==
  panel[t].doing = "nothing" /\ ~panel[t].hidden /\ Sends(t, "refresh", NoHost)

-----------------------------------------------------------------------------
(* What SWR does by itself                                                 *)

Turns(t, hidden, doing) ==
  /\ panel' = [panel EXCEPT ![t] = [@ EXCEPT !.hidden = hidden, !.doing = doing]]
  /\ UNCHANGED <<domainRow, certified>>

Hide(t) == ~panel[t].hidden /\ Turns(t, TRUE, panel[t].doing)

\* revalidateOnFocus: the row is read again, unless a focus shortly before had it read.
Return(t) ==
  /\ panel[t].hidden
  /\ \/ Turns(t, FALSE, panel[t].doing)
     \/ panel[t].doing = "nothing" /\ Turns(t, FALSE, "refresh")

PollsPending(status) == status = "pending"

\* refreshInterval: while the tab shows a domain being applied.
Polls(status) == status = "applying"

\* The interval passes over a tab that is hidden or has an error.
Poll(t) == Ready(t) /\ Polls(panel[t].shown.status) /\ Sends(t, "refresh", NoHost)

\* onErrorRetry, with growing pauses and no last time.
Retry(t) == panel[t].doing = "nothing" /\ panel[t].retry /\ Sends(t, "refresh", NoHost)

-----------------------------------------------------------------------------
(* The backend's part and its answer                                       *)

\* An error is shown beside the row the tab has; an answer is followed by a refresh.  Only
\* the second half of a switch still needs the domain that was asked for.
Then(t, doing) ==
  LET host == IF doing = "claim" THEN panel[t].host ELSE NoHost
  IN panel' = [panel EXCEPT ![t] = [@ EXCEPT !.doing = doing, !.host = host]]
Refused(t) == Then(t, "nothing") /\ UNCHANGED <<domainRow, certified>>

\* What was done is done, though its answer may be lost on the way.
Done(t, doing) == Then(t, doing) \/ Then(t, "nothing")

RegisterServed(t) ==
  /\ panel[t].doing \in {"register", "claim"}
  /\ IF domainRow = NoDomainRow
     THEN domainRow' = [host |-> panel[t].host, status |-> "pending"] /\ Done(t, "refresh")
          /\ UNCHANGED certified
     ELSE Refused(t)

\* toInfo: whoever reads a domain being applied moves it on.
Seen == IF domainRow.status = "applying" /\ certified
        THEN [domainRow EXCEPT !.status = "active"] ELSE domainRow

\* A domain that is being applied or is active is answered as it is.  Else the DNS is
\* looked up and does not point here, or it does and the Ingress is committed or not;
\* only a handler that is cut off leaves the row verified.
VerifyServed(t) ==
  /\ panel[t].doing = "verify"
  /\ \/ domainRow.status = "none" /\ Refused(t)
     \/ /\ domainRow.status \in {"applying", "active"}
        /\ domainRow' = Seen /\ Done(t, "refresh") /\ UNCHANGED certified
     \/ /\ domainRow.status \notin {"none", "applying", "active"}
        /\ \E s \in {"error", "verified", "applying"} :
             /\ domainRow' = [domainRow EXCEPT !.status = s]
             /\ Done(t, IF s = "verified" THEN "nothing" ELSE "refresh")
        /\ UNCHANGED certified

\* Whatever row there is by now, if there is one; a switch goes on to register.
DeleteServed(t) ==
  /\ panel[t].doing \in {"delete", "switch"}
  /\ domainRow' = NoDomainRow
  /\ Done(t, IF panel[t].doing = "switch" THEN "claim" ELSE "refresh")
  /\ UNCHANGED certified

\* The commit that removes the Ingress fails: the row stays, in error.
RemovalFails(t) ==
  /\ panel[t].doing \in {"delete", "switch"} /\ domainRow.status \notin {"none", "pending"}
  /\ domainRow' = [domainRow EXCEPT !.status = "error"]
  /\ Then(t, "nothing")
  /\ UNCHANGED certified

\* A request fails before it did anything.
RequestFails(t) ==
  /\ panel[t].doing \in {"register", "claim", "verify", "delete", "switch"}
  /\ Refused(t)

RefreshServed(t) ==
  /\ panel[t].doing = "refresh"
  /\ domainRow' = Seen
  /\ panel' = [panel EXCEPT ![t] = [Opened EXCEPT !.shown = Seen, !.doing = "nothing",
                                                  !.hidden = panel[t].hidden]]
  /\ UNCHANGED certified

\* The row stays in the tab, hidden behind the error; a tab out of sight does not retry.
RefreshFails(t) ==
  /\ panel[t].doing = "refresh"
  /\ panel' = [panel EXCEPT ![t] = [@ EXCEPT !.doing = "nothing", !.error = TRUE,
                                             !.retry = ~panel[t].hidden]]
  /\ UNCHANGED <<domainRow, certified>>

-----------------------------------------------------------------------------
PanelServed(t) == \/ RegisterServed(t) \/ VerifyServed(t) \/ DeleteServed(t)
                  \/ RemovalFails(t) \/ RequestFails(t)

PanelNext ==
  \/ CertificateChanges
  \/ \E t \in PanelTabs, d \in Hosts : Submit(t, d) \/ SwitchTo(t, d)
  \/ \E t \in PanelTabs :
       \/ Verify(t) \/ Delete(t) \/ Refresh(t)
       \/ Hide(t) \/ Return(t) \/ Poll(t) \/ Retry(t)
       \/ PanelServed(t) \/ RefreshServed(t) \/ RefreshFails(t)

\* The timers of a visible tab fire; a browser gives up a read that is not answered, and
\* the reads it makes again do not fail for ever.  Nothing is assumed of other requests.
PanelFairness ==
  \A t \in PanelTabs : WF_panelVars(Poll(t)) /\ WF_panelVars(Retry(t))
                       /\ SF_panelVars(RefreshServed(t))

PanelSpec == PanelInit /\ [][PanelNext]_panelVars /\ PanelFairness

-----------------------------------------------------------------------------
\* Nobody has to press a button: once the certificate stays ready, a tab that shows a
\* domain being applied, and no error, comes to show something else, with the row itself no
\* longer applying, or is hidden in the meantime, when it polls no more until it is
\* returned to (lib/domain useDomain, domain.service toInfo: "so we don't need a cron").
PanelCatchesUp ==
  <>[]certified =>
    \A t \in PanelTabs :
      panel[t].shown.status = "applying" /\ ~panel[t].error /\ ~panel[t].hidden ~>
        \/ panel[t].shown.status # "applying" /\ domainRow.status # "applying"
        \/ panel[t].hidden
=============================================================================
