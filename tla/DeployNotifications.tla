------------------------ MODULE DeployNotifications ------------------------
(***************************************************************************)
(* The deploy-success e-mail of one account.  A cron tick looks at the     *)
(* ready image through several awaited calls, queues one notification per  *)
(* image digest in SQLite and sends it through a provider that drops       *)
(* requests whose idempotency key it still remembers.  Answers get lost,   *)
(* the process crashes, the account is erased in between.  Ages replace    *)
(* timestamps and saturate, so time is not bounded.                        *)
(***************************************************************************)
EXTENDS Naturals, FiniteSets

CONSTANTS
  Digests,       \* images that become ready
  RetryWindow,   \* 23 hours: no attempt this long after the first
  RetryPause,    \* five minutes between two attempts
  KeyRetention,  \* 24 hours: how long the provider remembers a key
  SendTime,      \* how long a request may be under way
  NoDigest

ASSUME NotificationAssumption ==
  /\ {RetryWindow, RetryPause, KeyRetention, SendTime} \subseteq Nat
  /\ RetryWindow + SendTime <= KeyRetention
  /\ NoDigest \notin Digests

VARIABLES
  ready,         \* the image whose pods are ready and whose URL answers, or NoDigest
  built,         \* the token shows the head of the branch built, and into the ready image: not
                 \* while its build runs, has failed or never ran, or the token is of no use
  owner,         \* the account: allowed, revoked or erased
  tick,          \* the cron run: its step, the digest it looks at, its request
  note,          \* deploy_notifications, by digest
  lastNotified,  \* users.last_notified_image_sha
  remembered,    \* provider: age of the key of each digest, or more than KeyRetention
  delivered      \* history: mails delivered per digest

mailVars == <<ready, built, owner, tick, note, lastNotified, remembered, delivered>>

-----------------------------------------------------------------------------
Forgotten == KeyRetention + 1
NoNote == [state |-> "none", since |-> 0, wait |-> 0, tried |-> FALSE]
Notes == [state : {"none", "pending", "sent", "expired"}, since : 0..RetryWindow,
          wait : 0..RetryPause, tried : BOOLEAN]
NoTick == [step |-> "idle", digest |-> NoDigest, underWay |-> 0]
Ticks == [step : {"idle", "argo", "stages", "live", "sending", "served"},
          digest : Digests \cup {NoDigest}, underWay : 0..SendTime]

MailTypeOK ==
  /\ ready \in Digests \cup {NoDigest} /\ built \in BOOLEAN
  /\ lastNotified \in Digests \cup {NoDigest}
  /\ owner \in {"allowed", "revoked", "erased"}
  /\ tick \in Ticks /\ note \in [Digests -> Notes]
  /\ remembered \in [Digests -> 0..Forgotten]
  /\ delivered \in [Digests -> Nat]

MailInit ==
  /\ ready = NoDigest /\ built = FALSE /\ owner = "allowed" /\ tick = NoTick
  /\ note = [d \in Digests |-> NoNote] /\ lastNotified = NoDigest
  /\ remembered = [d \in Digests |-> Forgotten]
  /\ delivered = [d \in Digests |-> 0]

provider == <<remembered, delivered>>

-----------------------------------------------------------------------------
(* Surroundings                                                            *)

ImageChanges(d) ==
  /\ ready' = d /\ d # ready
  /\ built' \in IF d = NoDigest THEN {FALSE} ELSE BOOLEAN
  /\ UNCHANGED <<owner, tick, note, lastNotified, provider>>

\* A push, the end of a build or of a token, a new login; each may be the last for good.
BuildChanges ==
  /\ ready # NoDigest /\ built' = ~built
  /\ UNCHANGED <<ready, owner, tick, note, lastNotified, provider>>

\* The administrator's switch, and softDeleteUser, which deletes the notifications.
OwnerChanges(o) ==
  /\ owner # "erased" /\ o # owner /\ owner' = o
  /\ note' = IF o = "erased" THEN [d \in Digests |-> NoNote] ELSE note
  /\ UNCHANGED <<ready, built, tick, lastNotified, provider>>

Older(age, cap) == IF age < cap THEN age + 1 ELSE cap

\* A unit of time; a request is under way no longer than SendTime.
MailTime ==
  /\ tick.step \in {"sending", "served"} => tick.underWay < SendTime
  /\ tick' = IF tick.step \in {"sending", "served"}
             THEN [tick EXCEPT !.underWay = @ + 1] ELSE tick
  /\ note' = [d \in Digests |-> [note[d] EXCEPT
       !.since = IF note[d].tried THEN Older(@, RetryWindow) ELSE @,
       !.wait = IF @ > 0 THEN @ - 1 ELSE 0]]
  /\ remembered' = [d \in Digests |-> Older(remembered[d], Forgotten)]
  /\ UNCHANGED <<ready, built, owner, lastNotified, delivered>>

\* running is a field of the process: a restart begins with no tick.
MailCrash ==
  /\ tick # NoTick /\ tick' = NoTick
  /\ UNCHANGED <<ready, built, owner, note, lastNotified, provider>>

-----------------------------------------------------------------------------
(* notifyReadyDeployments                                                  *)

quiet == <<ready, built, owner, note, lastNotified, provider>>

StartTick ==
  /\ tick = NoTick /\ owner = "allowed"
  /\ tick' = [NoTick EXCEPT !.step = "argo"]
  /\ UNCHANGED quiet

\* getApplication: the ready digest, unless it is the last one announced.
ReadReadyDigest ==
  /\ tick.step = "argo"
  /\ tick' = IF ready \in {NoDigest, lastNotified} THEN NoTick
             ELSE [tick EXCEPT !.step = "stages", !.digest = ready]
  /\ UNCHANGED quiet

\* getStages: every stage succeeds, the build of the head among them, for the same digest.
ReadStages ==
  /\ tick.step = "stages"
  /\ tick' = IF ready = tick.digest /\ built
             THEN [tick EXCEPT !.step = "live"] ELSE NoTick
  /\ UNCHANGED quiet

MailCheckFails ==
  /\ tick.step \in {"argo", "stages", "live"}
  /\ tick' = NoTick
  /\ UNCHANGED quiet

\* INSERT OR IGNORE on (user, repo, digest): the row there is, or a pending one.
Queued(d) == IF note[d].state = "none" THEN [NoNote EXCEPT !.state = "pending"] ELSE note[d]

WindowClosed(n) == n.tried /\ n.since >= RetryWindow
Due(n) == n.state = "pending" /\ ~WindowClosed(n) /\ n.wait = 0

AttemptedAnew(n) == [n EXCEPT !.tried = TRUE, !.since = 0, !.wait = RetryPause]

\* startDeployNotificationAttempt keeps the time of the first attempt.
Attempted(n) == [n EXCEPT !.tried = TRUE, !.since = IF n.tried THEN @ ELSE 0,
                          !.wait = RetryPause]

\* The live URL answers; the rest runs without an await up to the request.
Dispatch ==
  /\ tick.step = "live"
  /\ LET d == tick.digest  n == Queued(d) IN
     IF owner # "allowed"
     THEN tick' = NoTick /\ note' = note
     ELSE IF Due(n)
     THEN /\ note' = [note EXCEPT ![d] = Attempted(n)]
          /\ tick' = [tick EXCEPT !.step = "sending", !.underWay = 0]
     ELSE /\ note' = [note EXCEPT ![d] = IF n.state = "pending" /\ WindowClosed(n)
                                         THEN [n EXCEPT !.state = "expired"] ELSE n]
          /\ tick' = NoTick
  /\ UNCHANGED <<ready, built, owner, lastNotified, provider>>

\* The provider answers a remembered key without a new mail.
Serve ==
  /\ tick.step = "sending"
  /\ tick' = [tick EXCEPT !.step = "served"]
  /\ LET d == tick.digest IN
     IF remembered[d] < KeyRetention
     THEN UNCHANGED provider
     ELSE /\ remembered' = [remembered EXCEPT ![d] = 0]
          /\ delivered' = [delivered EXCEPT ![d] = @ + 1]
  /\ UNCHANGED <<ready, built, owner, note, lastNotified>>

\* sent, and the account is still there: finishDeployNotification.
RecordSent ==
  /\ tick.step = "served"
  /\ tick' = NoTick
  /\ IF owner = "erased" THEN UNCHANGED <<note, lastNotified>>
     ELSE /\ note' = [note EXCEPT ![tick.digest].state = "sent"]
          /\ lastNotified' = tick.digest
  /\ UNCHANGED <<ready, built, owner, provider>>

\* Refused, timed out, or served with the answer lost: sendDeploySuccess says false.
SendFails ==
  /\ tick.step \in {"sending", "served"}
  /\ tick' = NoTick
  /\ UNCHANGED quiet

-----------------------------------------------------------------------------
MailNext ==
  \/ \E d \in Digests \cup {NoDigest} : ImageChanges(d)
  \/ BuildChanges
  \/ \E o \in {"allowed", "revoked", "erased"} : OwnerChanges(o)
  \/ MailTime \/ MailCrash
  \/ StartTick \/ ReadReadyDigest \/ ReadStages \/ MailCheckFails \/ Dispatch
  \/ Serve \/ RecordSent \/ SendFails

MailSpec == MailInit /\ [][MailNext]_mailVars

\* Time passes, a request to the provider ends (it has a time limit), and the live URL of
\* a ready image does not fail for ever.  Nothing is assumed of the other reads, of which
\* getCurrentDeployment has no time limit, nor of the provider.
MailFairness ==
  /\ WF_mailVars(MailTime)
  /\ \A d \in Digests : SF_mailVars(tick.digest = d /\ Dispatch)
  /\ WF_mailVars(Serve \/ RecordSent \/ SendFails)

-----------------------------------------------------------------------------
(* Properties                                                              *)

\* At most one mail per deployed image, whatever answers are lost and however often
\* the process restarts (the comment at deploy-notifications.service.ts:56); and the
\* record never runs ahead of it: what counts as sent, and the digest that stops further
\* mails, was delivered (users.repository finishDeployNotification).
MailedOnce ==
  /\ \A d \in Digests : delivered[d] <= 1 /\ (note[d].state = "sent" => delivered[d] = 1)
  /\ lastNotified # NoDigest => delivered[lastNotified] = 1

\* An image that ticks find ready and fully built again and again, for an account that
\* stays allowed, is announced, or given up after the window: whatever answers are lost
\* and however often the process stops, no notification is retried for ever
\* (users.repository startDeployNotificationAttempt, finishDeployNotification).
NoteSettles ==
  \A d \in Digests :
    []<>(tick.step = "live" /\ tick.digest = d) /\ <>[](owner = "allowed") =>
      <>(note[d].state \in {"sent", "expired"})
=============================================================================
