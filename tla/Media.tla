--------------------------------- MODULE Media ---------------------------------
(***************************************************************************)
(* Image and video generation in the OpenHanako server: the store of media *)
(* tasks and its poller (core/media), the store of deferred results, the   *)
(* coordinator that hands them to the session, and the extension that does *)
(* so when the session starts (lib/deferred-result-*.ts).                  *)
(*                                                                         *)
(* The two stores are written to their files independently and a while     *)
(* after they change; the server may be killed at any moment.  One session *)
(* with desktop delivery.  A step is what runs between two awaits.         *)
(***************************************************************************)
EXTENDS Naturals

CONSTANTS
    Tasks,
    MaxRetries,     \* bound on the retries of an image
    MaxCrashes,     \* bound on restarts
    None            \* no delivery; a file that is up to date

ASSUME BoundsAssumption == MaxRetries \in Nat /\ MaxCrashes \in Nat
ASSUME NoneAssumption   == None \notin [at : {"loading", "sending", "apart"}, of : Nat]

Attempts == 0..MaxRetries
Outcomes == {"resolved", "failed", "aborted"}

VARIABLES
    media,          \* TaskStore: status, submitState, retryCount
    active,         \* Poller: the tasks that it polls
    cancelled,      \* Poller: the fence against queries in flight
    submits,        \* calls of adapter.submit in flight
    checks,         \* calls of _checkTask in flight: what they await, and for which task
    deferred,       \* DeferredResultStore; of: the attempt it is about
    inFlight,       \* DeferredResultCoordinator: of: the attempt that is delivered
    session,        \* active, being archived, archived
    loaded,         \* its runtime is in memory
    leaving,        \* that is being torn down, to hibernate
    scan,           \* the extension's timer of session_start is pending
    mediaFile, deferredFile,    \* what the files hold, of a store that is ahead of its file
    crashes,
    torn,           \* history: a crash came before a store was written; the other
                    \* histories are not kept after it
    told,           \* history: what the session has of each task
    crossed         \* history: tasks retried while a delivery was in flight

generating == <<media, active, cancelled, submits, checks>>
delivering == <<deferred, inFlight, told>>
hosting    == <<session, loaded, leaving, scan>>
files      == <<mediaFile, deferredFile>>
trouble    == <<crashes, torn, crossed>>
vars       == <<generating, delivering, hosting, files, trouble>>

Entry == [status : {"none", "pending"} \cup Outcomes, delivered : BOOLEAN,
          suppressed : BOOLEAN, of : Attempts, image : BOOLEAN]
Job   == [status : {"none", "pending", "done", "failed", "cancelled"},
          submit : {"submitting", "submitted", "files", "failed"}, retries : Attempts,
          image : BOOLEAN]

NoEntry == [status |-> "none", delivered |-> FALSE, suppressed |-> FALSE, of |-> 0,
            image |-> FALSE]
NoJob   == [status |-> "none", submit |-> "submitted", retries |-> 0, image |-> FALSE]

TypeOK ==
    /\ media \in [Tasks -> Job] /\ mediaFile \in {None} \cup [Tasks -> Job]
    /\ deferred \in [Tasks -> Entry] /\ deferredFile \in {None} \cup [Tasks -> Entry]
    /\ active \subseteq Tasks /\ cancelled \subseteq Tasks
    /\ submits \subseteq Tasks \X Attempts
    /\ checks \subseteq {"query", "read"} \X Tasks
    /\ inFlight \in [Tasks -> {None} \cup [at : {"loading", "sending", "apart"}, of : Attempts]]
    /\ session \in {"active", "archiving", "archived"}
    /\ loaded \in BOOLEAN /\ leaving \in BOOLEAN /\ scan \in BOOLEAN
    /\ told \in [Tasks -> SUBSET (Attempts \X Outcomes)]
    /\ crashes \in 0..MaxCrashes /\ torn \in BOOLEAN
    /\ crossed \subseteq Tasks

Init ==
    /\ media = [t \in Tasks |-> NoJob] /\ mediaFile = None
    /\ deferred = [t \in Tasks |-> NoEntry] /\ deferredFile = None
    /\ active = {} /\ cancelled = {} /\ submits = {} /\ checks = {}
    /\ inFlight = [t \in Tasks |-> None]
    /\ session = "active" /\ loaded = TRUE /\ leaving = FALSE /\ scan = FALSE
    /\ told = [t \in Tasks |-> {}]
    /\ crashes = 0 /\ torn = FALSE /\ crossed = {}

------------------------------------------------------------------------------
(* Deferred results.                                                       *)

\* isDeliverable.
Due(e) == e.status \in Outcomes /\ ~e.delivered

\* Results are for the page only, but the agent is woken when an image failed.
Wakes(e) == e.image /\ e.status = "failed"

Pending(job) == [NoEntry EXCEPT !.status = "pending", !.of = job.retries, !.image = job.image]

Suppressed(e) ==
    [e EXCEPT !.status = IF @ = "pending" THEN "aborted" ELSE @,
              !.delivered = TRUE, !.suppressed = TRUE]

\* Mutant of Marked: the mark lifts the fence.
MarkedLifts(e) ==
    IF e.status = "none" THEN e ELSE [e EXCEPT !.delivered = TRUE, !.suppressed = FALSE]

\* markDelivered: a delivery that comes to its end does not lift the fence.
Marked(e) ==
    IF e.status # "none" /\ ~e.suppressed THEN [e EXCEPT !.delivered = TRUE] ELSE e

\* The session gets the outcome of t's attempt n, as a message or as an entry of its file.
Says(said) == told' = IF torn THEN told ELSE [t \in Tasks |-> told[t] \cup said[t]]
Tells(t, n, how) == Says([u \in Tasks |-> IF u = t THEN {<<n, how>>} ELSE {}])

Put(t, e) == deferred' = [deferred EXCEPT ![t] = e]
Start(t, e, at) == inFlight' = [inFlight EXCEPT ![t] = [at |-> at, of |-> e.of]]

\* Mutant of Deliver: marked before the session is loaded.
DeliverMarks(t, e) ==
    IF inFlight[t] # None \/ ~Due(e)
    THEN Put(t, e) /\ UNCHANGED <<inFlight, told>>
    ELSE IF session = "archived"
    THEN Put(t, Suppressed(e)) /\ UNCHANGED <<inFlight, told>>
    ELSE \/ Put(t, Marked(e)) /\ Tells(t, e.of, e.status) /\ UNCHANGED inFlight
         \/ /\ Wakes(e) /\ ~loaded
            /\ Put(t, Marked(e)) /\ Start(t, e, "loading") /\ UNCHANGED told

\* deliverTask, of a task whose entry is e by now.  One delivery of a task at a
\* time; what goes wrong is left for the next flush.
Deliver(t, e) ==
    IF inFlight[t] # None \/ ~Due(e)
    THEN Put(t, e) /\ UNCHANGED <<inFlight, told>>
    ELSE IF session = "archived"
    THEN Put(t, Suppressed(e)) /\ UNCHANGED <<inFlight, told>>
    ELSE \/ Put(t, e) /\ UNCHANGED <<inFlight, told>>
         \/ /\ ~Wakes(e)
            /\ Put(t, Marked(e)) /\ Tells(t, e.of, e.status)
            /\ UNCHANGED inFlight
         \/ /\ Wakes(e) /\ loaded
            /\ Put(t, e) /\ Start(t, e, "sending") /\ Tells(t, e.of, e.status)
         \/ /\ Wakes(e) /\ ~loaded
            /\ Put(t, e) /\ Start(t, e, "loading") /\ UNCHANGED told

\* Mutant of Settle: what has ended ends again.
SettleAgain(t, how) ==
    IF deferred[t].status # "none" THEN Deliver(t, [deferred[t] EXCEPT !.status = how])
    ELSE UNCHANGED delivering

\* resolve, fail and abort: of a pending entry only.
Settle(t, how) ==
    IF deferred[t].status = "pending"
    THEN Deliver(t, [deferred[t] EXCEPT !.status = how])
    ELSE UNCHANGED delivering

\* Mutant of Flush: nothing is loaded for it.
FlushLoaded(t) ==
    /\ Due(deferred[t]) /\ inFlight[t] = None /\ loaded
    /\ Deliver(t, deferred[t])
    /\ UNCHANGED <<generating, hosting, files, trouble>>

\* flushUndelivered.
Flush(t) ==
    /\ Due(deferred[t]) /\ inFlight[t] = None
    /\ Deliver(t, deferred[t])
    /\ UNCHANGED <<generating, hosting, files, trouble>>

Ends(t) == inFlight' = [inFlight EXCEPT ![t] = None]
At(t, where) == inFlight[t] # None /\ inFlight[t].at = where

\* deliverCustomMessage, when the session has been loaded: the entry may have been
\* suppressed by now.  What is sent is what there was to send at the start.
Fenced(t) ==
    /\ At(t, "loading")
    /\ session # "archived" /\ deferred[t].suppressed
    /\ loaded' = TRUE /\ scan' = (scan \/ ~loaded)
    /\ Ends(t)
    /\ UNCHANGED <<generating, deferred, told, session, leaving, files, trouble>>
HandOver(t) ==
    /\ At(t, "loading")
    /\ session # "archived" /\ ~deferred[t].suppressed
    /\ loaded' = TRUE /\ scan' = (scan \/ ~loaded)
    /\ inFlight' = [inFlight EXCEPT ![t].at = "sending"]
    /\ Tells(t, inFlight[t].of, "failed")
    /\ UNCHANGED <<generating, deferred, session, leaving, files, trouble>>

\* The session cannot be loaded, or the turn that was started fails.
DeliveryFails(t) ==
    /\ inFlight[t] # None
    /\ Ends(t)
    /\ UNCHANGED <<generating, deferred, told, hosting, files, trouble>>

\* The turn is over, be it of a runtime that the session has lost meanwhile.
Sent(t) ==
    /\ At(t, "sending") \/ At(t, "apart")
    /\ Put(t, Marked(deferred[t])) /\ Ends(t)
    /\ UNCHANGED <<generating, told, hosting, files, trouble>>

\* The extension tells the agent what it finds undelivered, whether or not the
\* coordinator is at it.
SessionStarted ==
    LET found == {t \in Tasks : Due(deferred[t]) /\ Wakes(deferred[t])} IN
    /\ scan /\ scan' = FALSE
    /\ deferred' = [t \in Tasks |-> IF t \in found THEN Marked(deferred[t]) ELSE deferred[t]]
    /\ Says([t \in Tasks |-> IF t \in found THEN {<<deferred[t].of, "failed">>} ELSE {}])
    /\ UNCHANGED <<generating, inFlight, session, loaded, leaving, files, trouble>>

------------------------------------------------------------------------------
(* Generation.                                                             *)

New(t) == media[t].status = "none" /\ deferred[t].status = "none"

\* submitImage: the task, its entry, and the provider's call in the background.
GenerateImage(t) ==
    /\ session = "active" /\ New(t)
    /\ media' = [media EXCEPT ![t] = [status |-> "pending", submit |-> "submitting",
                                      retries |-> 0, image |-> TRUE]]
    /\ Put(t, Pending(media'[t]))
    /\ cancelled' = cancelled \ {t} /\ active' = active \cup {t}
    /\ submits' = submits \cup {<<t, 0>>}
    /\ UNCHANGED <<checks, inFlight, told, hosting, files, trouble>>

\* generateVideo: the provider's call comes first.
GenerateVideo(t) ==
    /\ session = "active" /\ New(t)
    /\ \E s \in {"submitted", "files"} :
          media' = [media EXCEPT ![t] = [status |-> "pending", submit |-> s,
                                        retries |-> 0, image |-> FALSE]]
    /\ Put(t, Pending(media'[t]))
    /\ cancelled' = cancelled \ {t} /\ active' = active \cup {t}
    /\ UNCHANGED <<submits, checks, inFlight, told, hosting, files, trouble>>

\* Mutant of RetryImage: the fence against old queries stays.
RetryImageFenced(t) ==
    LET n == media[t].retries + 1 IN
    /\ media[t].image /\ media[t].status \in {"failed", "cancelled"} /\ n \in Attempts
    /\ media' = [media EXCEPT ![t] = [@ EXCEPT !.status = "pending", !.submit = "submitting",
                                               !.retries = n]]
    /\ Put(t, Pending(media'[t]))
    /\ active' = active \cup {t} /\ submits' = submits \cup {<<t, n>>}
    /\ UNCHANGED <<cancelled, checks, inFlight, told, hosting, files, trouble>>

\* retryImageTask.  An old call of adapter.submit may still be under way.
RetryImage(t) ==
    LET n == media[t].retries + 1 IN
    /\ media[t].image /\ media[t].status \in {"failed", "cancelled"} /\ n \in Attempts
    /\ media' = [media EXCEPT ![t] = [@ EXCEPT !.status = "pending", !.submit = "submitting",
                                               !.retries = n]]
    /\ Put(t, Pending(media'[t]))
    /\ cancelled' = cancelled \ {t} /\ active' = active \cup {t}
    /\ submits' = submits \cup {<<t, n>>}
    /\ crossed' = IF inFlight[t] # None /\ ~torn THEN crossed \cup {t} ELSE crossed
    /\ UNCHANGED <<checks, inFlight, told, hosting, files, crashes, torn>>

\* runSubmitInBackground: the task is updated, whatever has become of it.
SubmitReturns(t, n) ==
    /\ <<t, n>> \in submits /\ submits' = submits \ {<<t, n>>}
    /\ \E s \in {"submitted", "files"} :
          media' = [media EXCEPT ![t].submit = IF @ = "files" THEN @ ELSE s]
    /\ UNCHANGED <<active, cancelled, checks, delivering, hosting, files, trouble>>
SubmitFails(t, n) ==
    /\ <<t, n>> \in submits /\ submits' = submits \ {<<t, n>>}
    /\ media' = [media EXCEPT ![t].status = "failed", ![t].submit = "failed"]
    /\ Settle(t, "failed")
    /\ UNCHANGED <<active, cancelled, checks, hosting, files, trouble>>

\* _tick and checkNow: a task that has files is done once they have been read, for
\* another the provider is asked.  Any number of polls overlap: a call that is over
\* may leave others like it behind.
Tick(t) ==
    /\ t \in active
    /\ media[t].status = "pending" /\ media[t].submit # "submitting"
    /\ t \notin cancelled
    /\ checks' = checks \cup {<<IF media[t].submit = "files" THEN "read" ELSE "query", t>>}
    /\ UNCHANGED <<media, active, cancelled, submits, delivering, hosting, files, trouble>>
Drop(t) ==
    /\ t \in active /\ media[t].status # "pending"
    /\ active' = active \ {t}
    /\ UNCHANGED <<media, cancelled, submits, checks, delivering, hosting, files, trouble>>

Query(t) == <<"query", t>>
Read(t)  == <<"read", t>>
Over(c)  == checks' \in {checks, checks \ {c}}

\* Not ready, or an error that is not yet one too many, or fenced off.
NoAnswer(t) ==
    /\ Query(t) \in checks /\ checks' = checks \ {Query(t)}
    /\ UNCHANGED <<media, active, cancelled, submits, delivering, hosting, files, trouble>>
Generated(t) ==
    /\ Query(t) \in checks /\ t \notin cancelled
    /\ \E rest \in {checks, checks \ {Query(t)}} : checks' = rest \cup {Read(t)}
    /\ UNCHANGED <<media, active, cancelled, submits, delivering, hosting, files, trouble>>
\* The provider says so, or there was one error too many: then a fence that has gone
\* up meanwhile is not looked at.
Failed(t) ==
    /\ Query(t) \in checks
    /\ Over(Query(t))
    /\ media' = [media EXCEPT ![t].status = "failed"]
    /\ active' = active \ {t}
    /\ Settle(t, "failed")
    /\ UNCHANGED <<cancelled, submits, hosting, files, trouble>>

FilesRead(t) ==
    /\ Read(t) \in checks /\ Over(Read(t))
    /\ media' = [media EXCEPT ![t].status = "done", ![t].submit = "files"]
    /\ active' = active \ {t}
    /\ Settle(t, "resolved")
    /\ UNCHANGED <<cancelled, submits, hosting, files, trouble>>

------------------------------------------------------------------------------
(* Cancelling, discarding, archiving.                                      *)

\* Poller.cancel, by way of the task registry, which knows the pending ones.
Cancellable(S) == {t \in S \cap active : media[t].status = "pending"}
Cancels(S) ==
    /\ media' = [t \in Tasks |-> IF t \in S THEN [media[t] EXCEPT !.status = "cancelled"]
                                 ELSE media[t]]
    /\ cancelled' = cancelled \cup S /\ active' = active \ S
    /\ UNCHANGED <<submits, checks>>

\* Mutant of Cancel: the poller is told and no one else.
CancelSilent(t) ==
    /\ t \in Cancellable(Tasks)
    /\ Cancels({t})
    /\ UNCHANGED <<delivering, hosting, files, trouble>>

Cancel(t) ==
    /\ t \in Cancellable(Tasks)
    /\ Cancels({t})
    /\ Settle(t, "aborted")
    /\ UNCHANGED <<hosting, files, trouble>>

\* commitRetryBranch: a turn is asked again, and the tasks of the discarded branch
\* are fenced first and cancelled then.
Discard(S) ==
    /\ session = "active" /\ S # {}
    /\ deferred' = [t \in Tasks |->
                      IF t \in S /\ deferred[t].status # "none"
                      THEN Suppressed(deferred[t]) ELSE deferred[t]]
    /\ Cancels(Cancellable(S))
    /\ UNCHANGED <<inFlight, told, hosting, files, trouble>>

\* Stopping the session cancels its tasks, whose entries say so to the page, and
\* suppresses the rest (suppressBySession).  A session in a turn, of the agent's
\* own or of a delivery, is taken out of memory.
StopsAll ==
    LET stopped == Cancellable(Tasks) IN
    /\ Cancels(stopped)
    /\ \E heard \in SUBSET {t \in stopped : deferred[t].status = "pending"
                                  /\ ~deferred[t].delivered /\ inFlight[t] = None} :
          Says([t \in Tasks |-> IF t \in heard THEN {<<deferred[t].of, "aborted">>} ELSE {}])
    /\ deferred' = [t \in Tasks |->
                      LET e == IF t \in stopped /\ deferred[t].status = "pending"
                               THEN [deferred[t] EXCEPT !.status = "aborted"] ELSE deferred[t]
                      IN  IF e.status = "pending" \/ Due(e) THEN Suppressed(e) ELSE e]
Streaming == \E t \in Tasks : At(t, "sending")
Parted == [t \in Tasks |-> IF At(t, "sending") THEN [inFlight[t] EXCEPT !.at = "apart"]
                           ELSE inFlight[t]]
Stop ==
    /\ session = "active"
    /\ StopsAll
    /\ loaded' \in {loaded /\ ~Streaming, FALSE} /\ scan' = (scan /\ loaded')
    /\ inFlight' = IF loaded' THEN inFlight ELSE Parted
    /\ UNCHANGED <<session, leaving, files, trouble>>

\* Archiving: the same, and when the session's runtime is gone, pending entries are
\* deleted (clearBySession).
Archive ==
    /\ session = "active" /\ session' = "archiving"
    /\ StopsAll
    /\ UNCHANGED <<inFlight, loaded, leaving, scan, files, trouble>>
Archived ==
    /\ session = "archiving" /\ session' = "archived"
    /\ loaded' = FALSE /\ scan' = FALSE /\ inFlight' = Parted
    /\ deferred' = [t \in Tasks |->
                      IF deferred[t].status = "pending" THEN NoEntry ELSE deferred[t]]
    /\ UNCHANGED <<generating, told, leaving, files, trouble>>

------------------------------------------------------------------------------
(* The session's runtime, the files, the process.                          *)

\* The user opens the session.
Load ==
    /\ session = "active" /\ ~loaded
    /\ loaded' = TRUE /\ scan' = TRUE
    /\ UNCHANGED <<generating, delivering, session, leaving, files, trouble>>

\* A session at rest is hibernated when memory is short: it is asked whether it is at
\* rest, and while its extensions shut down it is still there, for deliveries too.
\* What goes in the end is the runtime that the session has by then, its timer, for
\* simplicity, along with it.
Hibernate ==
    /\ loaded /\ ~leaving
    /\ ~Streaming /\ \A t \in Tasks : deferred[t].status # "pending"
    /\ leaving' = TRUE
    /\ UNCHANGED <<generating, delivering, session, loaded, scan, files, trouble>>
Hibernated ==
    /\ leaving /\ leaving' = FALSE
    /\ loaded' = FALSE /\ scan' = FALSE /\ inFlight' = Parted
    /\ UNCHANGED <<generating, deferred, told, session, files, trouble>>

\* A store is written to its file a while after it has changed: at a crash the file
\* holds the store as it is or as it was at some moment before.  From such a moment,
\* these steps, the file is behind until the crash.  One of the two is enough: of two
\* that are behind, the crash may as well have come when the later was written.
MayLag == crashes < MaxCrashes /\ mediaFile = None /\ deferredFile = None
MediaLags ==
    /\ MayLag /\ mediaFile' = media
    /\ UNCHANGED <<generating, delivering, hosting, deferredFile, trouble>>
DeferredLags ==
    /\ MayLag /\ deferredFile' = deferred
    /\ UNCHANGED <<generating, delivering, hosting, mediaFile, trouble>>

\* The submission was cut off.  Mutant of it: it never was.
CutNever(job) == FALSE
Cut(job) == job.submit = "submitting"

\* Both files are loaded, and Poller.start takes up what was pending: a task whose
\* submission was cut off has failed, another is polled again and registered
\* again in case that it is not.
Restart ==
    LET jobs    == IF mediaFile = None THEN media ELSE mediaFile
        entries == IF deferredFile = None THEN deferred ELSE deferredFile
        pending == {t \in Tasks : jobs[t].status = "pending"}
        cut     == {t \in pending : Cut(jobs[t])}
        failing == {t \in cut : entries[t].status = "pending"}
        failed(t) == [entries[t] EXCEPT !.status = "failed"]
    IN
    /\ crashes < MaxCrashes /\ crashes' = crashes + 1
    /\ torn' = (torn \/ jobs # media \/ entries # deferred)
    /\ media' = [t \in Tasks |->
                   IF t \in cut THEN [jobs[t] EXCEPT !.status = "failed", !.submit = "failed"]
                   ELSE jobs[t]]
    /\ deferred' = [t \in Tasks |->
                      IF t \in failing
                      THEN IF session = "archived" /\ ~entries[t].delivered
                           THEN Suppressed(failed(t)) ELSE failed(t)
                      ELSE IF t \in pending \ cut /\ entries[t].status = "none"
                      THEN Pending(jobs[t])
                      ELSE entries[t]]
    /\ inFlight' = [t \in Tasks |->
                      IF t \in failing /\ session # "archived" /\ ~entries[t].delivered
                      THEN [at |-> "loading", of |-> entries[t].of] ELSE None]
    /\ active' = pending \ cut /\ cancelled' = {}
    /\ submits' = {} /\ checks' = {}
    /\ session' = IF session = "archived" THEN "archived" ELSE "active"
    /\ loaded' = FALSE /\ leaving' = FALSE /\ scan' = FALSE
    /\ mediaFile' = None /\ deferredFile' = None
    /\ told' = IF torn' THEN [t \in Tasks |-> {}] ELSE told
    /\ crossed' = IF torn' THEN {} ELSE crossed

------------------------------------------------------------------------------
Answer(t)   == Generated(t) \/ Failed(t)
Checking(t) == NoAnswer(t) \/ Answer(t) \/ FilesRead(t)
Submitting(t) == \E n \in Attempts : SubmitReturns(t, n) \/ SubmitFails(t, n)

Next ==
    \/ \E t \in Tasks :
          \/ GenerateImage(t) \/ GenerateVideo(t) \/ RetryImage(t) \/ Submitting(t)
          \/ Tick(t) \/ Drop(t) \/ Checking(t) \/ Cancel(t)
          \/ Flush(t) \/ Fenced(t) \/ HandOver(t) \/ DeliveryFails(t) \/ Sent(t)
    \/ \E S \in SUBSET Tasks : Discard(S)
    \/ SessionStarted
    \/ Stop \/ Archive \/ Archived \/ Load \/ Hibernate \/ Hibernated
    \/ MediaLags \/ DeferredLags \/ Restart

\* Timers fire, calls return, and providers, loading and sending do not fail for
\* ever.
Fairness ==
    /\ \A t \in Tasks :
          /\ \A n \in Attempts : WF_vars(SubmitReturns(t, n) \/ SubmitFails(t, n))
          /\ SF_vars(Tick(t)) /\ SF_vars(Answer(t)) /\ WF_vars(FilesRead(t))
          /\ SF_vars(Flush(t) /\ <<deferred, inFlight>>' # <<deferred, inFlight>>)
          /\ WF_vars(Fenced(t)) /\ SF_vars(HandOver(t)) /\ SF_vars(Sent(t))
          /\ WF_vars(session = "archived" /\ DeliveryFails(t))

Spec == Init /\ [][Next]_vars /\ Fairness

------------------------------------------------------------------------------
(* Properties.                                                             *)

Heard(t) ==
    deferred[t].status \in Outcomes /\ deferred[t].delivered =>
        deferred[t].suppressed \/ <<deferred[t].of, deferred[t].status>> \in told[t]

\* Every pending task is polled, with no fence in the poll's way, and while it is
\* being submitted there is a submission under way: after any number of retries
\* of a call that is still running, of cancellations and of restarts.
PendingIsPolled ==
    \A t \in Tasks : media[t].status = "pending" =>
        /\ t \in active \ cancelled
        /\ media[t].submit = "submitting" => \E n \in Attempts : <<t, n>> \in submits

\* No entry waits for a task that has ended: what is pending in the one store is
\* pending in the other, unless a crash came between their writes.
NobodyWaits ==
    ~torn => \A t \in Tasks : deferred[t].status = "pending" => media[t].status = "pending"

\* The session is never told two outcomes of one attempt, though polls overlap,
\* calls outlive their attempt, and a cancelled task may still be generated.
OneOutcome ==
    ~torn => \A t \in Tasks : \A x, y \in told[t] : x[1] = y[1] => x[2] = y[2]

\* DeferredResultStore.markDelivered: a stale completion must not reopen delivery.
\* Nothing of a task that was discarded is told to the session, and only a retry
\* of the task lifts the fence.
FenceHolds ==
    [][~torn' => \A t \in Tasks : deferred[t].suppressed =>
          /\ told'[t] = told[t]
          /\ deferred'[t].suppressed \/ deferred'[t].of > deferred[t].of]_vars

\* A task comes to an end, also when the server is restarted.
TaskEnds == \A t \in Tasks : media[t].status = "pending" ~> media[t].status # "pending"

\* No result stays undelivered: whatever fails, is loaded, stopped or restarted
\* meanwhile, it is delivered or fenced off in the end, or tried again.
NothingStaysDue == \A t \in Tasks : Due(deferred[t]) ~> ~Due(deferred[t])

\* markDelivered: "marks a task's result as delivered (called once it was sent)".
\* What is marked and not fenced off was told to the session, as it was, except
\* for a task that was retried while it was delivered: see MarkedIsTold.
DeliveredIsTold == \A t \in Tasks : torn \/ t \in crossed \/ Heard(t)

\* The same with retries, which is not so: the delivery of a failure ends with the
\* agent's turn, and if the image was retried meanwhile the mark is put on the
\* result to come, which nobody will send.
MarkedIsTold == \A t \in Tasks : Heard(t)
==============================================================================
