------------------------------ MODULE Media_proofs ------------------------------
(***************************************************************************)
(* What Media promises of a task and its result, for any number of tasks,  *)
(* retries and crashes.                                                    *)
(***************************************************************************)
EXTENDS Media, TLAPS

Flights == [at : {"loading", "sending", "apart"}, of : Attempts]

------------------------------------------------------------------------------
(* Types.                                                                  *)

LEMMA AttemptsAreNaturals ==
    /\ 0 \in Attempts
    /\ \A n \in Attempts : n \in Nat /\ n + 1 \in Nat
BY BoundsAssumption DEF Attempts

LEMMA EntryTypes ==
    ASSUME NEW e \in Entry
    PROVE  /\ Suppressed(e) \in Entry /\ Marked(e) \in Entry
           /\ \A how \in Outcomes : [e EXCEPT !.status = how] \in Entry
           /\ NoEntry \in Entry
           /\ Suppressed(e).status \in Outcomes \cup {"none"}
BY AttemptsAreNaturals DEF Entry, Suppressed, Marked, NoEntry, Outcomes

LEMMA PendingType ==
    ASSUME NEW job \in Job
    PROVE  /\ Pending(job) \in Entry
           /\ Pending(job).status = "pending" /\ Pending(job).of = job.retries
           /\ Pending(job).delivered = FALSE /\ Pending(job).suppressed = FALSE
BY AttemptsAreNaturals DEF Entry, Job, Pending, NoEntry

\* What is said is an attempt's outcome.
LEMMA SaysTypes ==
    ASSUME TypeOK, NEW said, Says(said),
           \A t \in Tasks : said[t] \subseteq Attempts \X Outcomes
    PROVE  told' \in [Tasks -> SUBSET (Attempts \X Outcomes)]
BY DEF TypeOK, Says

LEMMA TellsTypes ==
    ASSUME TypeOK, NEW t \in Tasks, NEW n \in Attempts, NEW how \in Outcomes, Tells(t, n, how)
    PROVE  told' \in [Tasks -> SUBSET (Attempts \X Outcomes)]
BY SaysTypes DEF Tells

LEMMA DeliverTypes ==
    ASSUME TypeOK, NEW t \in Tasks, NEW e \in Entry, Deliver(t, e)
    PROVE  /\ deferred' \in [Tasks -> Entry]
           /\ inFlight' \in [Tasks -> {None} \cup Flights]
           /\ told' \in [Tasks -> SUBSET (Attempts \X Outcomes)]
<1> /\ e.of \in Attempts /\ Suppressed(e) \in Entry /\ Marked(e) \in Entry
  BY EntryTypes DEF Entry
<1>1. deferred' \in [Tasks -> Entry]
  BY DEF Deliver, Put, TypeOK
<1>2. inFlight' \in [Tasks -> {None} \cup Flights]
  <2>1. CASE UNCHANGED inFlight
    BY <2>1 DEF TypeOK, Flights
  <2>2. CASE \E at \in {"sending", "loading"} : Start(t, e, at)
    BY <2>2 DEF Start, TypeOK, Flights
  <2> QED  BY <2>1, <2>2 DEF Deliver
<1>3. told' \in [Tasks -> SUBSET (Attempts \X Outcomes)]
  <2>1. CASE UNCHANGED told
    BY <2>1 DEF TypeOK
  <2>2. CASE Tells(t, e.of, e.status) /\ Due(e)
    BY <2>2, TellsTypes DEF Due
  <2> QED  BY <2>1, <2>2 DEF Deliver
<1> QED  BY <1>1, <1>2, <1>3

LEMMA SettleTypes ==
    ASSUME TypeOK, NEW t \in Tasks, NEW how \in Outcomes, Settle(t, how)
    PROVE  /\ deferred' \in [Tasks -> Entry]
           /\ inFlight' \in [Tasks -> {None} \cup Flights]
           /\ told' \in [Tasks -> SUBSET (Attempts \X Outcomes)]
<1> deferred[t] \in Entry /\ [deferred[t] EXCEPT !.status = how] \in Entry
  BY EntryTypes DEF TypeOK
<1>1. CASE deferred[t].status = "pending"
  BY <1>1, DeliverTypes DEF Settle
<1>2. CASE deferred[t].status # "pending"
  BY <1>2 DEF Settle, delivering, TypeOK, Flights
<1> QED  BY <1>1, <1>2

\* TypeOK in parts: what generating, delivering and the rest keep.
GeneratingOK ==
    /\ media \in [Tasks -> Job]
    /\ active \subseteq Tasks /\ cancelled \subseteq Tasks
    /\ submits \subseteq Tasks \X Attempts
    /\ checks \subseteq {"query", "read"} \X Tasks
DeliveringOK ==
    /\ deferred \in [Tasks -> Entry]
    /\ inFlight \in [Tasks -> {None} \cup Flights]
    /\ told \in [Tasks -> SUBSET (Attempts \X Outcomes)]
HostingOK ==
    /\ session \in {"active", "archiving", "archived"}
    /\ loaded \in BOOLEAN /\ leaving \in BOOLEAN /\ scan \in BOOLEAN
FilesOK ==
    /\ mediaFile \in {None} \cup [Tasks -> Job]
    /\ deferredFile \in {None} \cup [Tasks -> Entry]
TroubleOK == crashes \in 0..MaxCrashes /\ torn \in BOOLEAN /\ crossed \subseteq Tasks

LEMMA TypeParts == TypeOK <=> GeneratingOK /\ DeliveringOK /\ HostingOK /\ FilesOK /\ TroubleOK
BY DEF TypeOK, GeneratingOK, DeliveringOK, HostingOK, FilesOK, TroubleOK, Flights

LEMMA UnchangedParts ==
    /\ GeneratingOK /\ UNCHANGED generating => GeneratingOK'
    /\ DeliveringOK /\ UNCHANGED delivering => DeliveringOK'
    /\ HostingOK /\ UNCHANGED hosting => HostingOK'
    /\ FilesOK /\ UNCHANGED files => FilesOK'
    /\ TroubleOK /\ UNCHANGED trouble => TroubleOK'
BY DEF GeneratingOK, DeliveringOK, HostingOK, FilesOK, TroubleOK,
       generating, delivering, hosting, files, trouble

LEMMA SettleParts ==
    ASSUME TypeOK, NEW t \in Tasks, NEW how \in Outcomes, Settle(t, how)
    PROVE  DeliveringOK'
BY SettleTypes DEF DeliveringOK

\* A job of the tasks that is rewritten, a job that is put down.
LEMMA JobTypes ==
    ASSUME NEW job \in Job
    PROVE  /\ \A s \in {"none", "pending", "done", "failed", "cancelled"} :
                 [job EXCEPT !.status = s] \in Job
           /\ \A s \in {"submitting", "submitted", "files", "failed"} :
                 [job EXCEPT !.submit = s] \in Job
           /\ [job EXCEPT !.status = "failed", !.submit = "failed"] \in Job
           /\ [job EXCEPT !.status = "done", !.submit = "files"] \in Job
BY DEF Job

LEMMA JobFields ==
    ASSUME NEW job \in Job
    PROVE  /\ [job EXCEPT !.status = "failed"].status = "failed"
           /\ [job EXCEPT !.status = "failed", !.submit = "failed"].status = "failed"
           /\ [job EXCEPT !.status = "done", !.submit = "files"].status = "done"
BY DEF Job

\* The update of a job whose submission has returned.
Returned(job, s) == [job EXCEPT !.submit = IF @ = "files" THEN @ ELSE s]

LEMMA ReturnedType ==
    ASSUME NEW job \in Job, NEW s \in {"submitted", "files"}
    PROVE  /\ Returned(job, s) \in Job
           /\ Returned(job, s).submit # "submitting"
           /\ Returned(job, s).status = job.status
           /\ Returned(job, s).retries = job.retries
BY DEF Job, Returned

LEMMA CancelsTypes ==
    ASSUME TypeOK, NEW S \in SUBSET Tasks, Cancels(S)
    PROVE  GeneratingOK'
<1> \A t \in Tasks : media[t] \in Job /\ [media[t] EXCEPT !.status = "cancelled"] \in Job
  BY JobTypes DEF TypeOK
<1> QED  BY DEF Cancels, TypeOK, GeneratingOK

\* What is left of the deliveries when the session's runtime goes, or when it stays.
Follows == inFlight' = inFlight \/ inFlight' = Parted

LEMMA FollowsTypes ==
    ASSUME TypeOK, Follows
    PROVE  inFlight' \in [Tasks -> {None} \cup Flights]
<1>1. \A F \in Flights : [F EXCEPT !.at = "apart"] \in Flights
  BY DEF Flights
<1>2. inFlight \in [Tasks -> {None} \cup Flights]
  BY DEF TypeOK, Flights
<1>3. Parted \in [Tasks -> {None} \cup Flights]
  BY <1>1, <1>2 DEF Parted, At
<1> QED  BY <1>2, <1>3 DEF Follows

LEMMA StopsTypes ==
    ASSUME TypeOK, StopsAll, Follows
    PROVE  GeneratingOK' /\ DeliveringOK'
<1> DEFINE stopped == Cancellable(Tasks)
<1> Cancellable(Tasks) \in SUBSET Tasks
  BY DEF Cancellable
<1>1. GeneratingOK'
  BY CancelsTypes DEF StopsAll
<1>2. deferred' \in [Tasks -> Entry]
  <2> SUFFICES ASSUME NEW t \in Tasks
               PROVE  LET e == IF t \in stopped /\ deferred[t].status = "pending"
                               THEN [deferred[t] EXCEPT !.status = "aborted"] ELSE deferred[t]
                      IN  (IF e.status = "pending" \/ Due(e) THEN Suppressed(e) ELSE e) \in Entry
    BY DEF StopsAll
  <2> deferred[t] \in Entry /\ [deferred[t] EXCEPT !.status = "aborted"] \in Entry
    BY EntryTypes DEF TypeOK, Outcomes
  <2> QED  BY EntryTypes
<1>3. told' \in [Tasks -> SUBSET (Attempts \X Outcomes)]
  <2> PICK heard \in SUBSET Tasks :
        Says([t \in Tasks |-> IF t \in heard THEN {<<deferred[t].of, "aborted">>} ELSE {}])
    BY DEF StopsAll, Cancellable
  <2> \A t \in Tasks : deferred[t].of \in Attempts
    BY DEF TypeOK, Entry
  <2> QED  BY SaysTypes DEF Outcomes
<1> QED  BY <1>1, <1>2, <1>3, FollowsTypes DEF DeliveringOK

LEMMA TypeStep == ASSUME TypeOK, [Next]_vars PROVE TypeOK'
<1> USE TypeParts
<1> GeneratingOK /\ DeliveringOK /\ HostingOK /\ FilesOK /\ TroubleOK  OBVIOUS
<1> SUFFICES GeneratingOK' /\ DeliveringOK' /\ HostingOK' /\ FilesOK' /\ TroubleOK'
  BY DEF TypeOK, GeneratingOK, DeliveringOK, HostingOK, FilesOK, TroubleOK, Flights
<1> USE UnchangedParts, AttemptsAreNaturals
<1> \A t \in Tasks : media[t] \in Job /\ deferred[t] \in Entry
  BY DEF TypeOK
<1>0. \A t \in Tasks, how \in Outcomes : Settle(t, how) => DeliveringOK'
  BY SettleParts
<1>new. ASSUME NEW t \in Tasks, media'[t] \in Job, Put(t, Pending(media'[t])),
               UNCHANGED <<inFlight, told>>
        PROVE  DeliveringOK'
  <2> Pending(media'[t]) \in Entry  BY <1>new, PendingType
  <2> QED  BY <1>new DEF Put, DeliveringOK
<1>1. ASSUME NEW t \in Tasks, GenerateImage(t)
      PROVE  GeneratingOK' /\ DeliveringOK' /\ HostingOK' /\ FilesOK' /\ TroubleOK'
  <2> [status |-> "pending", submit |-> "submitting", retries |-> 0, image |-> TRUE] \in Job
    BY DEF Job
  <2>1. GeneratingOK' /\ media'[t] \in Job
    BY <1>1 DEF GenerateImage, GeneratingOK
  <2> QED  BY <1>1, <2>1, <1>new DEF GenerateImage
<1>2. ASSUME NEW t \in Tasks, GenerateVideo(t)
      PROVE  GeneratingOK' /\ DeliveringOK' /\ HostingOK' /\ FilesOK' /\ TroubleOK'
  <2> \A s \in {"submitted", "files"} :
        [status |-> "pending", submit |-> s, retries |-> 0, image |-> FALSE] \in Job
    BY DEF Job
  <2>1. GeneratingOK' /\ media'[t] \in Job
    BY <1>2 DEF GenerateVideo, GeneratingOK
  <2> QED  BY <1>2, <2>1, <1>new DEF GenerateVideo
<1>3. ASSUME NEW t \in Tasks, RetryImage(t)
      PROVE  GeneratingOK' /\ DeliveringOK' /\ HostingOK' /\ FilesOK' /\ TroubleOK'
  <2> DEFINE n == media[t].retries + 1
             job == [media[t] EXCEPT !.status = "pending", !.submit = "submitting",
                                     !.retries = n]
  <2>0. n \in Attempts /\ job \in Job
    BY <1>3 DEF RetryImage, Job
  <2>1. media' = [media EXCEPT ![t] = job]
    BY <1>3 DEF RetryImage
  <2>2. GeneratingOK' /\ media'[t] \in Job
    BY <1>3, <2>0, <2>1 DEF RetryImage, GeneratingOK
  <2>3. TroubleOK'
    BY <1>3 DEF RetryImage, TroubleOK
  <2> QED  BY <1>3, <2>2, <2>3, <1>new DEF RetryImage
<1>4. ASSUME NEW t \in Tasks, NEW n \in Attempts, SubmitReturns(t, n)
      PROVE  GeneratingOK' /\ DeliveringOK' /\ HostingOK' /\ FilesOK' /\ TroubleOK'
  <2> PICK s \in {"submitted", "files"} :
        media' = [media EXCEPT ![t] = [media[t] EXCEPT !.submit = IF @ = "files" THEN @ ELSE s]]
    BY <1>4 DEF SubmitReturns
  <2> GeneratingOK'  BY <1>4, JobTypes DEF SubmitReturns, GeneratingOK
  <2> QED  BY <1>4 DEF SubmitReturns
<1>5. ASSUME NEW t \in Tasks, NEW n \in Attempts, SubmitFails(t, n)
      PROVE  GeneratingOK' /\ DeliveringOK' /\ HostingOK' /\ FilesOK' /\ TroubleOK'
  <2> DEFINE job == [media[t] EXCEPT !.status = "failed", !.submit = "failed"]
  <2>1. job \in Job /\ media' = [media EXCEPT ![t] = job]
    BY <1>5, JobTypes DEF SubmitFails
  <2>2. submits' = submits \ {<<t, n>>} /\ UNCHANGED <<active, cancelled, checks>>
    BY <1>5 DEF SubmitFails
  <2> HIDE DEF job
  <2> GeneratingOK'  BY <2>1, <2>2 DEF GeneratingOK
  <2> QED  BY <1>5, <1>0 DEF SubmitFails, Outcomes
<1>6. ASSUME NEW t \in Tasks, Tick(t) \/ Drop(t) \/ NoAnswer(t) \/ Generated(t)
      PROVE  GeneratingOK' /\ DeliveringOK' /\ HostingOK' /\ FilesOK' /\ TroubleOK'
  <2> GeneratingOK'
    BY <1>6 DEF Tick, Drop, NoAnswer, Generated, Query, Read, GeneratingOK
  <2> QED  BY <1>6 DEF Tick, Drop, NoAnswer, Generated
<1>7. ASSUME NEW t \in Tasks, Failed(t) \/ FilesRead(t)
      PROVE  GeneratingOK' /\ DeliveringOK' /\ HostingOK' /\ FilesOK' /\ TroubleOK'
  <2>1. PICK job \in Job : media' = [media EXCEPT ![t] = job]
    <3> /\ [media[t] EXCEPT !.status = "failed"] \in Job
        /\ [media[t] EXCEPT !.status = "done", !.submit = "files"] \in Job
      BY JobTypes
    <3>1. CASE Failed(t)     BY <3>1 DEF Failed
    <3>2. CASE FilesRead(t)  BY <3>2 DEF FilesRead
    <3> QED  BY <1>7, <3>1, <3>2
  <2>2. checks' \subseteq checks /\ active' = active \ {t} /\ UNCHANGED <<cancelled, submits>>
    BY <1>7 DEF Failed, FilesRead, Over
  <2> GeneratingOK'  BY <2>1, <2>2 DEF GeneratingOK
  <2> QED  BY <1>7, <1>0 DEF Failed, FilesRead, Outcomes
<1>8. ASSUME NEW t \in Tasks, Cancel(t)
      PROVE  GeneratingOK' /\ DeliveringOK' /\ HostingOK' /\ FilesOK' /\ TroubleOK'
  BY <1>8, <1>0, CancelsTypes DEF Cancel, Outcomes
<1>9. ASSUME NEW t \in Tasks, Flush(t)
      PROVE  GeneratingOK' /\ DeliveringOK' /\ HostingOK' /\ FilesOK' /\ TroubleOK'
  <2> DeliveringOK'  BY <1>9, DeliverTypes DEF Flush, DeliveringOK
  <2> QED  BY <1>9 DEF Flush
<1>10. ASSUME NEW t \in Tasks, Fenced(t) \/ DeliveryFails(t) \/ Sent(t)
       PROVE  GeneratingOK' /\ DeliveringOK' /\ HostingOK' /\ FilesOK' /\ TroubleOK'
  <2> DeliveringOK'
    BY <1>10, EntryTypes DEF Fenced, DeliveryFails, Sent, Ends, Put, DeliveringOK
  <2> HostingOK'
    BY <1>10 DEF Fenced, DeliveryFails, Sent, HostingOK, hosting
  <2> QED  BY <1>10 DEF Fenced, DeliveryFails, Sent
<1>11. ASSUME NEW t \in Tasks, HandOver(t)
       PROVE  GeneratingOK' /\ DeliveringOK' /\ HostingOK' /\ FilesOK' /\ TroubleOK'
  <2>1. inFlight[t] \in Flights /\ [inFlight[t] EXCEPT !.at = "sending"] \in Flights
    BY <1>11 DEF HandOver, At, DeliveringOK, Flights
  <2>2. inFlight' = [inFlight EXCEPT ![t] = [inFlight[t] EXCEPT !.at = "sending"]]
    BY <1>11 DEF HandOver
  <2>3. told' \in [Tasks -> SUBSET (Attempts \X Outcomes)]
    BY <1>11, <2>1, TellsTypes DEF HandOver, Flights, Outcomes
  <2> DeliveringOK'  BY <1>11, <2>1, <2>2, <2>3 DEF HandOver, DeliveringOK
  <2> HostingOK'     BY <1>11 DEF HandOver, HostingOK
  <2> QED  BY <1>11 DEF HandOver
<1>12. ASSUME NEW S \in SUBSET Tasks, Discard(S)
       PROVE  GeneratingOK' /\ DeliveringOK' /\ HostingOK' /\ FilesOK' /\ TroubleOK'
  <2> GeneratingOK'  BY <1>12, CancelsTypes DEF Discard, Cancellable
  <2> DeliveringOK'  BY <1>12, EntryTypes DEF Discard, DeliveringOK
  <2> QED  BY <1>12 DEF Discard
<1>13. ASSUME SessionStarted
       PROVE  GeneratingOK' /\ DeliveringOK' /\ HostingOK' /\ FilesOK' /\ TroubleOK'
  <2> told' \in [Tasks -> SUBSET (Attempts \X Outcomes)]
    BY <1>13, SaysTypes DEF SessionStarted, Entry, Outcomes
  <2> DeliveringOK'  BY <1>13, EntryTypes DEF SessionStarted, DeliveringOK
  <2> HostingOK'     BY <1>13 DEF SessionStarted, HostingOK
  <2> QED  BY <1>13 DEF SessionStarted
<1>14. ASSUME Stop \/ Archive
       PROVE  GeneratingOK' /\ DeliveringOK' /\ HostingOK' /\ FilesOK' /\ TroubleOK'
  <2> StopsAll /\ Follows  BY <1>14 DEF Stop, Archive, Follows
  <2> GeneratingOK' /\ DeliveringOK'  BY StopsTypes
  <2> HostingOK'     BY <1>14 DEF Stop, Archive, HostingOK
  <2> QED  BY <1>14 DEF Stop, Archive
<1>15. ASSUME Archived
       PROVE  GeneratingOK' /\ DeliveringOK' /\ HostingOK' /\ FilesOK' /\ TroubleOK'
  <2> NoEntry \in Entry  BY DEF NoEntry, Entry
  <2> inFlight' \in [Tasks -> {None} \cup Flights]
    BY <1>15, FollowsTypes DEF Archived, Follows
  <2> DeliveringOK'  BY <1>15 DEF Archived, DeliveringOK
  <2> HostingOK'     BY <1>15 DEF Archived, HostingOK
  <2> QED  BY <1>15 DEF Archived
<1>16. ASSUME Load \/ Hibernate \/ MediaLags \/ DeferredLags
       PROVE  GeneratingOK' /\ DeliveringOK' /\ HostingOK' /\ FilesOK' /\ TroubleOK'
  <2> HostingOK'  BY <1>16 DEF Load, Hibernate, MediaLags, DeferredLags, HostingOK, hosting
  <2> FilesOK'
    BY <1>16 DEF Load, Hibernate, MediaLags, DeferredLags, FilesOK, files,
                 GeneratingOK, DeliveringOK
  <2> QED  BY <1>16 DEF Load, Hibernate, MediaLags, DeferredLags
<1>17. ASSUME Restart
       PROVE  GeneratingOK' /\ DeliveringOK' /\ HostingOK' /\ FilesOK' /\ TroubleOK'
  <2> DEFINE jobs    == IF mediaFile = None THEN media ELSE mediaFile
             entries == IF deferredFile = None THEN deferred ELSE deferredFile
             pending == {t \in Tasks : jobs[t].status = "pending"}
             cut     == {t \in pending : Cut(jobs[t])}
             failing == {t \in cut : entries[t].status = "pending"}
             failed(t) == [entries[t] EXCEPT !.status = "failed"]
  <2>1. \A t \in Tasks : jobs[t] \in Job /\ entries[t] \in Entry
    BY DEF FilesOK, GeneratingOK, DeliveringOK
  <2>2. GeneratingOK'
    <3>1. \A t \in Tasks : [jobs[t] EXCEPT !.status = "failed", !.submit = "failed"] \in Job
      BY <2>1, JobTypes
    <3>2. media' = [t \in Tasks |->
                      IF t \in cut THEN [jobs[t] EXCEPT !.status = "failed", !.submit = "failed"]
                      ELSE jobs[t]]
      BY <1>17 DEF Restart
    <3>3. active' \subseteq Tasks /\ cancelled' = {} /\ submits' = {} /\ checks' = {}
      BY <1>17 DEF Restart
    <3> HIDE DEF jobs, cut
    <3> QED  BY <3>1, <3>2, <3>3, <2>1 DEF GeneratingOK
  <2>3. DeliveringOK'
    <3>1. \A t \in Tasks : failed(t) \in Entry /\ Suppressed(failed(t)) \in Entry
      BY <2>1, EntryTypes DEF Outcomes
    <3>2. \A t \in Tasks : Pending(jobs[t]) \in Entry
      BY <2>1, PendingType
    <3>3. deferred' = [t \in Tasks |->
                         IF t \in failing
                         THEN IF session = "archived" /\ ~entries[t].delivered
                              THEN Suppressed(failed(t)) ELSE failed(t)
                         ELSE IF t \in pending \ cut /\ entries[t].status = "none"
                         THEN Pending(jobs[t])
                         ELSE entries[t]]
      BY <1>17 DEF Restart
    <3>4. inFlight' = [t \in Tasks |->
                         IF t \in failing /\ session # "archived" /\ ~entries[t].delivered
                         THEN [at |-> "loading", of |-> entries[t].of] ELSE None]
      BY <1>17 DEF Restart
    <3>5. told' \in [Tasks -> SUBSET (Attempts \X Outcomes)]
      BY <1>17 DEF Restart, DeliveringOK
    <3> HIDE DEF jobs, entries, pending, cut, failing, failed
    <3>6. deferred' \in [Tasks -> Entry]
      BY <3>1, <3>2, <3>3, <2>1
    <3>7. inFlight' \in [Tasks -> {None} \cup Flights]
      BY <3>4, <2>1 DEF Entry, Flights
    <3> QED  BY <3>5, <3>6, <3>7 DEF DeliveringOK
  <2>4. HostingOK'  BY <1>17 DEF Restart, HostingOK
  <2>5. FilesOK'    BY <1>17 DEF Restart, FilesOK
  <2>6. TroubleOK'
    <3>1. crashes' \in 0..MaxCrashes
      <4> crashes < MaxCrashes /\ crashes' = crashes + 1 /\ crashes \in 0..MaxCrashes
        BY <1>17 DEF Restart, TroubleOK
      <4> QED  BY BoundsAssumption
    <3>2. torn' \in BOOLEAN
      BY <1>17 DEF Restart, TroubleOK
    <3>3. crossed' \subseteq Tasks
      BY <1>17 DEF Restart, TroubleOK
    <3> QED  BY <3>1, <3>2, <3>3 DEF TroubleOK
  <2> QED  BY <2>2, <2>3, <2>4, <2>5, <2>6
<1>18. ASSUME UNCHANGED vars
       PROVE  GeneratingOK' /\ DeliveringOK' /\ HostingOK' /\ FilesOK' /\ TroubleOK'
  BY <1>18 DEF vars
<1>19. ASSUME Hibernated
       PROVE  GeneratingOK' /\ DeliveringOK' /\ HostingOK' /\ FilesOK' /\ TroubleOK'
  <2> inFlight' \in [Tasks -> {None} \cup Flights]
    BY <1>19, FollowsTypes DEF Hibernated, Follows
  <2> DeliveringOK'  BY <1>19 DEF Hibernated, DeliveringOK
  <2> HostingOK'     BY <1>19 DEF Hibernated, HostingOK
  <2> QED  BY <1>19 DEF Hibernated
<1> QED
  BY <1>1, <1>2, <1>3, <1>4, <1>5, <1>6, <1>7, <1>8, <1>9, <1>10, <1>11, <1>12, <1>13,
     <1>14, <1>15, <1>16, <1>17, <1>18, <1>19
     DEF Next, Submitting, Checking, Answer

\* The state of tasks, results, deliveries, session, files and histories keeps its type.
THEOREM TypeCorrect == Spec => []TypeOK
<1>1. Init => TypeOK
  <2> NoJob \in Job /\ NoEntry \in Entry
    BY AttemptsAreNaturals DEF NoJob, NoEntry, Job, Entry
  <2> 0 \in 0..MaxCrashes
    BY BoundsAssumption
  <2> QED  BY DEF Init, TypeOK
<1>2. TypeOK /\ [Next]_vars => TypeOK'
  BY TypeStep
<1> QED  BY <1>1, <1>2, PTL DEF Spec

------------------------------------------------------------------------------
(* Tasks are polled.                                                       *)

Polled(t) ==
    media[t].status = "pending" =>
        /\ t \in active \ cancelled
        /\ media[t].submit = "submitting" => \E n \in Attempts : <<t, n>> \in submits

\* What is cancelled is not pending any more.
LEMMA CancelsPolled ==
    ASSUME TypeOK, PendingIsPolled, NEW S \in SUBSET Tasks, Cancels(S)
    PROVE  PendingIsPolled'
<1> SUFFICES ASSUME NEW t \in Tasks  PROVE Polled(t)'
  BY DEF PendingIsPolled, Polled
<1> Polled(t)  BY DEF PendingIsPolled, Polled
<1>1. CASE t \in S
  BY <1>1 DEF Cancels, Polled, TypeOK, Job
<1>2. CASE t \notin S
  BY <1>2 DEF Cancels, Polled
<1> QED  BY <1>1, <1>2

\* A step that takes no submission away, changes one job and, at that, ends it or
\* leaves it polled.
LEMMA OneJobPolled ==
    ASSUME TypeOK, PendingIsPolled, NEW t \in Tasks, NEW job \in Job,
           media' = [media EXCEPT ![t] = job],
           active \ {t} \subseteq active', cancelled' \subseteq cancelled,
           \A u \in Tasks \ {t}, n \in Attempts : <<u, n>> \in submits => <<u, n>> \in submits',
           job.status = "pending" =>
              /\ t \in active' \ cancelled'
              /\ job.submit = "submitting" => \E n \in Attempts : <<t, n>> \in submits'
    PROVE  PendingIsPolled'
<1> SUFFICES ASSUME NEW u \in Tasks  PROVE Polled(u)'
  BY DEF PendingIsPolled, Polled
<1>1. CASE u = t
  BY <1>1 DEF Polled, TypeOK
<1>2. CASE u # t
  <2> Polled(u)           BY DEF PendingIsPolled, Polled
  <2> media'[u] = media[u] BY <1>2 DEF TypeOK
  <2> QED  BY <1>2 DEF Polled
<1> QED  BY <1>1, <1>2

LEMMA PolledStep == ASSUME TypeOK, PendingIsPolled, [Next]_vars PROVE PendingIsPolled'
<1> USE AttemptsAreNaturals
<1> \A t \in Tasks : media[t] \in Job /\ Polled(t)
  BY DEF TypeOK, PendingIsPolled, Polled
<1>0. ASSUME UNCHANGED generating  PROVE PendingIsPolled'
  BY <1>0 DEF generating, PendingIsPolled
<1>1. ASSUME NEW t \in Tasks, GenerateImage(t)  PROVE PendingIsPolled'
  <2> DEFINE job == [status |-> "pending", submit |-> "submitting", retries |-> 0, image |-> TRUE]
  <2>1. job \in Job
    BY DEF Job
  <2>2. /\ media' = [media EXCEPT ![t] = job]
        /\ cancelled' = cancelled \ {t} /\ active' = active \cup {t}
        /\ submits' = submits \cup {<<t, 0>>}
    BY <1>1 DEF GenerateImage
  <2> QED  BY <2>1, <2>2, OneJobPolled
<1>2. ASSUME NEW t \in Tasks, GenerateVideo(t)  PROVE PendingIsPolled'
  <2> PICK s \in {"submitted", "files"} :
        media' = [media EXCEPT ![t] = [status |-> "pending", submit |-> s,
                                       retries |-> 0, image |-> FALSE]]
    BY <1>2 DEF GenerateVideo
  <2> DEFINE job == [status |-> "pending", submit |-> s, retries |-> 0, image |-> FALSE]
  <2>1. job \in Job /\ media' = [media EXCEPT ![t] = job]
    BY DEF Job
  <2>2. cancelled' = cancelled \ {t} /\ active' = active \cup {t} /\ submits' = submits
    BY <1>2 DEF GenerateVideo
  <2> QED  BY <2>1, <2>2, OneJobPolled
<1>3. ASSUME NEW t \in Tasks, RetryImage(t)  PROVE PendingIsPolled'
  <2> DEFINE n == media[t].retries + 1
             job == [media[t] EXCEPT !.status = "pending", !.submit = "submitting",
                                     !.retries = n]
  <2>1. n \in Attempts /\ job \in Job
    BY <1>3 DEF RetryImage, Job
  <2>2. /\ media' = [media EXCEPT ![t] = job]
        /\ cancelled' = cancelled \ {t} /\ active' = active \cup {t}
        /\ submits' = submits \cup {<<t, n>>}
    BY <1>3 DEF RetryImage
  <2> QED  BY <2>1, <2>2, OneJobPolled
<1>4. ASSUME NEW t \in Tasks, NEW n \in Attempts, SubmitReturns(t, n)  PROVE PendingIsPolled'
  <2> PICK s \in {"submitted", "files"} :
        media' = [media EXCEPT ![t] = [media[t] EXCEPT !.submit = IF @ = "files" THEN @ ELSE s]]
    BY <1>4 DEF SubmitReturns
  <2> DEFINE job == Returned(media[t], s)
  <2>0. media' = [media EXCEPT ![t] = job]
    BY DEF Returned
  <2>1. job \in Job /\ job.submit # "submitting" /\ job.status = media[t].status
    BY ReturnedType
  <2>2. submits' = submits \ {<<t, n>>} /\ UNCHANGED <<active, cancelled>>
    BY <1>4 DEF SubmitReturns
  <2> HIDE DEF job
  <2> QED  BY <2>0, <2>1, <2>2, OneJobPolled DEF Polled
<1>5. ASSUME NEW t \in Tasks, NEW n \in Attempts, SubmitFails(t, n)  PROVE PendingIsPolled'
  <2> DEFINE job == [media[t] EXCEPT !.status = "failed", !.submit = "failed"]
  <2>0. media' = [media EXCEPT ![t] = job]
    BY <1>5 DEF SubmitFails
  <2>1. job \in Job /\ job.status = "failed"
    BY JobTypes, JobFields
  <2>2. submits' = submits \ {<<t, n>>} /\ UNCHANGED <<active, cancelled>>
    BY <1>5 DEF SubmitFails
  <2> HIDE DEF job
  <2> QED  BY <2>0, <2>1, <2>2, OneJobPolled
<1>6. ASSUME NEW t \in Tasks, Tick(t) \/ Drop(t) \/ NoAnswer(t) \/ Generated(t)
      PROVE  PendingIsPolled'
  BY <1>6 DEF Tick, Drop, NoAnswer, Generated, PendingIsPolled
<1>7. ASSUME NEW t \in Tasks, Failed(t) \/ FilesRead(t)  PROVE PendingIsPolled'
  <2>1. PICK job \in Job : job.status # "pending" /\ media' = [media EXCEPT ![t] = job]
    <3> /\ [media[t] EXCEPT !.status = "failed"] \in Job
        /\ [media[t] EXCEPT !.status = "done", !.submit = "files"] \in Job
        /\ [media[t] EXCEPT !.status = "failed"].status # "pending"
        /\ [media[t] EXCEPT !.status = "done", !.submit = "files"].status # "pending"
      BY JobTypes, JobFields
    <3>1. CASE Failed(t)     BY <3>1 DEF Failed
    <3>2. CASE FilesRead(t)  BY <3>2 DEF FilesRead
    <3> QED  BY <1>7, <3>1, <3>2
  <2>2. active' = active \ {t} /\ UNCHANGED <<cancelled, submits>>
    BY <1>7 DEF Failed, FilesRead
  <2> QED  BY <2>1, <2>2, OneJobPolled
<1>8. ASSUME \/ \E t \in Tasks : Cancel(t)
             \/ \E S \in SUBSET Tasks : Discard(S)
             \/ Stop \/ Archive
      PROVE  PendingIsPolled'
  <2> PICK S \in SUBSET Tasks : Cancels(S)
    BY <1>8 DEF Cancel, Discard, Stop, Archive, StopsAll, Cancellable
  <2> QED  BY CancelsPolled
<1>9. ASSUME Restart  PROVE PendingIsPolled'
  <2> DEFINE jobs    == IF mediaFile = None THEN media ELSE mediaFile
             pending == {t \in Tasks : jobs[t].status = "pending"}
             cut     == {t \in pending : Cut(jobs[t])}
  <2>1. media' = [t \in Tasks |->
                    IF t \in cut THEN [jobs[t] EXCEPT !.status = "failed", !.submit = "failed"]
                    ELSE jobs[t]]
    BY <1>9 DEF Restart
  <2>2. active' = pending \ cut /\ cancelled' = {}
    BY <1>9 DEF Restart
  <2> SUFFICES ASSUME NEW t \in Tasks, media'[t].status = "pending"
               PROVE  t \in active' \ cancelled' /\ media'[t].submit # "submitting"
    BY DEF PendingIsPolled
  <2>3. jobs[t] \in Job
    BY DEF TypeOK
  <2>4. t \notin cut
    <3> HIDE DEF jobs, cut
    <3> QED  BY <2>1, <2>3 DEF Job
  <2>5. media'[t] = jobs[t]
    BY <2>1, <2>4
  <2> QED  BY <2>2, <2>4, <2>5 DEF Cut
<1> QED
  BY <1>0, <1>1, <1>2, <1>3, <1>4, <1>5, <1>6, <1>7, <1>8, <1>9
     DEF Next, Submitting, Checking, Answer, Flush, Fenced, HandOver, DeliveryFails, Sent,
         SessionStarted, Archived, Load, Hibernate, Hibernated,
         MediaLags, DeferredLags, vars

\* Every pending task is polled, no fence is in the way of its polls, and while it is
\* being submitted a submission is under way, through any number of retries and crashes.
THEOREM PendingIsPolledHolds == Spec => []PendingIsPolled
<1>1. Init => PendingIsPolled
  BY DEF Init, PendingIsPolled, NoJob
<1>2. TypeOK /\ PendingIsPolled /\ [Next]_vars => PendingIsPolled'
  BY PolledStep
<1> QED  BY <1>1, <1>2, TypeCorrect, PTL DEF Spec

------------------------------------------------------------------------------
(* The story of a task: its job M, its entry D, its delivery F, what the   *)
(* session has been told of it (T), and whether it was retried during a    *)
(* delivery (cr).                                                          *)

Fits(M, D, F, T, cr) ==
    /\ M.status = "none" => T = {} /\ M.retries = 0
    /\ M.status \in {"none", "pending"} => D.status \in {"none", M.status}
    /\ D.status = "pending" => M.status = "pending"
    /\ D.status # "none" => D.of = M.retries
    /\ D.suppressed => D.delivered /\ D.status \in Outcomes
    /\ \A x \in T : x[1] <= M.retries /\ (x[1] = M.retries => x[2] = D.status)
    /\ \A x, y \in T : x[1] = y[1] => x[2] = y[2]
    /\ F # None =>
          /\ F.of <= M.retries
          /\ F.of = M.retries => D.status = "failed"
          /\ \A x \in T : x[1] = F.of => x[2] = "failed"
    /\ ~cr =>
          /\ D.status = "pending" => ~D.delivered
          /\ D.status \in Outcomes /\ D.delivered /\ ~D.suppressed => <<D.of, D.status>> \in T
          /\ F # None => F.of = M.retries /\ (F.at # "loading" => <<F.of, "failed">> \in T)

Typed(M, D, F, T, cr) ==
    /\ M \in Job /\ D \in Entry /\ F \in {None} \cup Flights
    /\ T \subseteq Attempts \X Outcomes /\ cr \in BOOLEAN

Ended(D, how) == IF D.status = "pending" THEN [D EXCEPT !.status = how] ELSE D

\* The job ends, and with it the entry.
LEMMA EndedFits ==
    ASSUME NEW M, NEW D, NEW F, NEW T, NEW cr, Typed(M, D, F, T, cr), Fits(M, D, F, T, cr),
           NEW N \in Job, NEW how \in Outcomes,
           N.status \notin {"none", "pending"}, N.retries = M.retries
    PROVE  Fits(N, Ended(D, how), F, T, cr) /\ Ended(D, how) \in Entry
<1> DEFINE E == Ended(D, how)
<1>1. /\ E \in Entry /\ E.status # "pending"
      /\ E.of = D.of /\ E.delivered = D.delivered /\ E.suppressed = D.suppressed
      /\ D.status = "pending" => E.status = how
      /\ D.status # "pending" => E = D
  BY DEF Ended, Entry, Outcomes, Typed
<1> HIDE DEF E
<1>2. \A x \in T : x[2] \in Outcomes /\ x[2] # "pending"
  BY DEF Typed, Outcomes
<1> QED  BY <1>1, <1>2 DEF E, Fits, Typed, Outcomes

\* A job whose submission has returned is as far as it was.
LEMMA SameFits ==
    ASSUME NEW M, NEW D, NEW F, NEW T, NEW cr, Typed(M, D, F, T, cr), Fits(M, D, F, T, cr),
           NEW N \in Job, N.status = M.status, N.retries = M.retries
    PROVE  Fits(N, D, F, T, cr)
BY DEF Fits, Typed

\* The task and its entry are new.
LEMMA NewFits ==
    ASSUME NEW M, NEW D, NEW F, NEW T, NEW cr, Typed(M, D, F, T, cr), Fits(M, D, F, T, cr),
           M.status = "none", D.status = "none",
           NEW N \in Job, N.status = "pending", N.retries = 0
    PROVE  Fits(N, Pending(N), F, T, cr)
<1>1. F = None /\ T = {}
  BY DEF Fits, Typed, Flights, Attempts
<1> QED  BY <1>1, PendingType DEF Fits, Typed, Outcomes

\* A retry is a new attempt; the delivery of the last one goes on.
LEMMA RetryFits ==
    ASSUME NEW M, NEW D, NEW F, NEW T, NEW cr, Typed(M, D, F, T, cr), Fits(M, D, F, T, cr),
           NEW N \in Job, N.status = "pending", N.retries = M.retries + 1
    PROVE  Fits(N, Pending(N), F, T, cr \/ F # None)
<1>1. /\ M.retries \in Nat /\ \A x \in T : x[1] \in Nat
      /\ F # None => F.of \in Nat
  BY AttemptsAreNaturals DEF Typed, Job, Flights
<1>2. /\ \A x \in T : x[1] <= N.retries /\ x[1] # N.retries
      /\ F # None => F.of <= N.retries /\ F.of # N.retries
  BY <1>1 DEF Fits
<1>3. /\ \A x, y \in T : x[1] = y[1] => x[2] = y[2]
      /\ F # None => \A x \in T : x[1] = F.of => x[2] = "failed"
  BY DEF Fits
<1>4. /\ Pending(N).status = "pending" /\ Pending(N).of = N.retries
      /\ Pending(N).delivered = FALSE /\ Pending(N).suppressed = FALSE
  BY PendingType
<1> QED  BY <1>2, <1>3, <1>4 DEF Fits, Outcomes

\* An entry that is fenced off.
LEMMA SuppressedFits ==
    ASSUME NEW M, NEW D, NEW F, NEW T, NEW cr, Typed(M, D, F, T, cr), Fits(M, D, F, T, cr),
           D.status \in Outcomes
    PROVE  Fits(M, Suppressed(D), F, T, cr)
<1>1. /\ Suppressed(D).status = D.status /\ Suppressed(D).of = D.of
      /\ Suppressed(D).delivered = TRUE /\ Suppressed(D).suppressed = TRUE
  BY DEF Suppressed, Entry, Outcomes, Typed
<1> QED  BY <1>1 DEF Fits, Outcomes

\* The session is told the outcome of the current attempt.
LEMMA ToldFits ==
    ASSUME NEW M, NEW D, NEW F, NEW T, NEW cr, Typed(M, D, F, T, cr), Fits(M, D, F, T, cr),
           D.status \in Outcomes, F = None \/ D.status = "failed"
    PROVE  LET U == T \cup {<<D.of, D.status>>}
           IN  U \subseteq Attempts \X Outcomes /\ Fits(M, D, F, U, cr)
<1> DEFINE U == T \cup {<<D.of, D.status>>}
<1>1. D.of = M.retries /\ D.of \in Nat /\ D.of \in Attempts
  BY AttemptsAreNaturals DEF Fits, Typed, Entry, Outcomes
<1>2. U \subseteq Attempts \X Outcomes
  BY <1>1 DEF Typed
<1>3. M.status # "none"
  BY DEF Fits, Outcomes
<1>4. \A x \in U : x[1] <= M.retries /\ (x[1] = M.retries => x[2] = D.status)
  BY <1>1 DEF Fits
<1>5. \A x, y \in U : x[1] = y[1] => x[2] = y[2]
  BY <1>1 DEF Fits
<1>6. F # None => \A x \in U : x[1] = F.of => x[2] = "failed"
  BY DEF Fits
<1> HIDE DEF U
<1>7. T \subseteq U
  BY DEF U
<1> QED  BY <1>2, <1>3, <1>4, <1>5, <1>6, <1>7 DEF Fits, U

\* What has been told is marked.
LEMMA MarkedFits ==
    ASSUME NEW M, NEW D, NEW F, NEW T, NEW cr, Typed(M, D, F, T, cr), Fits(M, D, F, T, cr),
           cr \/ <<D.of, D.status>> \in T
    PROVE  Fits(M, Marked(D), F, T, cr)
<1>1. CASE D.status = "none" \/ D.suppressed
  BY <1>1 DEF Marked
<1>2. CASE D.status # "none" /\ ~D.suppressed
  <2>1. Marked(D) = [D EXCEPT !.delivered = TRUE]
    BY <1>2 DEF Marked
  <2>2. /\ Marked(D).status = D.status /\ Marked(D).of = D.of
        /\ Marked(D).delivered = TRUE /\ Marked(D).suppressed = FALSE
    BY <1>2, <2>1 DEF Entry, Typed
  <2>3. ~cr => D.status # "pending"
    BY DEF Typed, Outcomes
  <2> QED  BY <2>2, <2>3 DEF Fits
<1> QED  BY <1>1, <1>2

\* A failure is being delivered.
LEMMA StartFits ==
    ASSUME NEW M, NEW D, NEW F, NEW T, NEW cr, Typed(M, D, F, T, cr), Fits(M, D, F, T, cr),
           D.status = "failed", NEW at \in {"loading", "sending"},
           at = "sending" => <<D.of, "failed">> \in T
    PROVE  Fits(M, D, [at |-> at, of |-> D.of], T, cr)
<1>1. D.of = M.retries /\ D.of \in Nat
  BY AttemptsAreNaturals DEF Fits, Typed, Entry
<1> QED  BY <1>1 DEF Fits

\* The delivery is over.
LEMMA OverFits ==
    ASSUME NEW M, NEW D, NEW F, NEW T, NEW cr, Fits(M, D, F, T, cr)
    PROVE  Fits(M, D, None, T, cr)
BY DEF Fits

\* A failure that was in delivery is handed over.
LEMMA HandedFits ==
    ASSUME NEW M, NEW D, NEW F, NEW T, NEW cr, Typed(M, D, F, T, cr), Fits(M, D, F, T, cr),
           F # None
    PROVE  Fits(M, D, [F EXCEPT !.at = "sending"], T \cup {<<F.of, "failed">>}, cr)
<1> DEFINE U == T \cup {<<F.of, "failed">>}
           G == [F EXCEPT !.at = "sending"]
<1>1. F \in Flights /\ G.of = F.of /\ G.at = "sending" /\ F.of \in Nat
  BY AttemptsAreNaturals DEF Typed, Flights
<1>2. M.status # "none"
  <2> SUFFICES ASSUME M.status = "none"  PROVE FALSE
    OBVIOUS
  <2>1. M.retries = 0 /\ D.status = "none"
    BY DEF Fits
  <2> QED  BY <1>1, <2>1 DEF Fits
<1>3. \A x \in U : x[1] <= M.retries /\ (x[1] = M.retries => x[2] = D.status)
  BY DEF Fits
<1>4. \A x, y \in U : x[1] = y[1] => x[2] = y[2]
  BY DEF Fits
<1>5. \A x \in U : x[1] = F.of => x[2] = "failed"
  BY DEF Fits
<1>6. T \subseteq U /\ <<F.of, "failed">> \in U
  OBVIOUS
<1> HIDE DEF U, G
<1> QED  BY <1>1, <1>2, <1>3, <1>4, <1>5, <1>6 DEF Fits, U, G

\* The runtime that sends it is no longer the session's.
LEMMA PartedFits ==
    ASSUME NEW M, NEW D, NEW F, NEW T, NEW cr, Typed(M, D, F, T, cr), Fits(M, D, F, T, cr),
           F # None, F.at = "sending"
    PROVE  Fits(M, D, [F EXCEPT !.at = "apart"], T, cr)
<1>1. [F EXCEPT !.at = "apart"].of = F.of /\ [F EXCEPT !.at = "apart"] # None
  BY NoneAssumption, AttemptsAreNaturals DEF Typed, Flights
<1> QED  BY <1>1 DEF Fits

\* A pending entry is deleted.
LEMMA ClearedFits ==
    ASSUME NEW M, NEW D, NEW F, NEW T, NEW cr, Typed(M, D, F, T, cr), Fits(M, D, F, T, cr),
           D.status = "pending"
    PROVE  Fits(M, NoEntry, F, T, cr)
<1>1. \A x \in T : x[2] # "pending"
  BY DEF Typed, Outcomes
<1> QED  BY <1>1 DEF Fits, NoEntry, Outcomes

\* A pending job is registered again.
LEMMA AgainFits ==
    ASSUME NEW M, NEW D, NEW F, NEW T, NEW cr, Typed(M, D, F, T, cr), Fits(M, D, F, T, cr),
           M.status = "pending", D.status = "none"
    PROVE  Fits(M, Pending(M), None, T, cr)
<1>1. \A x \in T : x[2] # "none"
  BY DEF Typed, Outcomes
<1>2. \A x \in T : x[1] # M.retries
  BY <1>1 DEF Fits
<1> QED  BY <1>2, PendingType DEF Fits, Typed, Outcomes

------------------------------------------------------------------------------
(* The story of every task, through the steps of the system.               *)

Story(t) == Fits(media[t], deferred[t], inFlight[t], told[t], t \in crossed)
Stories  == ~torn => \A t \in Tasks : Story(t)

LEMMA StoryTyped ==
    ASSUME TypeOK, NEW t \in Tasks
    PROVE  Typed(media[t], deferred[t], inFlight[t], told[t], t \in crossed)
BY DEF TypeOK, Typed, Flights

LEMMA FollowsFits ==
    ASSUME TypeOK, Follows, NEW t \in Tasks, NEW M, NEW D, NEW T, NEW cr,
           Typed(M, D, inFlight[t], T, cr), Fits(M, D, inFlight[t], T, cr)
    PROVE  Fits(M, D, inFlight'[t], T, cr)
<1>1. CASE inFlight'[t] = inFlight[t]
  BY <1>1
<1>2. CASE inFlight'[t] # inFlight[t]
  <2>1. /\ inFlight[t] # None /\ inFlight[t].at = "sending"
        /\ inFlight'[t] = [inFlight[t] EXCEPT !.at = "apart"]
    BY <1>2 DEF Follows, Parted, At
  <2> QED  BY <2>1, PartedFits
<1> QED  BY <1>1, <1>2

LEMMA TellsAdds ==
    ASSUME ~torn, NEW t \in Tasks, NEW n, NEW how, Tells(t, n, how)
    PROVE  /\ told'[t] = told[t] \cup {<<n, how>>}
           /\ \A u \in Tasks \ {t} : told'[u] = told[u]
BY DEF Tells, Says

\* Whatever comes of an attempt to deliver the entry e.
LEMMA DeliverFits ==
    ASSUME TypeOK, ~torn, NEW t \in Tasks, NEW e \in Entry, NEW M \in Job,
           Fits(M, e, inFlight[t], told[t], t \in crossed), Deliver(t, e)
    PROVE  Fits(M, deferred'[t], inFlight'[t], told'[t], t \in crossed)
<1> DEFINE F == inFlight[t]
           T == told[t]
           cr == t \in crossed
           U == T \cup {<<e.of, e.status>>}
<1>0. Typed(M, e, F, T, cr)
  BY StoryTyped DEF Typed
<1>1. CASE F # None \/ ~Due(e)
  BY <1>1 DEF Deliver, Put, TypeOK
<1>2. CASE F = None /\ Due(e) /\ session = "archived"
  <2>1. /\ deferred'[t] = Suppressed(e)
        /\ inFlight'[t] = F /\ told'[t] = T
    BY <1>2 DEF Deliver, Put, TypeOK
  <2> QED  BY <1>0, <1>2, <2>1, SuppressedFits DEF Due
<1>3. CASE F = None /\ Due(e) /\ session # "archived"
  <2>1. CASE Put(t, e) /\ UNCHANGED <<inFlight, told>>
    BY <2>1 DEF Put, TypeOK
  <2>2. CASE Put(t, Marked(e)) /\ Tells(t, e.of, e.status) /\ UNCHANGED inFlight
    <3>1. U \subseteq Attempts \X Outcomes /\ Fits(M, e, F, U, cr)
      BY <1>0, <1>3, ToldFits DEF Due
    <3>2. Fits(M, Marked(e), F, U, cr)
      <4> Typed(M, e, F, U, cr)  BY <1>0, <3>1 DEF Typed
      <4> <<e.of, e.status>> \in U  OBVIOUS
      <4> HIDE DEF U, cr
      <4> QED  BY <3>1, MarkedFits
    <3>3. deferred'[t] = Marked(e) /\ inFlight'[t] = F /\ told'[t] = U
      BY <2>2, TellsAdds DEF Put, TypeOK
    <3> QED  BY <3>2, <3>3
  <2>3. CASE /\ Wakes(e)
             /\ Put(t, e) /\ Start(t, e, "sending") /\ Tells(t, e.of, e.status)
    <3>1. U \subseteq Attempts \X Outcomes /\ Fits(M, e, F, U, cr)
      BY <1>0, <1>3, ToldFits DEF Due
    <3>2. Fits(M, e, [at |-> "sending", of |-> e.of], U, cr)
      <4> Typed(M, e, F, U, cr)  BY <1>0, <3>1 DEF Typed
      <4> e.status = "failed" /\ <<e.of, "failed">> \in U
        BY <2>3 DEF Wakes
      <4> HIDE DEF U, cr
      <4> QED  BY <3>1, StartFits
    <3>3. deferred'[t] = e /\ inFlight'[t] = [at |-> "sending", of |-> e.of] /\ told'[t] = U
      BY <2>3, TellsAdds DEF Put, Start, TypeOK
    <3> QED  BY <3>2, <3>3
  <2>4. CASE /\ Wakes(e)
             /\ Put(t, e) /\ Start(t, e, "loading") /\ UNCHANGED told
    <3>1. Fits(M, e, [at |-> "loading", of |-> e.of], T, cr)
      BY <1>0, <2>4, StartFits DEF Wakes
    <3>2. deferred'[t] = e /\ inFlight'[t] = [at |-> "loading", of |-> e.of] /\ told'[t] = T
      BY <2>4 DEF Put, Start, TypeOK
    <3> QED  BY <3>1, <3>2
  <2> QED  BY <1>3, <2>1, <2>2, <2>3, <2>4 DEF Deliver
<1> QED  BY <1>1, <1>2, <1>3

\* The job of t becomes N, which has ended; its entry is settled.
LEMMA SettleFits ==
    ASSUME TypeOK, ~torn, NEW t \in Tasks, NEW how \in Outcomes, Story(t), Settle(t, how),
           NEW N \in Job, N.status \notin {"none", "pending"}, N.retries = media[t].retries
    PROVE  Fits(N, deferred'[t], inFlight'[t], told'[t], t \in crossed)
<1> DEFINE e == Ended(deferred[t], how)
<1>1. Fits(N, e, inFlight[t], told[t], t \in crossed) /\ e \in Entry
  BY StoryTyped, EndedFits DEF Story
<1>2. CASE deferred[t].status = "pending"
  <2> Deliver(t, e)  BY <1>2 DEF Settle, Ended
  <2> HIDE DEF e
  <2> QED  BY <1>1, DeliverFits
<1>3. CASE deferred[t].status # "pending"
  <2> e = deferred[t]  BY <1>3 DEF Ended
  <2> QED  BY <1>1, <1>3 DEF Settle, delivering
<1> QED  BY <1>2, <1>3

\* A step that is about t only.
Only(t) ==
    \A u \in Tasks \ {t} :
       /\ media'[u] = media[u] /\ deferred'[u] = deferred[u]
       /\ inFlight'[u] = inFlight[u] /\ told'[u] = told[u]
       /\ u \in crossed' <=> u \in crossed

LEMMA OnlyFits ==
    ASSUME NEW t \in Tasks, Stories, torn' = torn,
           ~torn => Only(t)
                    /\ Fits(media'[t], deferred'[t], inFlight'[t], told'[t], t \in crossed')
    PROVE  Stories'
<1> SUFFICES ASSUME ~torn, NEW u \in Tasks  PROVE Story(u)'
  BY DEF Stories
<1>1. CASE u = t
  BY <1>1 DEF Story
<1>2. CASE u # t
  BY <1>2 DEF Story, Stories, Only
<1> QED  BY <1>1, <1>2

LEMMA DeliverOnly ==
    ASSUME TypeOK, ~torn, NEW t \in Tasks, NEW e, Deliver(t, e), NEW u \in Tasks \ {t}
    PROVE  deferred'[u] = deferred[u] /\ inFlight'[u] = inFlight[u] /\ told'[u] = told[u]
<1>1. deferred'[u] = deferred[u]
  BY DEF Deliver, Put, TypeOK
<1>2. inFlight'[u] = inFlight[u]
  BY DEF Deliver, Start, TypeOK
<1>3. told'[u] = told[u]
  BY TellsAdds DEF Deliver
<1> QED  BY <1>1, <1>2, <1>3

LEMMA SettleOnly ==
    ASSUME TypeOK, ~torn, NEW t \in Tasks, NEW how, Settle(t, how), NEW u \in Tasks \ {t}
    PROVE  deferred'[u] = deferred[u] /\ inFlight'[u] = inFlight[u] /\ told'[u] = told[u]
BY DeliverOnly DEF Settle, delivering

\* A job that ends or goes on, the entry that is settled with it.
LEMMA SettleStep ==
    ASSUME TypeOK, Stories, NEW t \in Tasks, NEW how \in Outcomes, Settle(t, how),
           NEW N \in Job, N.status \notin {"none", "pending"}, N.retries = media[t].retries,
           media' = [media EXCEPT ![t] = N], UNCHANGED trouble
    PROVE  Stories'
<1> torn' = torn /\ crossed' = crossed  BY DEF trouble
<1> SUFFICES ASSUME ~torn
             PROVE  Only(t) /\ Fits(media'[t], deferred'[t], inFlight'[t], told'[t], t \in crossed')
  BY OnlyFits
<1>1. Only(t)
  BY SettleOnly DEF Only, TypeOK
<1>2. Fits(N, deferred'[t], inFlight'[t], told'[t], t \in crossed)
  BY SettleFits DEF Stories
<1>3. media'[t] = N
  BY DEF TypeOK
<1> QED  BY <1>1, <1>2, <1>3

\* A task that begins, or begins again.
LEMMA BeginStep ==
    ASSUME TypeOK, Stories, NEW t \in Tasks, NEW N \in Job, N.status = "pending",
           media' = [media EXCEPT ![t] = N], Put(t, Pending(N)), UNCHANGED <<inFlight, told>>,
           torn' = torn,
           \/ media[t].status = "none" /\ deferred[t].status = "none" /\ N.retries = 0
              /\ crossed' = crossed
           \/ /\ N.retries = media[t].retries + 1
              /\ crossed' = IF inFlight[t] # None /\ ~torn THEN crossed \cup {t} ELSE crossed
    PROVE  Stories'
<1> SUFFICES ASSUME ~torn
             PROVE  Only(t) /\ Fits(media'[t], deferred'[t], inFlight'[t], told'[t], t \in crossed')
  BY OnlyFits
<1>1. Only(t)
  BY DEF Only, Put, TypeOK
<1>2. media'[t] = N /\ deferred'[t] = Pending(N) /\ inFlight'[t] = inFlight[t] /\ told'[t] = told[t]
  BY DEF Put, TypeOK
<1>3. Story(t)
  BY DEF Stories
<1>4. CASE media[t].status = "none" /\ deferred[t].status = "none" /\ N.retries = 0
           /\ crossed' = crossed
  <2> Fits(N, Pending(N), inFlight[t], told[t], t \in crossed)
    BY <1>3, <1>4, StoryTyped, NewFits DEF Story
  <2> QED  BY <1>1, <1>2, <1>4
<1>5. CASE /\ N.retries = media[t].retries + 1
           /\ crossed' = IF inFlight[t] # None /\ ~torn THEN crossed \cup {t} ELSE crossed
  <2>1. Fits(N, Pending(N), inFlight[t], told[t], t \in crossed \/ inFlight[t] # None)
    <3> DEFINE cr == t \in crossed
    <3>1. /\ Typed(media[t], deferred[t], inFlight[t], told[t], cr)
          /\ Fits(media[t], deferred[t], inFlight[t], told[t], cr)
      BY <1>3, StoryTyped DEF Story
    <3> HIDE DEF cr
    <3>2. Fits(N, Pending(N), inFlight[t], told[t], cr \/ inFlight[t] # None)
      BY <1>5, <3>1, RetryFits
    <3> QED  BY <3>2 DEF cr
  <2>2. CASE inFlight[t] = None
    BY <1>1, <1>2, <1>5, <2>1, <2>2 DEF Fits
  <2>3. CASE inFlight[t] # None
    <3> t \in crossed' BY <1>5, <2>3
    <3> QED  BY <1>1, <1>2, <2>1, <2>3 DEF Fits
  <2> QED  BY <2>2, <2>3
<1> QED  BY <1>4, <1>5

LEMMA GenerationStories ==
    ASSUME TypeOK, Stories, NEW t \in Tasks,
           GenerateImage(t) \/ GenerateVideo(t) \/ RetryImage(t) \/ Submitting(t)
           \/ Tick(t) \/ Drop(t) \/ Checking(t)
    PROVE  Stories'
<1> media[t] \in Job /\ media[t].retries \in Attempts
  BY DEF TypeOK, Job
<1>0. ASSUME UNCHANGED <<media, delivering, trouble>>  PROVE Stories'
  BY <1>0 DEF Stories, Story, delivering, trouble
<1>1. ASSUME GenerateImage(t)  PROVE Stories'
  <2> DEFINE job == [status |-> "pending", submit |-> "submitting", retries |-> 0, image |-> TRUE]
  <2>1. job \in Job /\ job.status = "pending" /\ job.retries = 0
    BY AttemptsAreNaturals DEF Job
  <2>2. media' = [media EXCEPT ![t] = job] /\ media'[t] = job
    BY <1>1 DEF GenerateImage, TypeOK
  <2>3. Put(t, Pending(job)) /\ UNCHANGED <<inFlight, told, torn, crossed>> /\ New(t)
    BY <1>1, <2>2 DEF GenerateImage, trouble
  <2> HIDE DEF job
  <2> QED  BY <2>1, <2>2, <2>3, BeginStep DEF New
<1>2. ASSUME GenerateVideo(t)  PROVE Stories'
  <2> PICK s \in {"submitted", "files"} :
        media' = [media EXCEPT ![t] = [status |-> "pending", submit |-> s,
                                       retries |-> 0, image |-> FALSE]]
    BY <1>2 DEF GenerateVideo
  <2> DEFINE job == [status |-> "pending", submit |-> s, retries |-> 0, image |-> FALSE]
  <2>1. job \in Job /\ job.status = "pending" /\ job.retries = 0
    BY AttemptsAreNaturals DEF Job
  <2>2. media' = [media EXCEPT ![t] = job] /\ media'[t] = job
    BY DEF TypeOK
  <2>3. Put(t, Pending(job)) /\ UNCHANGED <<inFlight, told, torn, crossed>> /\ New(t)
    BY <1>2, <2>2 DEF GenerateVideo, trouble
  <2> HIDE DEF job
  <2> QED  BY <2>1, <2>2, <2>3, BeginStep DEF New
<1>3. ASSUME RetryImage(t)  PROVE Stories'
  <2> DEFINE n == media[t].retries + 1
             job == [media[t] EXCEPT !.status = "pending", !.submit = "submitting",
                                     !.retries = n]
  <2>0. n \in Attempts
    BY <1>3 DEF RetryImage
  <2>1. job \in Job /\ job.status = "pending" /\ job.retries = n
    BY <2>0 DEF Job
  <2>2. media' = [media EXCEPT ![t] = job] /\ media'[t] = job
    BY <1>3 DEF RetryImage, TypeOK
  <2>3. /\ Put(t, Pending(job)) /\ UNCHANGED <<inFlight, told, torn>>
        /\ crossed' = IF inFlight[t] # None /\ ~torn THEN crossed \cup {t} ELSE crossed
    BY <1>3, <2>2 DEF RetryImage
  <2> HIDE DEF job
  <2> QED  BY <2>1, <2>2, <2>3, BeginStep
<1>4. ASSUME NEW n \in Attempts, SubmitReturns(t, n)  PROVE Stories'
  <2> PICK s \in {"submitted", "files"} :
        media' = [media EXCEPT ![t] = [media[t] EXCEPT !.submit = IF @ = "files" THEN @ ELSE s]]
    BY <1>4 DEF SubmitReturns
  <2>1. media' = [media EXCEPT ![t] = Returned(media[t], s)]
    BY DEF Returned
  <2>2. UNCHANGED <<deferred, inFlight, told, torn, crossed>>
    BY <1>4 DEF SubmitReturns, delivering, trouble
  <2> SUFFICES ASSUME ~torn
               PROVE  Only(t)
                      /\ Fits(media'[t], deferred'[t], inFlight'[t], told'[t], t \in crossed')
    BY <2>2, OnlyFits
  <2>3. Only(t)
    BY <2>1, <2>2 DEF Only, TypeOK
  <2>4. media'[t] = Returned(media[t], s)
    BY <2>1 DEF TypeOK
  <2>5. Fits(Returned(media[t], s), deferred[t], inFlight[t], told[t], t \in crossed)
    BY ReturnedType, StoryTyped, SameFits DEF Stories, Story
  <2> QED  BY <2>2, <2>3, <2>4, <2>5
<1>5. ASSUME NEW n \in Attempts, SubmitFails(t, n)  PROVE Stories'
  <2> DEFINE job == [media[t] EXCEPT !.status = "failed", !.submit = "failed"]
  <2>1. media' = [media EXCEPT ![t] = job] /\ Settle(t, "failed") /\ UNCHANGED trouble
    BY <1>5 DEF SubmitFails
  <2>2. job \in Job /\ job.status = "failed" /\ job.retries = media[t].retries
    BY DEF Job
  <2> HIDE DEF job
  <2> QED  BY <2>1, <2>2, SettleStep DEF Outcomes
<1>6. ASSUME Failed(t)  PROVE Stories'
  <2> DEFINE job == [media[t] EXCEPT !.status = "failed"]
  <2>1. media' = [media EXCEPT ![t] = job] /\ Settle(t, "failed") /\ UNCHANGED trouble
    BY <1>6 DEF Failed
  <2>2. job \in Job /\ job.status = "failed" /\ job.retries = media[t].retries
    BY DEF Job
  <2> HIDE DEF job
  <2> QED  BY <2>1, <2>2, SettleStep DEF Outcomes
<1>7. ASSUME FilesRead(t)  PROVE Stories'
  <2> DEFINE job == [media[t] EXCEPT !.status = "done", !.submit = "files"]
  <2>1. media' = [media EXCEPT ![t] = job] /\ Settle(t, "resolved") /\ UNCHANGED trouble
    BY <1>7 DEF FilesRead
  <2>2. job \in Job /\ job.status = "done" /\ job.retries = media[t].retries
    BY DEF Job
  <2> HIDE DEF job
  <2> QED  BY <2>1, <2>2, SettleStep DEF Outcomes
<1> QED
  BY <1>0, <1>1, <1>2, <1>3, <1>4, <1>5, <1>6, <1>7
     DEF Submitting, Checking, Answer, Tick, Drop, NoAnswer, Generated

LEMMA DeliveryStories ==
    ASSUME TypeOK, Stories, NEW t \in Tasks,
           Flush(t) \/ Fenced(t) \/ HandOver(t) \/ DeliveryFails(t) \/ Sent(t)
    PROVE  Stories'
<1> DEFINE M == media[t]
           D == deferred[t]
           F == inFlight[t]
           T == told[t]
           cr == t \in crossed
<1>0. UNCHANGED <<media, torn, crossed>>
  BY DEF Flush, Fenced, HandOver, DeliveryFails, Sent, generating, trouble
<1> SUFFICES ASSUME ~torn
             PROVE  Only(t) /\ Fits(media'[t], deferred'[t], inFlight'[t], told'[t], t \in crossed')
  BY <1>0, OnlyFits
<1>s. Typed(M, D, F, T, cr) /\ Fits(M, D, F, T, cr)
  BY StoryTyped DEF Stories, Story
<1>1. CASE Flush(t)
  <2>1. Deliver(t, D) /\ D \in Entry /\ M \in Job
    BY <1>1 DEF Flush, TypeOK
  <2>2. Only(t)
    BY <1>0, <2>1, DeliverOnly DEF Only
  <2> QED  BY <1>0, <1>s, <2>1, <2>2, DeliverFits
<1>2. CASE Fenced(t) \/ DeliveryFails(t)
  <2>1. /\ UNCHANGED <<deferred, told>>
        /\ inFlight' = [inFlight EXCEPT ![t] = None]
    BY <1>2 DEF Fenced, DeliveryFails, Ends
  <2>2. Only(t)
    BY <1>0, <2>1 DEF Only, TypeOK
  <2>3. inFlight'[t] = None
    BY <2>1 DEF TypeOK
  <2>4. Fits(M, D, None, T, cr)
    BY <1>s, OverFits
  <2> QED  BY <1>0, <2>1, <2>2, <2>3, <2>4
<1>3. CASE HandOver(t)
  <2>1. /\ inFlight' = [inFlight EXCEPT ![t] = [F EXCEPT !.at = "sending"]]
        /\ Tells(t, F.of, "failed") /\ UNCHANGED deferred /\ F # None
    BY <1>3 DEF HandOver, At
  <2>2. Only(t)
    BY <1>0, <2>1, TellsAdds DEF Only, TypeOK
  <2>3. inFlight'[t] = [F EXCEPT !.at = "sending"] /\ told'[t] = T \cup {<<F.of, "failed">>}
    BY <2>1, TellsAdds DEF TypeOK
  <2>4. Fits(M, D, [F EXCEPT !.at = "sending"], T \cup {<<F.of, "failed">>}, cr)
    BY <1>s, <2>1, HandedFits
  <2> QED  BY <1>0, <2>1, <2>2, <2>3, <2>4
<1>4. CASE Sent(t)
  <2>1. /\ F # None /\ F.at # "loading"
        /\ deferred' = [deferred EXCEPT ![t] = Marked(D)]
        /\ inFlight' = [inFlight EXCEPT ![t] = None]
        /\ UNCHANGED told
    BY <1>4 DEF Sent, At, Put, Ends
  <2>2. Only(t)
    BY <1>0, <2>1 DEF Only, TypeOK
  <2>3. deferred'[t] = Marked(D) /\ inFlight'[t] = None
    BY <2>1 DEF TypeOK
  <2>4. cr \/ <<D.of, D.status>> \in T
    <3> SUFFICES ASSUME ~cr  PROVE <<D.of, D.status>> \in T
      OBVIOUS
    <3>1. F.of = M.retries /\ <<F.of, "failed">> \in T
      BY <1>s, <2>1 DEF Fits
    <3>2. D.status = "failed"
      BY <1>s, <2>1, <3>1 DEF Fits
    <3>3. D.of = M.retries
      BY <1>s, <3>2 DEF Fits
    <3> QED  BY <3>1, <3>2, <3>3
  <2>5. Fits(M, Marked(D), F, T, cr)
    BY <1>s, <2>4, MarkedFits
  <2>6. Fits(M, Marked(D), None, T, cr)
    BY <2>5, OverFits
  <2> QED  BY <1>0, <2>1, <2>2, <2>3, <2>6
<1> QED  BY <1>1, <1>2, <1>3, <1>4

\* Cancelling: what is pending and polled is what can be cancelled.
Stopped(job) == IF job.status = "pending" THEN [job EXCEPT !.status = "cancelled"] ELSE job

LEMMA StoppedJob ==
    ASSUME NEW job \in Job
    PROVE  /\ Stopped(job) \in Job /\ Stopped(job).retries = job.retries
           /\ Stopped(job).status # "pending"
           /\ job.status = "pending" => Stopped(job).status = "cancelled"
BY DEF Stopped, Job

LEMMA CancelsAll ==
    ASSUME TypeOK, PendingIsPolled, NEW S \in SUBSET Tasks, Cancels(Cancellable(S)),
           NEW t \in Tasks
    PROVE  media'[t] = IF t \in S THEN Stopped(media[t]) ELSE media[t]
<1>1. t \in Cancellable(S) <=> t \in S /\ media[t].status = "pending"
  BY DEF Cancellable, PendingIsPolled
<1> QED  BY <1>1 DEF Cancels, Stopped

\* The job is cancelled and its entry aborted.
LEMMA AbortedFits ==
    ASSUME NEW M, NEW D, NEW F, NEW T, NEW cr, Typed(M, D, F, T, cr), Fits(M, D, F, T, cr)
    PROVE  LET e == Ended(D, "aborted")
           IN  /\ Typed(Stopped(M), e, F, T, cr) /\ Fits(Stopped(M), e, F, T, cr)
               /\ D.status = "pending" => e.status = "aborted"
               /\ e.status # "pending" /\ e.of = D.of
<1> DEFINE e == Ended(D, "aborted")
<1>0. M \in Job /\ D \in Entry
  BY DEF Typed
<1>1. /\ D.status = "pending" => e.status = "aborted"
      /\ e.status # "pending" /\ e.of = D.of /\ e \in Entry
  BY <1>0 DEF Ended, Entry, Outcomes
<1>2. CASE M.status = "pending"
  <2>1. Stopped(M).status = "cancelled" /\ Stopped(M).retries = M.retries /\ Stopped(M) \in Job
    BY <1>0, <1>2, StoppedJob
  <2>2. "aborted" \in Outcomes
    BY DEF Outcomes
  <2>3. Fits(Stopped(M), e, F, T, cr)
    BY <2>1, <2>2, EndedFits
  <2> QED  BY <1>1, <2>1, <2>3 DEF Typed
<1>3. CASE M.status # "pending"
  <2>1. D.status # "pending"
    BY <1>3 DEF Fits
  <2> QED  BY <1>1, <1>3, <2>1 DEF Stopped, Ended
<1> QED  BY <1>2, <1>3

LEMMA CancelStories ==
    ASSUME TypeOK, PendingIsPolled, Stories, NEW t \in Tasks, Cancel(t)
    PROVE  Stories'
<1> DEFINE job == [media[t] EXCEPT !.status = "cancelled"]
<1>1. media' = [media EXCEPT ![t] = job]
  BY DEF Cancel, Cancels, TypeOK
<1>2. job \in Job /\ job.status = "cancelled" /\ job.retries = media[t].retries
  BY DEF TypeOK, Job
<1>3. Settle(t, "aborted") /\ UNCHANGED trouble
  BY DEF Cancel
<1> HIDE DEF job
<1> QED  BY <1>1, <1>2, <1>3, SettleStep DEF Outcomes

LEMMA DiscardStories ==
    ASSUME TypeOK, PendingIsPolled, Stories, NEW S \in SUBSET Tasks, Discard(S)
    PROVE  Stories'
<1>0. UNCHANGED <<inFlight, told, torn, crossed>>
  BY DEF Discard, trouble
<1> SUFFICES ASSUME ~torn, NEW t \in Tasks
             PROVE  Fits(media'[t], deferred'[t], inFlight[t], told[t], t \in crossed)
  BY <1>0 DEF Stories, Story
<1> DEFINE M == media[t]
           D == deferred[t]
           F == inFlight[t]
           T == told[t]
           cr == t \in crossed
           e == Ended(D, "aborted")
<1>1. Typed(M, D, F, T, cr) /\ Fits(M, D, F, T, cr)
  BY StoryTyped DEF Stories, Story
<1>2. media'[t] = IF t \in S THEN Stopped(M) ELSE M
  BY CancelsAll DEF Discard
<1>3. deferred'[t] = IF t \in S /\ D.status # "none" THEN Suppressed(D) ELSE D
  BY DEF Discard
<1>4. CASE t \notin S
  BY <1>1, <1>2, <1>3, <1>4
<1>5. CASE t \in S
  <2>1. /\ Typed(Stopped(M), e, F, T, cr) /\ Fits(Stopped(M), e, F, T, cr)
    BY <1>1, AbortedFits
  <2>2. CASE D.status = "none"
    BY <1>2, <1>3, <1>5, <2>1, <2>2 DEF Ended
  <2>3. CASE D.status # "none"
    <3>1. e.status \in Outcomes /\ Suppressed(e) = Suppressed(D)
      BY <1>1, <2>3 DEF Ended, Suppressed, Typed, Entry, Outcomes
    <3>2. Fits(Stopped(M), Suppressed(e), F, T, cr)
      <4> HIDE DEF e, cr
      <4> QED  BY <2>1, <3>1, SuppressedFits
    <3> QED  BY <1>2, <1>3, <1>5, <2>3, <3>1, <3>2
  <2> QED  BY <2>2, <2>3
<1> QED  BY <1>4, <1>5

LEMMA StopsStories ==
    ASSUME TypeOK, PendingIsPolled, Stories, StopsAll, Follows, UNCHANGED trouble
    PROVE  Stories'
<1>0. UNCHANGED <<torn, crossed>>
  BY DEF trouble
<1> SUFFICES ASSUME ~torn, NEW t \in Tasks
             PROVE  Fits(media'[t], deferred'[t], inFlight'[t], told'[t], t \in crossed)
  BY <1>0 DEF Stories, Story
<1> DEFINE M == media[t]
           D == deferred[t]
           F == inFlight[t]
           T == told[t]
           cr == t \in crossed
           e == Ended(D, "aborted")
           N == Stopped(M)
           U == told'[t]
<1>1. Typed(M, D, F, T, cr) /\ Fits(M, D, F, T, cr)
  BY StoryTyped DEF Stories, Story
<1>2. media'[t] = N
  BY CancelsAll DEF StopsAll
<1>3. deferred'[t] = IF Due(e) THEN Suppressed(e) ELSE e
  <2>1. t \in Cancellable(Tasks) /\ D.status = "pending" <=> D.status = "pending"
    BY <1>1 DEF Cancellable, PendingIsPolled, Fits
  <2>2. deferred'[t] = LET f == IF t \in Cancellable(Tasks) /\ D.status = "pending"
                                THEN [D EXCEPT !.status = "aborted"] ELSE D
                       IN  IF f.status = "pending" \/ Due(f) THEN Suppressed(f) ELSE f
    BY DEF StopsAll
  <2>3. e.status # "pending"
    BY <1>1, AbortedFits
  <2> QED  BY <2>1, <2>2, <2>3 DEF Ended
<1>4. Typed(N, e, F, T, cr) /\ Fits(N, e, F, T, cr)
  BY <1>1, AbortedFits
<1>5. Typed(N, e, F, U, cr) /\ Fits(N, e, F, U, cr)
  <2>1. U = T \/ (U = T \cup {<<D.of, "aborted">>} /\ D.status = "pending" /\ F = None)
    BY DEF StopsAll, Says
  <2>2. CASE U = T
    BY <1>4, <2>2
  <2>3. CASE U = T \cup {<<D.of, "aborted">>} /\ D.status = "pending" /\ F = None
    <3>1. e.status = "aborted" /\ e.of = D.of
      BY <1>1, <2>3, AbortedFits
    <3>2. U = T \cup {<<e.of, e.status>>} /\ e.status \in Outcomes
      BY <2>3, <3>1 DEF Outcomes
    <3> HIDE DEF e, cr, N, U
    <3>3. U \subseteq Attempts \X Outcomes /\ Fits(N, e, F, U, cr)
      BY <1>4, <2>3, <3>2, ToldFits
    <3> QED  BY <1>4, <3>3 DEF Typed
  <2> QED  BY <2>1, <2>2, <2>3
<1>6. Typed(N, IF Due(e) THEN Suppressed(e) ELSE e, F, U, cr)
      /\ Fits(N, IF Due(e) THEN Suppressed(e) ELSE e, F, U, cr)
  <2> HIDE DEF e, cr, N, U
  <2> QED  BY <1>5, SuppressedFits, EntryTypes DEF Due, Typed
<1>7. Fits(N, IF Due(e) THEN Suppressed(e) ELSE e, inFlight'[t], U, cr)
  <2> HIDE DEF e, cr, N, U
  <2> QED  BY <1>6, FollowsFits
<1> QED  BY <1>2, <1>3, <1>7

LEMMA SessionStories ==
    ASSUME TypeOK, Stories, SessionStarted
    PROVE  Stories'
<1>0. UNCHANGED <<media, inFlight, torn, crossed>>
  BY DEF SessionStarted, generating, trouble
<1> SUFFICES ASSUME ~torn, NEW t \in Tasks
             PROVE  Fits(media[t], deferred'[t], inFlight[t], told'[t], t \in crossed)
  BY <1>0 DEF Stories, Story
<1> DEFINE M == media[t]
           D == deferred[t]
           F == inFlight[t]
           T == told[t]
           cr == t \in crossed
           U == T \cup {<<D.of, "failed">>}
<1>1. Typed(M, D, F, T, cr) /\ Fits(M, D, F, T, cr)
  BY StoryTyped DEF Stories, Story
<1>2. CASE Due(D) /\ Wakes(D)
  <2>1. deferred'[t] = Marked(D) /\ told'[t] = U
    BY <1>2 DEF SessionStarted, Says
  <2>2. D.status = "failed" /\ D.status \in Outcomes
    BY <1>2 DEF Wakes, Outcomes
  <2>3. U \subseteq Attempts \X Outcomes /\ Fits(M, D, F, U, cr)
    BY <1>1, <2>2, ToldFits
  <2>4. Typed(M, D, F, U, cr) /\ <<D.of, D.status>> \in U
    BY <1>1, <2>2, <2>3 DEF Typed
  <2> HIDE DEF U, cr
  <2>5. Fits(M, Marked(D), F, U, cr)
    BY <2>3, <2>4, MarkedFits
  <2> QED  BY <2>1, <2>5 DEF cr
<1>3. CASE ~(Due(D) /\ Wakes(D))
  <2>1. deferred'[t] = D /\ told'[t] = T
    BY <1>3 DEF SessionStarted, Says
  <2> QED  BY <1>1, <2>1
<1> QED  BY <1>2, <1>3

LEMMA ArchivedStories ==
    ASSUME TypeOK, Stories, Archived
    PROVE  Stories'
<1>0. UNCHANGED <<media, told, torn, crossed>> /\ Follows
  BY DEF Archived, Follows, generating, trouble
<1> SUFFICES ASSUME ~torn, NEW t \in Tasks
             PROVE  Fits(media[t], deferred'[t], inFlight'[t], told[t], t \in crossed)
  BY <1>0 DEF Stories, Story
<1> DEFINE M == media[t]
           D == deferred[t]
           F == inFlight[t]
           T == told[t]
           cr == t \in crossed
           e == IF D.status = "pending" THEN NoEntry ELSE D
<1>1. deferred'[t] = e
  BY DEF Archived
<1>2. Typed(M, D, F, T, cr) /\ Fits(M, D, F, T, cr)
  BY StoryTyped DEF Stories, Story
<1>3. Typed(M, e, F, T, cr) /\ Fits(M, e, F, T, cr)
  BY <1>2, ClearedFits, EntryTypes DEF Typed
<1> HIDE DEF e, cr
<1> QED  BY <1>0, <1>1, <1>3, FollowsFits DEF cr

LEMMA HibernatedStories ==
    ASSUME TypeOK, Stories, Hibernated
    PROVE  Stories'
<1>1. UNCHANGED <<media, deferred, told, torn, crossed>> /\ Follows
  BY DEF Hibernated, Follows, generating, trouble
<1> QED  BY <1>1, StoryTyped, FollowsFits DEF Stories, Story

\* After a crash that nothing was lost in, what was being submitted has failed, and
\* what is pending and has no entry gets one.
LEMMA RestartStories ==
    ASSUME TypeOK, Stories, Restart
    PROVE  Stories'
<1> SUFFICES ASSUME ~torn'  PROVE Stories'
  BY DEF Stories
<1> DEFINE jobs    == IF mediaFile = None THEN media ELSE mediaFile
           entries == IF deferredFile = None THEN deferred ELSE deferredFile
           pending == {t \in Tasks : jobs[t].status = "pending"}
           cut     == {t \in pending : Cut(jobs[t])}
           late    == {t \in cut : entries[t].status = "pending"}
           failed(t) == [entries[t] EXCEPT !.status = "failed"]
<1>d. deferred' = [t \in Tasks |->
                     IF t \in late
                     THEN IF session = "archived" /\ ~entries[t].delivered
                          THEN Suppressed(failed(t)) ELSE failed(t)
                     ELSE IF t \in pending \ cut /\ entries[t].status = "none"
                     THEN Pending(jobs[t])
                     ELSE entries[t]]
  BY DEF Restart
<1>i. inFlight' = [t \in Tasks |->
                     IF t \in late /\ session # "archived" /\ ~entries[t].delivered
                     THEN [at |-> "loading", of |-> entries[t].of] ELSE None]
  BY DEF Restart
<1>1. jobs = media /\ entries = deferred /\ ~torn
  BY DEF Restart, TypeOK
<1> SUFFICES ASSUME NEW t \in Tasks
             PROVE  Fits(media'[t], deferred'[t], inFlight'[t], told'[t], t \in crossed')
  BY DEF Stories, Story
<1> DEFINE M == media[t]
           D == deferred[t]
           F == inFlight[t]
           T == told[t]
           cr == t \in crossed
           N == [M EXCEPT !.status = "failed", !.submit = "failed"]
           e == Ended(D, "failed")
<1>2. Typed(M, D, F, T, cr) /\ Fits(M, D, F, T, cr)
  BY <1>1, StoryTyped DEF Stories, Story
<1>3. told' = told /\ crossed' = crossed
  BY DEF Restart
<1>4. CASE M.status = "pending" /\ Cut(M)
  <2> DEFINE failing == D.status = "pending"
  <2>1. media'[t] = N
    BY <1>1, <1>4 DEF Restart
  <2>f. t \in pending /\ t \in cut /\ (t \in late <=> failing)
    BY <1>1, <1>4
  <2>2. deferred'[t] = IF failing
                       THEN IF session = "archived" /\ ~D.delivered
                            THEN Suppressed(e) ELSE e
                       ELSE D
    <3>1. e = IF failing THEN [D EXCEPT !.status = "failed"] ELSE D
      BY DEF Ended
    <3> HIDE DEF pending, cut, late, entries, jobs, e
    <3> QED  BY <1>1, <1>d, <2>f, <3>1
  <2>3. inFlight'[t] = IF failing /\ session # "archived" /\ ~D.delivered
                       THEN [at |-> "loading", of |-> D.of] ELSE None
    <3> HIDE DEF pending, cut, late, entries, jobs
    <3> QED  BY <1>1, <1>i, <2>f
  <2>4. N \in Job /\ N.status = "failed" /\ N.retries = M.retries
    BY <1>2 DEF Typed, Job
  <2>5. Fits(N, e, None, T, cr) /\ Typed(N, e, None, T, cr)
    <3> HIDE DEF N, cr
    <3>1. "failed" \in Outcomes
      BY DEF Outcomes
    <3>2. Fits(N, e, F, T, cr) /\ e \in Entry
      BY <1>2, <2>4, <3>1, EndedFits
    <3> HIDE DEF e
    <3> QED  BY <1>2, <2>4, <3>2, OverFits DEF Typed
  <2>6. CASE ~failing
    <3> e = D  BY <2>6 DEF Ended
    <3> QED  BY <1>3, <2>1, <2>2, <2>3, <2>5, <2>6
  <2>7. CASE failing
    <3>1. e.status = "failed" /\ e.of = D.of
      BY <1>2, <2>7 DEF Ended, Typed, Entry
    <3>2. e.status \in Outcomes
      BY <3>1 DEF Outcomes
    <3> HIDE DEF e, N, cr
    <3>3. Fits(N, Suppressed(e), None, T, cr)
      BY <2>5, <3>2, SuppressedFits
    <3>4. Fits(N, e, [at |-> "loading", of |-> e.of], T, cr)
      BY <2>5, <3>1, StartFits
    <3> QED  BY <1>3, <2>1, <2>2, <2>3, <2>5, <2>7, <3>1, <3>3, <3>4 DEF cr
  <2> QED  BY <2>6, <2>7
<1>5. CASE ~(M.status = "pending" /\ Cut(M))
  <2>1. media'[t] = M /\ inFlight'[t] = None
    BY <1>1, <1>5 DEF Restart
  <2>2. deferred'[t] = IF M.status = "pending" /\ D.status = "none" THEN Pending(M) ELSE D
    BY <1>1, <1>5 DEF Restart
  <2>3. Fits(M, D, None, T, cr)
    BY <1>2, OverFits
  <2>4. M.status = "pending" /\ D.status = "none" => Fits(M, Pending(M), None, T, cr)
    BY <1>2, AgainFits
  <2> QED  BY <1>3, <2>1, <2>2, <2>3, <2>4
<1> QED  BY <1>4, <1>5

LEMMA StoriesStep == ASSUME TypeOK, PendingIsPolled, Stories, [Next]_vars PROVE Stories'
<1>1. ASSUME UNCHANGED <<generating, delivering, trouble>>  PROVE Stories'
  BY <1>1 DEF Stories, Story, generating, delivering, trouble
<1>2. Stop \/ Archive => Stories'
  BY StopsStories DEF Stop, Archive, Follows
<1> QED
  BY <1>1, <1>2, GenerationStories, DeliveryStories, CancelStories, DiscardStories,
     SessionStories, ArchivedStories, HibernatedStories, RestartStories
     DEF Next, Load, Hibernate, MediaLags, DeferredLags, vars

LEMMA InitOK == Init => TypeOK /\ PendingIsPolled
<1>1. NoJob \in Job /\ NoEntry \in Entry
  BY AttemptsAreNaturals DEF NoJob, NoEntry, Job, Entry
<1>2. 0 \in 0..MaxCrashes
  BY BoundsAssumption
<1>3. Init => TypeOK
  BY <1>1, <1>2 DEF Init, TypeOK
<1>4. Init => PendingIsPolled
  BY DEF Init, PendingIsPolled, NoJob
<1> QED  BY <1>3, <1>4

\* The inductive invariant: the tasks are polled, and the story of each, its entry, its
\* delivery and what the session was told of it agree.
THEOREM StoriesHold == Spec => [](TypeOK /\ PendingIsPolled /\ Stories)
<1>1. Init => TypeOK /\ PendingIsPolled /\ Stories
  <2>1. ASSUME Init, NEW t \in Tasks  PROVE Story(t)
    <3>1. /\ media[t] = NoJob /\ deferred[t] = NoEntry /\ inFlight[t] = None
          /\ told[t] = {}
      BY <2>1 DEF Init
    <3>2. Fits(NoJob, NoEntry, None, {}, t \in crossed)
      BY DEF Fits, NoJob, NoEntry, Outcomes
    <3> QED  BY <3>1, <3>2 DEF Story
  <2> QED  BY <2>1, InitOK DEF Stories
<1>2. TypeOK /\ PendingIsPolled /\ Stories /\ [Next]_vars
      => (TypeOK /\ PendingIsPolled /\ Stories)'
  BY TypeStep, PolledStep, StoriesStep
<1> QED  BY <1>1, <1>2, PTL DEF Spec

\* No entry waits for a task that has ended, unless a crash lost a write.
THEOREM NobodyWaitsHolds == Spec => []NobodyWaits
<1>1. Stories => NobodyWaits
  BY DEF Stories, Story, Fits, NobodyWaits
<1> QED  BY <1>1, StoriesHold, PTL

\* The session is never told two outcomes of one attempt.
THEOREM OneOutcomeHolds == Spec => []OneOutcome
<1>1. Stories => OneOutcome
  BY DEF Stories, Story, Fits, OneOutcome
<1> QED  BY <1>1, StoriesHold, PTL

\* What is marked as delivered and is not fenced off was told to the session, as it was,
\* except for a task that was retried while it was delivered.
THEOREM DeliveredIsToldHolds == Spec => []DeliveredIsTold
<1>1. Stories => DeliveredIsTold
  BY DEF Stories, Story, Fits, DeliveredIsTold, Heard
<1> QED  BY <1>1, StoriesHold, PTL

------------------------------------------------------------------------------
(* The fence.                                                              *)

Fence(t) ==
    deferred[t].suppressed =>
       /\ told'[t] = told[t]
       /\ deferred'[t].suppressed \/ deferred'[t].of > deferred[t].of

\* What is fenced off is neither pending nor due.
LEMMA SuppressedIsOver ==
    ASSUME TypeOK, Stories, ~torn, NEW t \in Tasks, deferred[t].suppressed
    PROVE  /\ deferred[t].status \in Outcomes /\ deferred[t].status # "pending"
           /\ deferred[t].status # "none" /\ deferred[t].delivered = TRUE
           /\ ~Due(deferred[t]) /\ Marked(deferred[t]) = deferred[t]
           /\ Suppressed(deferred[t]) = deferred[t]
           /\ deferred[t].of = media[t].retries
<1>1. Fits(media[t], deferred[t], inFlight[t], told[t], t \in crossed) /\ deferred[t] \in Entry
  BY DEF Stories, Story, TypeOK
<1>2. deferred[t].status \in Outcomes /\ deferred[t].delivered
  BY <1>1 DEF Fits
<1>3. deferred[t].status # "none" /\ deferred[t].status # "pending"
  BY <1>2 DEF Outcomes
<1>4. deferred[t].delivered = TRUE /\ deferred[t].suppressed = TRUE
  BY <1>1, <1>2 DEF Entry
<1>5. Suppressed(deferred[t]) = deferred[t]
  BY <1>1, <1>3, <1>4 DEF Suppressed, Entry
<1> QED  BY <1>1, <1>2, <1>3, <1>4, <1>5 DEF Due, Marked, Fits

LEMMA DeliverFence ==
    ASSUME TypeOK, Stories, ~torn, NEW t \in Tasks, NEW u \in Tasks,
           \/ Deliver(u, deferred[u])
           \/ \E how \in Outcomes : Settle(u, how)
    PROVE  Fence(t)
<1>1. CASE t = u
  BY <1>1, SuppressedIsOver DEF Fence, Deliver, Settle, Put, delivering, TypeOK
<1>2. CASE t # u
  BY <1>2, DeliverOnly, SettleOnly DEF Fence
<1> QED  BY <1>1, <1>2

LEMMA BeginFence ==
    ASSUME TypeOK, Stories, ~torn, NEW t \in Tasks, NEW u \in Tasks,
           GenerateImage(u) \/ GenerateVideo(u) \/ RetryImage(u)
    PROVE  Fence(t)
<1>1. UNCHANGED told /\ Put(u, Pending(media'[u]))
  BY DEF GenerateImage, GenerateVideo, RetryImage
<1>2. CASE t # u
  BY <1>1, <1>2 DEF Fence, Put, TypeOK
<1>3. CASE t = u
  <2> SUFFICES ASSUME deferred[u].suppressed  PROVE deferred'[u].of > deferred[u].of
    BY <1>1, <1>3 DEF Fence
  <2>1. deferred[u].status # "none" /\ deferred[u].of = media[u].retries
    BY SuppressedIsOver
  <2>2. RetryImage(u)
    BY <2>1 DEF GenerateImage, GenerateVideo, New
  <2>3. media'[u].retries = media[u].retries + 1 /\ media[u].retries \in Nat
    BY <2>2, AttemptsAreNaturals DEF RetryImage, TypeOK, Job
  <2>4. deferred'[u].of = media'[u].retries
    BY <1>1 DEF Put, Pending, TypeOK
  <2> QED  BY <2>1, <2>3, <2>4
<1> QED  BY <1>2, <1>3

LEMMA DeliveryFence ==
    ASSUME TypeOK, Stories, ~torn, NEW t \in Tasks, NEW u \in Tasks,
           Fenced(u) \/ HandOver(u) \/ DeliveryFails(u) \/ Sent(u)
    PROVE  Fence(t)
<1>1. CASE Fenced(u) \/ DeliveryFails(u)
  BY <1>1 DEF Fence, Fenced, DeliveryFails
<1>2. CASE HandOver(u)
  <2> UNCHANGED deferred /\ Tells(u, inFlight[u].of, "failed") /\ ~deferred[u].suppressed
    BY <1>2 DEF HandOver
  <2> QED  BY TellsAdds DEF Fence
<1>3. CASE Sent(u)
  <2> UNCHANGED told /\ deferred' = [deferred EXCEPT ![u] = Marked(deferred[u])]
    BY <1>3 DEF Sent, Put
  <2> QED  BY SuppressedIsOver DEF Fence, TypeOK
<1> QED  BY <1>1, <1>2, <1>3

LEMMA StopsFence ==
    ASSUME TypeOK, Stories, ~torn, NEW t \in Tasks, StopsAll
    PROVE  Fence(t)
<1> SUFFICES ASSUME deferred[t].suppressed
             PROVE  told'[t] = told[t] /\ deferred'[t] = deferred[t]
  BY DEF Fence
<1>1. deferred[t].status # "pending" /\ ~Due(deferred[t])
  BY SuppressedIsOver
<1>2. told'[t] = told[t]
  BY <1>1 DEF StopsAll, Says
<1>3. deferred'[t] = deferred[t]
  BY <1>1 DEF StopsAll
<1> QED  BY <1>2, <1>3

LEMMA FenceStep ==
    ASSUME TypeOK, Stories, [Next]_vars, ~torn', NEW t \in Tasks
    PROVE  Fence(t)
<1>0. ~torn
  BY DEF Next, Restart, GenerateImage, GenerateVideo, RetryImage, Submitting, SubmitReturns,
         SubmitFails, Tick, Drop, Checking, Answer, NoAnswer, Generated, Failed, FilesRead,
         Cancel, Flush, Fenced, HandOver, DeliveryFails, Sent, Discard, SessionStarted, Stop,
         Archive, Archived, Load, Hibernate, Hibernated,
         MediaLags, DeferredLags, vars, trouble
<1>1. ASSUME UNCHANGED delivering  PROVE Fence(t)
  BY <1>1 DEF Fence, delivering
<1>2. ASSUME NEW u \in Tasks,
             \/ \E n \in Attempts : SubmitFails(u, n)
             \/ Failed(u) \/ FilesRead(u) \/ Cancel(u) \/ Flush(u)
      PROVE  Fence(t)
  BY <1>0, <1>2, DeliverFence DEF SubmitFails, Failed, FilesRead, Cancel, Flush, Outcomes
<1>3. ASSUME NEW S \in SUBSET Tasks, Discard(S)  PROVE Fence(t)
  BY <1>0, <1>3, SuppressedIsOver DEF Discard, Fence
<1>4. ASSUME Stop \/ Archive  PROVE Fence(t)
  BY <1>0, <1>4, StopsFence DEF Stop, Archive
<1>5. ASSUME SessionStarted  PROVE Fence(t)
  <2>1. SUFFICES ASSUME deferred[t].suppressed
                 PROVE  told'[t] = told[t] /\ deferred'[t] = deferred[t]
    BY DEF Fence
  <2>2. ~Due(deferred[t])
    BY <1>0, <2>1, SuppressedIsOver
  <2> QED  BY <1>5, <2>2 DEF SessionStarted, Says
<1>6. ASSUME Archived  PROVE Fence(t)
  BY <1>0, <1>6, SuppressedIsOver DEF Archived, Fence
<1>8. ASSUME Hibernated  PROVE Fence(t)
  BY <1>8 DEF Hibernated, Fence
<1>7. ASSUME Restart  PROVE Fence(t)
  <2>1. SUFFICES ASSUME deferred[t].suppressed
                 PROVE  told'[t] = told[t] /\ deferred'[t] = deferred[t]
    BY DEF Fence
  <2>2. deferred[t].status # "pending" /\ deferred[t].status # "none"
    BY <1>0, <2>1, SuppressedIsOver
  <2>3. (IF deferredFile = None THEN deferred ELSE deferredFile) = deferred
    BY <1>7 DEF Restart
  <2> QED  BY <1>7, <2>2, <2>3 DEF Restart
<1> QED
  BY <1>0, <1>1, <1>2, <1>3, <1>4, <1>5, <1>6, <1>7, <1>8, BeginFence, DeliveryFence
     DEF Next, Submitting, SubmitReturns, Tick, Drop, Checking, Answer, NoAnswer, Generated,
         Load, Hibernate, Hibernated, MediaLags, DeferredLags, vars

\* Nothing of a task that was discarded is told to the session, and only a retry of the
\* task lifts the fence.
THEOREM FenceHoldsAlways == Spec => FenceHolds
<1>1. TypeOK /\ PendingIsPolled /\ Stories /\ [Next]_vars
      => [~torn' => \A t \in Tasks : deferred[t].suppressed =>
            /\ told'[t] = told[t]
            /\ deferred'[t].suppressed \/ deferred'[t].of > deferred[t].of]_vars
  BY FenceStep DEF Fence
<1> QED  BY <1>1, StoriesHold, PTL DEF Spec, FenceHolds
==============================================================================
