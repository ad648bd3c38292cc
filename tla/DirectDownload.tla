--------------------------- MODULE DirectDownload ---------------------------
(***************************************************************************)
(* routers/suwayomi_.py: volumes and chapters downloaded through Suwayomi.   *)
(*                                                                         *)
(* A grab finds the manga, asks Suwayomi to enqueue its chapters, records a  *)
(* job and starts the downloader, awaiting Suwayomi between these steps.  A  *)
(* poll lists the queued jobs, asks Suwayomi about each one and imports what *)
(* is downloaded in a file unit under the file-mutation lock.  Users cancel  *)
(* and retry jobs, and other clients grab the same items, at any of these    *)
(* points.  What happens on disk in the unit is in module ChapterCopy.       *)
(***************************************************************************)
EXTENDS Naturals, FiniteSets

CONSTANTS Item,       \* volumes and uncollected chapters
          Job,        \* bound: ids of rows of suwayomi_downloads
          Grabber,    \* tasks that may be in suwayomi_grab at the same time
          MaxTries    \* attempts of the poll on one job (3 in the code)

VARIABLES kind,       \* per item, "volume" or "chapter"
          row,        \* per item [st, client]
          job,        \* per id [st, item, startup]; startup: the error is a start failure
          up,         \* per item, what Suwayomi has of its chapters
          grab,       \* per grabber [pc, item, job]
          poll,       \* [pc, todo, cur, startup, saw, tries]
          retry       \* a retry request: [pc, job]
vars == <<kind, row, job, up, grab, poll, retry>>

NoJob == 0
Free == [st |-> "free", item |-> CHOOSE i \in Item : TRUE, startup |-> FALSE]
Upstream == {"idle", "enqueued", "active", "done", "error"}
TypeOK ==
    /\ row \in [Item -> [st : {"absent", "wanted", "grabbed", "downloaded"},
                         client : {"none", "suwayomi", "other"}]]
    /\ job \in [Job -> [st : {"free", "queued", "error", "completed", "deleted"},
                        item : Item, startup : BOOLEAN]]
    /\ up \in [Item -> Upstream]
    /\ grab \in [Grabber -> [pc : {"idle", "checked", "found", "record", "start"},
                             item : Item, job : Job \cup {NoJob}]]
    /\ poll.pc \in {"idle", "next", "ask", "decide", "unit", "raised"}
    /\ retry.pc \in {"idle", "enqueue", "start"}

IdleGrab == [pc |-> "idle", item |-> Free.item, job |-> NoJob]
IdlePoll == [pc |-> "idle", todo |-> {}, cur |-> NoJob, startup |-> FALSE,
             saw |-> "none", tries |-> 0]
IdleRetry == [pc |-> "idle", job |-> NoJob]
Init ==
    /\ kind \in [Item -> {"volume", "chapter"}]
    /\ row \in [Item -> [st : {"absent", "wanted"}, client : {"none"}]]
    /\ \A i \in Item : row[i].st = "absent" => kind[i] = "chapter"
    /\ job = [j \in Job |-> Free] /\ up = [i \in Item |-> "idle"]
    /\ grab = [g \in Grabber |-> IdleGrab] /\ poll = IdlePoll /\ retry = IdleRetry

Status(j) == job[j].st
ActiveJob(i) == {j \in Job : Status(j) \in {"queued", "error"} /\ job[j].item = i}
Set(j, st) == job' = [job EXCEPT ![j].st = st]
\* UPDATE ... WHERE id=?: finds nothing once the job is deleted.
SetById(j, st) == IF Status(j) = "deleted" THEN UNCHANGED job ELSE Set(j, st)

(***************************************************************************)
(* suwayomi_grab and suwayomi_chapter_grab.                                 *)
(***************************************************************************)
\* The duplicate guard is read before everything that is awaited.
Guarded(g, i) ==
    /\ grab[g].pc = "idle" /\ ActiveJob(i) = {}
    /\ Cardinality({j \in Job : Status(j) = "free"})                   \* bound
         > Cardinality({h \in Grabber : grab[h].pc \in {"checked", "found", "record"}})
    /\ grab' = [grab EXCEPT ![g] = [pc |-> "checked", item |-> i, job |-> NoJob]]
    /\ UNCHANGED <<kind, row, job, up, poll, retry>>
suwayomi_grab(g, i) == kind[i] = "volume" /\ Guarded(g, i)
suwayomi_chapter_grab(g, i) == kind[i] = "chapter" /\ row[i].st # "absent" /\ Guarded(g, i)
\* The manga is linked, found in the library or in the source and added, or not.
find_or_add_manga(g) ==
    /\ grab[g].pc = "checked"
    /\ grab' = [grab EXCEPT ![g] = IdleGrab] \/ grab' = [grab EXCEPT ![g].pc = "found"]
    /\ UNCHANGED <<kind, row, job, up, poll, retry>>
\* Chapters that are downloaded stay as they are.
Enqueued(i) == [up EXCEPT ![i] = IF @ \in {"idle", "error"} THEN "enqueued" ELSE @]
\* All the chapters of the volume are in the feed, or nothing is enqueued.
_chapters_for_volume(g) ==
    /\ grab[g].pc = "found"
    /\ \/ up' = Enqueued(grab[g].item) /\ grab' = [grab EXCEPT ![g].pc = "record"]
       \/ grab' = [grab EXCEPT ![g] = IdleGrab] /\ UNCHANGED up
    /\ UNCHANGED <<kind, row, job, poll, retry>>
RecordJob(g) ==
    LET i == grab[g].item IN
    /\ grab[g].pc = "record"
    /\ \E j \in Job :
         /\ Status(j) = "free" /\ \A k \in Job : k < j => Status(k) # "free"
         /\ job' = [job EXCEPT ![j] = [st |-> "queued", item |-> i, startup |-> FALSE]]
         /\ grab' = [grab EXCEPT ![g].pc = "start", ![g].job = j]
    /\ row' = [row EXCEPT ![i] = IF @.st = "wanted"
                                 THEN [st |-> "grabbed", client |-> "suwayomi"] ELSE @]
    /\ UNCHANGED <<kind, up, poll, retry>>
\* A failure to start is ambiguous: the downloads may run all the same.
Started(i) == [up EXCEPT ![i] = IF @ = "enqueued" THEN "active" ELSE @]
_start_downloader(j) ==
    \/ up[job[j].item] = "done" /\ UNCHANGED <<up, job>>
    \/ up' = Started(job[j].item) /\ UNCHANGED job
    \/ /\ up' \in {up, Started(job[j].item)}
       /\ job' = [job EXCEPT ![j].startup = @ \/ Status(j) = "queued"]
StartGrab(g) ==
    /\ grab[g].pc = "start" /\ _start_downloader(grab[g].job)
    /\ grab' = [grab EXCEPT ![g] = IdleGrab]
    /\ UNCHANGED <<kind, row, poll, retry>>

(***************************************************************************)
(* check_suwayomi_jobs: one pass over the jobs queued when it started.      *)
(***************************************************************************)
check_suwayomi_jobs ==
    /\ poll.pc = "idle"
    /\ \E j \in Job : Status(j) = "queued"
    /\ poll' = [IdlePoll EXCEPT !.pc = "next",
                   !.todo = {[id |-> j, startup |-> job[j].startup] :
                              j \in {k \in Job : Status(k) = "queued"}}]
    /\ UNCHANGED <<kind, row, job, up, grab, retry>>
NextJob ==
    /\ poll.pc = "next"
    /\ IF poll.todo = {} THEN poll' = IdlePoll
       ELSE \E t \in poll.todo :
              poll' = [poll EXCEPT !.pc = "ask", !.todo = @ \ {t}, !.cur = t.id,
                                   !.startup = t.startup, !.tries = 0]
    /\ UNCHANGED <<kind, row, job, up, grab, retry>>
Polling(pc) == poll' = [poll EXCEPT !.pc = pc, !.saw = "none"]
Done == poll' = [IdlePoll EXCEPT !.pc = "next", !.todo = poll.todo]
\* Anything that raises is tried again, at last the job is marked.
Raise == poll' = [poll EXCEPT !.pc = "raised", !.tries = @ + 1]
Attempts ==
    /\ poll.pc = "raised"
    /\ IF poll.tries < MaxTries THEN Polling("ask") /\ UNCHANGED job
       ELSE Done /\ SetById(poll.cur, "error")
    /\ UNCHANGED <<kind, row, up, grab, retry>>
Seen(u) == IF u \in {"done", "error"} THEN u ELSE "pending"
\* The state of the chapters, and the errors of the download queue.
_process_suwayomi_job ==
    /\ poll.pc = "ask"
    /\ \/ poll' = [poll EXCEPT !.pc = "decide", !.saw = Seen(up[job[poll.cur].item])]
       \/ Raise
    /\ UNCHANGED <<kind, row, job, up, grab, retry>>
\* Neither a pause nor a missing answer about the queue proves a failure.
Decide ==
    LET j == poll.cur
        failed == poll.startup \/ poll.saw = "error"
    IN  /\ poll.pc = "decide"
        /\ IF poll.saw = "done" THEN Polling("unit") /\ UNCHANGED job
           ELSE /\ Done
                /\ \/ failed /\ Status(j) = "queued" /\ Set(j, "error")
                   \/ ~(failed /\ Status(j) = "queued") /\ UNCHANGED job
        /\ UNCHANGED <<kind, row, up, grab, retry>>
\* The lock is busy, or the library refuses changes of the series: next time.
UnitBusy ==
    /\ poll.pc = "unit" /\ Done
    /\ UNCHANGED <<kind, row, job, up, grab, retry>>
\* The files of all the chapters of the job are found, or none is taken.
_source_chapter_cbz == kind[job[poll.cur].item] = "chapter" /\ SetById(poll.cur, "error")
_source_volume_selection == kind[job[poll.cur].item] = "volume" /\ SetById(poll.cur, "error")
NotFound ==
    /\ poll.pc = "unit" /\ Done /\ (_source_chapter_cbz \/ _source_volume_selection)
    /\ UNCHANGED <<kind, row, up, grab, retry>>
Settled(i) == IF row[i].st = "absent" THEN row
              ELSE [row EXCEPT ![i] = [st |-> "downloaded", client |-> "suwayomi"]]
\* The history is written in a transaction of its own, which may raise.
_complete_suwayomi_job_files ==
    LET j == poll.cur IN
    /\ poll.pc = "unit" /\ SetById(j, "completed") /\ row' = Settled(job[j].item)
    /\ Done \/ Raise
    /\ UNCHANGED <<kind, up, grab, retry>>
UnitRaises ==                                    \* rolled back
    /\ poll.pc = "unit" /\ Raise
    /\ UNCHANGED <<kind, row, job, up, grab, retry>>

(***************************************************************************)
(* Users, other clients and Suwayomi itself.                                *)
(***************************************************************************)
retry_suwayomi_job(j) ==
    /\ retry.pc = "idle" /\ Status(j) = "error"
    /\ job' = [job EXCEPT ![j].st = "queued", ![j].startup = FALSE]
    /\ row' = [row EXCEPT ![job[j].item] =
                 IF @.st \in {"downloaded", "absent"} THEN @
                 ELSE [st |-> "grabbed", client |-> "suwayomi"]]
    /\ retry' = [pc |-> "enqueue", job |-> j]
    /\ UNCHANGED <<kind, up, grab, poll>>
RetryEnqueue ==
    /\ retry.pc = "enqueue"
    /\ \/ up' = Enqueued(job[retry.job].item) /\ retry' = [retry EXCEPT !.pc = "start"]
          /\ UNCHANGED job
       \/ SetById(retry.job, "error") /\ retry' = IdleRetry /\ UNCHANGED up
    /\ UNCHANGED <<kind, row, grab, poll>>
RetryStart ==
    /\ retry.pc = "start" /\ _start_downloader(retry.job) /\ retry' = IdleRetry
    /\ UNCHANGED <<kind, row, grab, poll>>

\* Mutation of cancel_suwayomi_job: the row stays grabbed.
cancel_suwayomi_job_keeps(j) ==
    /\ Status(j) \in {"queued", "error"} /\ Set(j, "deleted")
    /\ UNCHANGED <<kind, row, up, grab, poll, retry>>
cancel_suwayomi_job(j) ==
    /\ Status(j) \in {"queued", "error"} /\ Set(j, "deleted")
    /\ row' = [row EXCEPT ![job[j].item] =
                 IF @ = [st |-> "grabbed", client |-> "suwayomi"]
                 THEN [st |-> "wanted", client |-> "none"] ELSE @]
    /\ UNCHANGED <<kind, up, grab, poll, retry>>

\* A pass of the monitor adds the chapters of the feed that have no row; it
\* grabs what is wanted, chapters only if no local volume covers them.
_suwayomi_sync_series(i) ==
    /\ row[i].st = "absent" /\ row' = [row EXCEPT ![i].st = "wanted"]
    /\ UNCHANGED <<kind, job, up, grab, poll, retry>>
\* A grab of another client, its import, and a user who wants the item again.
Other(i) ==
    /\ \/ row[i].st = "wanted" /\ row' = [row EXCEPT ![i] = [st |-> "grabbed", client |-> "other"]]
       \/ row[i].client = "other" /\ row' = [row EXCEPT ![i].st = "downloaded"]
       \/ row[i].st \in {"grabbed", "downloaded"}
          /\ row' = [row EXCEPT ![i] = [st |-> "wanted", client |-> "none"]]
    /\ UNCHANGED <<kind, job, up, grab, poll, retry>>
Download(i) ==
    /\ up[i] = "active" /\ up' \in {[up EXCEPT ![i] = st] : st \in {"done", "error"}}
    /\ UNCHANGED <<kind, row, job, grab, poll, retry>>

Next ==
    \/ \E g \in Grabber : \/ \E i \in Item : suwayomi_grab(g, i) \/ suwayomi_chapter_grab(g, i)
                          \/ find_or_add_manga(g) \/ _chapters_for_volume(g)
                          \/ RecordJob(g) \/ StartGrab(g)
    \/ check_suwayomi_jobs \/ NextJob \/ Attempts \/ _process_suwayomi_job \/ Decide
    \/ UnitBusy \/ UnitRaises \/ NotFound \/ _complete_suwayomi_job_files
    \/ \E j \in Job : retry_suwayomi_job(j) \/ cancel_suwayomi_job(j)
    \/ RetryEnqueue \/ RetryStart
    \/ \E i \in Item : _suwayomi_sync_series(i) \/ Other(i) \/ Download(i)
Spec == Init /\ [][Next]_vars

\* The poll is called from a periodic task, requests and grabs run on, Suwayomi
\* ends what it has started, and a unit that is tried for ever gets the lock and
\* ends without an exception at last.
PollStep == check_suwayomi_jobs \/ NextJob \/ Attempts \/ _process_suwayomi_job \/ Decide
            \/ UnitBusy \/ UnitRaises
UnitEnds == NotFound \/ _complete_suwayomi_job_files
GrabStep(g) == find_or_add_manga(g) \/ _chapters_for_volume(g) \/ RecordJob(g) \/ StartGrab(g)
RetryStep == RetryEnqueue \/ RetryStart
Fairness ==
    /\ WF_vars(PollStep) /\ SF_vars(UnitEnds)
    /\ \A g \in Grabber : WF_vars(GrabStep(g))
    /\ WF_vars(RetryStep)
    /\ \A i \in Item : WF_vars(Download(i))

-----------------------------------------------------------------------------
\* Nothing that is marked as grabbed here is forgotten: a job that can be polled,
\* retried or cancelled stands for it, however grabs, polls, cancellations and
\* retries of the same item interleave.
GrabbedIsTracked ==
    \A i \in Item : row[i] = [st |-> "grabbed", client |-> "suwayomi"] => ActiveJob(i) # {}

Twice(j) == \E k \in Job \ {j} : job[k].item = job[j].item /\ Status(k) # "free"
Waiting(j) == Status(j) = "queued" /\ ~Twice(j)
\* A queued job that is the only one of its item is completed, exposed as an error or
\* cancelled in the end, also when the downloader could not be started, unless another
\* grab records a second job of the item first: two of them may undo each other's
\* downloads, and nothing is claimed of either.
JobSettles == \A j \in Job : Waiting(j) ~> ~Waiting(j)
=============================================================================
