-------------------------------- MODULE Jobs --------------------------------
(***************************************************************************)
(* The life of a bulk job: the row and the files of webapp/jobs.py, the    *)
(* coroutines of webapp/main.py that write them (bulk, bulk_find, _run_job,*)
(* _run_find_job, delete_job), and the page of webapp/static/app.js that   *)
(* uploads a list, polls for the status and offers the downloads.          *)
(*                                                                         *)
(* The server is one event loop: what happens between two awaits is one    *)
(* stretch that only a restart can cut.  The page is another machine: its  *)
(* requests and their answers take any time and overtake each other.       *)
(* What the engine does is in Banking; here a job just works for a while.  *)
(***************************************************************************)
EXTENDS Naturals, FiniteSets

CONSTANTS
  Jobs,        \* job ids; an id is never used twice
  NoJob,
  Castings,    \* what the jobs may be: functions from Jobs to Kinds
  MaxPolls,    \* bound on the requests and answers of a panel under way
  MaxDeletes,  \* bound on delete requests
  MaxMishaps   \* bound on restarts, failing writes and failing unlinks, together

Kinds == {"bulk", "find"}

ASSUME JobsAssumption ==
  /\ IsFiniteSet(Jobs) /\ NoJob \notin Jobs
  /\ Castings \subseteq [Jobs -> Kinds]
  /\ MaxPolls \in Nat \ {0}
  /\ MaxDeletes \in Nat /\ MaxMishaps \in Nat

VARIABLES
  kind,       \* bulk or find: chosen once, in the initial state
  row,        \* status column of the job's row
  files,      \* how much of each file of the job is on disk
  task,       \* how far the coroutines of the job are
  deleting,   \* the job delete_job is working on
  stuck,      \* the files that its latest delete could not remove
  panel,      \* the two upload panels of the page
  accepted,   \* uploads whose answer is under way
  polls,      \* status requests and their answers, under way
  condemned,  \* history: jobs somebody asked to delete
  early,      \* history: those that were not over when it was asked
  crossed,    \* history: the jobs for which the page took the end of an earlier one
  learned,    \* history: the jobs whose end the page was told
  mishaps     \* restarts and failing writes so far

store == <<row, files, stuck>>
browser == <<panel, accepted, polls, crossed, learned>>
history == <<condemned, early>>
vars == <<kind, store, task, deleting, browser, history, mishaps>>

Files == {"source", "results", "enriched"}
Final == {"done", "failed"}
Ids == Jobs \cup {NoJob}
Panels == [current : Ids, uploading : SUBSET Jobs, timer : BOOLEAN, links : Ids,
           shown : {"uploading", "queued", "running"} \cup Final]
Polls == [panel : Kinds, job : Jobs,
          status : {"asked", "queued", "running", "done", "failed", "deleted"}]

Alive(j) == task[j] \notin {"none", "over"}
\* Between these stages the event loop is never given away.
Busy == {"created", "sourced", "filed", "enriched"}
LoopFree == deleting = NoJob /\ \A j \in Jobs : task[j] \notin Busy

TypeOK ==
  /\ kind \in Castings
  /\ row \in [Jobs -> {"none", "queued", "running", "deleted"} \cup Final]
  /\ files \in [Jobs -> [Files -> {"absent", "part", "whole"}]]
  /\ task \in [Jobs -> {"none", "queued", "working", "over"} \cup Busy]
  /\ deleting \in Ids /\ stuck \in [Jobs -> SUBSET Files]
  /\ panel \in [Kinds -> Panels]
  /\ accepted \subseteq Jobs /\ polls \subseteq Polls
  /\ condemned \subseteq Jobs /\ early \subseteq condemned
  /\ crossed \subseteq Jobs /\ learned \subseteq Jobs
  /\ mishaps \in 0 .. MaxMishaps

Init ==
  /\ kind \in Castings
  /\ row = [j \in Jobs |-> "none"]
  /\ files = [j \in Jobs |-> [f \in Files |-> "absent"]]
  /\ task = [j \in Jobs |-> "none"]
  /\ deleting = NoJob /\ stuck = [j \in Jobs |-> {}]
  /\ panel = [k \in Kinds |-> [current |-> NoJob, uploading |-> {}, timer |-> FALSE,
                               links |-> NoJob, shown |-> "uploading"]]
  /\ accepted = {} /\ polls = {} /\ crossed = {} /\ learned = {}
  /\ condemned = {} /\ early = {}
  /\ mishaps = 0

-----------------------------------------------------------------------------
(* The server.  A definition named Name_Fault is a faulty variant of Name  *)
(* that some property must refuse.                                         *)

Advance(j, from, to) == task[j] = from /\ task' = [task EXCEPT ![j] = to]

Update_Upsert(j, status) == row' = [row EXCEPT ![j] = status]

\* JobStore.update: of a row that is gone it updates nothing.
Update(j, status) ==
  row' = [row EXCEPT ![j] = IF @ \in {"none", "deleted"} THEN @ ELSE status]

\* A panel x after the upload of j was sent, answered, or refused
Sending(x, j) ==
  [current |-> x.current, uploading |-> x.uploading \cup {j}, timer |-> x.timer,
   links |-> NoJob, shown |-> "uploading"]
Watching(x, j) ==
  [current |-> j, uploading |-> x.uploading \ {j}, timer |-> TRUE,
   links |-> x.links, shown |-> x.shown]
Refused(x, j) ==
  [current |-> x.current, uploading |-> x.uploading \ {j}, timer |-> x.timer,
   links |-> x.links, shown |-> "failed"]

\* The upload has been read and the row is created.  The page has cleared the
\* panel; it still polls for the job it showed before.
Submit(j) ==
  /\ LoopFree
  /\ Advance(j, "none", "created")
  /\ row' = [row EXCEPT ![j] = "queued"]
  /\ panel' = [panel EXCEPT ![kind[j]] = Sending(@, j)]
  /\ UNCHANGED <<kind, files, stuck, deleting, accepted, polls, crossed, learned, history, mishaps>>

\* write_source
SaveSource(j) ==
  /\ kind[j] = "bulk"
  /\ Advance(j, "created", "sourced")
  /\ files' = [files EXCEPT ![j]["source"] = "whole"]
  /\ UNCHANGED <<kind, row, stuck, deleting, browser, history, mishaps>>

\* update(rows_in) and add_task
Enqueue(j) ==
  /\ Advance(j, IF kind[j] = "bulk" THEN "sourced" ELSE "created", "queued")
  /\ accepted' = accepted \cup {j}
  /\ UNCHANGED <<kind, store, deleting, panel, polls, crossed, learned, history, mishaps>>

Start(j) ==
  /\ LoopFree
  /\ Advance(j, "queued", "working")
  /\ Update(j, "running")
  /\ UNCHANGED <<kind, files, stuck, deleting, browser, history, mishaps>>

\* write_results, or write_find_results
WriteResults(j) ==
  /\ LoopFree
  /\ Advance(j, "working", "filed")
  /\ files' = [files EXCEPT ![j]["results"] = "whole"]
  /\ UNCHANGED <<kind, row, stuck, deleting, browser, history, mishaps>>

\* _write_enriched: without a readable source it writes nothing.
WriteEnriched(j) ==
  /\ kind[j] = "bulk"
  /\ Advance(j, "filed", "enriched")
  /\ files' = IF files[j]["source"] = "whole"
              THEN [files EXCEPT ![j]["enriched"] = "whole"] ELSE files
  /\ UNCHANGED <<kind, row, stuck, deleting, browser, history, mishaps>>

Finish(j) ==
  /\ Advance(j, IF kind[j] = "bulk" THEN "enriched" ELSE "filed", "over")
  /\ Update(j, "done")
  /\ UNCHANGED <<kind, files, stuck, deleting, browser, history, mishaps>>

\* The file being written when a write is cut short
Torn(j) ==
  LET cut(f) == {files[j], [files[j] EXCEPT ![f] = "part"]}
  IN  CASE task[j] = "created" /\ kind[j] = "bulk" -> cut("source")
        [] task[j] = "working" -> cut("results")
        [] task[j] = "filed" /\ kind[j] = "bulk" /\ files[j]["source"] = "whole" ->
             cut("enriched")
        [] OTHER -> {files[j]}

\* An exception.  Inside the try block the job is marked failed, if the write
\* that marks it does not fail as well.  A queued job meets it when the update
\* to running raises, or _cache() after it: both come before the try block.
\* Before that, in the upload, there is no try block either.
Fault(j) ==
  /\ mishaps < MaxMishaps
  /\ Alive(j) /\ (task[j] \in Busy \/ LoopFree)
  /\ mishaps' = mishaps + 1
  /\ task' = [task EXCEPT ![j] = "over"]
  /\ \E f \in Torn(j) : files' = [files EXCEPT ![j] = f]
  /\ CASE task[j] \in {"created", "sourced"} -> UNCHANGED row
       [] task[j] = "queued" -> Update(j, "running") \/ UNCHANGED row
       [] OTHER -> Update(j, "failed") \/ UNCHANGED row
  /\ UNCHANGED <<kind, stuck, deleting, browser, history>>

\* The process is restarted: coroutines, requests and answers are gone.  The
\* start-up code does not look at the jobs.
Crash ==
  /\ mishaps < MaxMishaps
  /\ mishaps' = mishaps + 1
  /\ task' = [j \in Jobs |-> IF Alive(j) THEN "over" ELSE task[j]]
  /\ deleting' = NoJob
  /\ accepted' = {} /\ polls' = {}
  /\ \E f \in [Jobs -> [Files -> {"absent", "part", "whole"}]] :
       /\ \A j \in Jobs : f[j] \in Torn(j)
       /\ files' = f
  /\ UNCHANGED <<kind, row, stuck, panel, crossed, learned, history>>

\* JobStore.delete: the files one by one, then the row.
InOrder == <<"results", "enriched", "source">>

Delete(j) ==
  /\ LoopFree
  /\ row[j] \notin {"none", "deleted"}
  /\ Cardinality(condemned \cup {j}) <= MaxDeletes
  /\ deleting' = j
  /\ stuck' = [stuck EXCEPT ![j] = {}]
  /\ condemned' = condemned \cup {j}
  /\ early' = IF Alive(j) THEN early \cup {j} ELSE early \ {j}
  /\ UNCHANGED <<kind, row, files, task, browser, mishaps>>

\* What the loop over the files still has to do
ToRemove(j) == {f \in Files : files[j][f] # "absent" /\ f \notin stuck[j]}

\* The next file is unlinked, or cannot be: the error is swallowed and the loop
\* goes on.
RemoveFile(j) ==
  /\ deleting = j
  /\ \E i \in DOMAIN InOrder :
       /\ InOrder[i] \in ToRemove(j)
       /\ \A h \in 1 .. i - 1 : InOrder[h] \notin ToRemove(j)
       /\ \/ /\ files' = [files EXCEPT ![j][InOrder[i]] = "absent"]
             /\ UNCHANGED <<stuck, mishaps>>
          \/ /\ mishaps < MaxMishaps
             /\ mishaps' = mishaps + 1
             /\ stuck' = [stuck EXCEPT ![j] = @ \cup {InOrder[i]}]
             /\ UNCHANGED files
  /\ UNCHANGED <<kind, row, task, deleting, browser, history>>

DropRow_First(j) ==
  /\ deleting = j
  /\ row[j] # "deleted" \/ ToRemove(j) = {}
  /\ row' = [row EXCEPT ![j] = "deleted"]
  /\ deleting' = IF ToRemove(j) = {} THEN NoJob ELSE j
  /\ UNCHANGED <<kind, files, stuck, task, browser, history, mishaps>>

DropRow(j) ==
  /\ deleting = j
  /\ ToRemove(j) = {}
  /\ row' = [row EXCEPT ![j] = "deleted"]
  /\ deleting' = NoJob
  /\ UNCHANGED <<kind, files, stuck, task, browser, history, mishaps>>

-----------------------------------------------------------------------------
(* The page.                                                               *)

PollsOf(k) == {p \in polls : p.panel = k}
\* Requests about one job are told apart by their answers only.
Asked(k, j) == [panel |-> k, job |-> j, status |-> "asked"]

Learn_OldTimer(k, j) ==
  /\ j \in panel[k].uploading
  /\ j \in accepted
  /\ panel' = [panel EXCEPT ![k].uploading = @ \ {j}, ![k].current = j]
  /\ accepted' = accepted \ {j}
  /\ polls' = polls \cup {Asked(k, j)}
  /\ UNCHANGED <<kind, store, task, deleting, crossed, learned, history, mishaps>>

\* The answer to the upload: watch this job from now on.  The first request
\* for its status goes out at once.
Learn(k, j) ==
  /\ j \in panel[k].uploading
  /\ j \in accepted
  /\ panel' = [panel EXCEPT ![k] = Watching(@, j)]
  /\ accepted' = accepted \ {j}
  /\ polls' = polls \cup {Asked(k, j)}
  /\ UNCHANGED <<kind, store, task, deleting, crossed, learned, history, mishaps>>

\* The upload was answered with an error, or not at all: the panel says
\* failed, and goes on polling for the job it showed before.
UploadFails(k, j) ==
  /\ j \in panel[k].uploading
  /\ j \notin accepted
  /\ task[j] = "over"
  /\ panel' = [panel EXCEPT ![k] = Refused(@, j)]
  /\ UNCHANGED <<kind, store, task, deleting, accepted, polls, crossed, learned, history, mishaps>>

\* The interval timer fires, whatever requests are still under way.
Tick(k) ==
  /\ panel[k].timer
  /\ Cardinality(PollsOf(k)) < MaxPolls
  /\ polls' = polls \cup {Asked(k, panel[k].current)}
  /\ UNCHANGED <<kind, store, task, deleting, panel, accepted, crossed, learned, history, mishaps>>

\* GET /api/jobs/{id}; a row that is gone answers 404.
Serve(p) ==
  /\ LoopFree
  /\ p \in polls /\ p.status = "asked"
  /\ polls' = (polls \ {p}) \cup {[p EXCEPT !.status = row[p.job]]}
  /\ UNCHANGED <<kind, store, task, deleting, panel, accepted, crossed, learned, history, mishaps>>

\* A panel x that is told p: the answer is about the job that was asked for, the
\* timer and the links are those of the job that is watched now.
Told(x, p) ==
  [current |-> x.current, uploading |-> x.uploading,
   timer |-> x.timer /\ p.status \notin Final,
   links |-> IF p.status = "done" THEN x.current ELSE x.links,
   shown |-> p.status]

\* The end of one job, taken for the end of the one that is watched
Crossed(p) ==
  LET watched == panel[p.panel].current IN
  IF p.job # watched /\ p.status \in Final THEN crossed \cup {watched} ELSE crossed

Learned(p) == IF p.status \in Final THEN learned \cup {p.job} ELSE learned

Deliver_NotOk(p) ==
  /\ p \in polls /\ p.status # "asked"
  /\ polls' = polls \ {p}
  /\ panel' = [panel EXCEPT ![p.panel] = Told(@, p)]
  /\ crossed' = Crossed(p) /\ learned' = Learned(p)
  /\ UNCHANGED <<kind, store, task, deleting, accepted, history, mishaps>>

Deliver_AnyLinks(p) ==
  /\ p \in polls /\ p.status # "asked"
  /\ polls' = polls \ {p}
  /\ panel' = IF p.status = "deleted" THEN panel ELSE
       [panel EXCEPT ![p.panel] = [Told(@, p) EXCEPT !.links = panel[p.panel].current]]
  /\ crossed' = Crossed(p) /\ learned' = Learned(p)
  /\ UNCHANGED <<kind, store, task, deleting, accepted, history, mishaps>>

\* pollJob, after its await; an answer 404 changes nothing.
Deliver(p) ==
  /\ p \in polls /\ p.status # "asked"
  /\ polls' = polls \ {p}
  /\ panel' = IF p.status = "deleted" THEN panel
              ELSE [panel EXCEPT ![p.panel] = Told(@, p)]
  /\ crossed' = Crossed(p) /\ learned' = Learned(p)
  /\ UNCHANGED <<kind, store, task, deleting, accepted, history, mishaps>>

-----------------------------------------------------------------------------

JobStep(j) ==
  \/ SaveSource(j) \/ Enqueue(j) \/ Start(j)
  \/ WriteResults(j) \/ WriteEnriched(j) \/ Finish(j)
  \/ RemoveFile(j) \/ DropRow(j)

Next ==
  \/ \E j \in Jobs :
       \/ Submit(j) \/ SaveSource(j) \/ Enqueue(j) \/ Start(j)
       \/ WriteResults(j) \/ WriteEnriched(j) \/ Finish(j)
       \/ Delete(j) \/ RemoveFile(j) \/ DropRow(j)
       \/ Fault(j)
  \/ \E k \in Kinds, j \in Jobs : Learn(k, j) \/ UploadFails(k, j)
  \/ \E k \in Kinds : Tick(k)
  \/ \E p \in polls : Serve(p) \/ Deliver(p)
  \/ Crash

Spec == Init /\ [][Next]_vars

\* The event loop resumes every coroutine whose wait is over; the page's
\* timer fires, and every request is answered or broken off.
Fairness ==
  /\ \A j \in Jobs : WF_vars(JobStep(j))
  /\ \A k \in Kinds, j \in Jobs : WF_vars(Learn(k, j) \/ UploadFails(k, j))
  /\ \A k \in Kinds : WF_vars(Tick(k))
  /\ \A k \in Kinds, j \in Jobs :
       /\ WF_vars(Serve(Asked(k, j)))
       /\ WF_vars(\E p \in PollsOf(k) : p.job = j /\ Deliver(p))

FairSpec == Spec /\ Fairness

-----------------------------------------------------------------------------
(* Properties.                                                             *)

\* A job that says done has all its result files, written to the end, unless
\* somebody asked to delete it (a restart in the middle of a delete leaves
\* the row without its files).
DoneHasResults ==
  \A j \in Jobs : row[j] = "done" /\ j \notin condemned =>
    /\ files[j]["results"] = "whole"
    /\ kind[j] = "bulk" => files[j]["enriched"] = "whole"

\* The status of a job that is over is never written again, and a deleted job
\* never comes back: the coroutine of a job deleted while it runs goes on
\* updating a row that is gone.
OverIsOver ==
  [][\A j \in Jobs : row[j] \in Final \cup {"deleted"} =>
       row'[j] \in {row[j], "deleted"}]_vars

\* A file left without a row to find it by is one that could not be unlinked, or
\* it was written by a job that was deleted while it worked: the results, and the
\* enriched table only if the source it is made from was left as well.
FilesHaveARow ==
  \A j \in Jobs, f \in Files : row[j] = "deleted" /\ files[j][f] # "absent" =>
    \/ f \in stuck[j]
    \/ j \in early /\ f = "results"
    \/ j \in early /\ f = "enriched" /\ "source" \in stuck[j]

\* Rows and files belong together, whatever is cut short between two writes.
RowsFitFiles == DoneHasResults /\ FilesHaveARow

\* The downloads the page offers exist, unless the job was deleted meanwhile or
\* the end of an earlier job was taken for the end of this one.
LinksWork ==
  \A k \in Kinds : LET j == panel[k].links IN
    j # NoJob /\ j \notin crossed \cup condemned =>
      row[j] = "done" /\ files[j]["results"] = "whole"

\* The page is told how the job it watches ended, through restarts of the
\* server and answers in any order, unless the job is deleted or the end of an
\* earlier job stops its timer (crossed).  It is told, but may forget: an answer
\* "running" that comes after the final one repaints the panel for good, for the
\* timer is off by then (app.js:330-363).
Unaware(k) ==
  LET j == panel[k].current IN
    j # NoJob /\ j \notin crossed \cup condemned \cup learned /\ row[j] \in Final

PageLearnsTheEnd == \A k \in Kinds : []<>~Unaware(k)
=============================================================================
