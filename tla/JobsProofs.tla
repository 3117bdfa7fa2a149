----------------------------- MODULE JobsProofs -----------------------------
(***************************************************************************)
(* Proofs about Jobs: type correctness, that a job that is over stays so,  *)
(* that rows and files belong together, and that the downloads the page    *)
(* offers exist - for any jobs, restarts, deletes and requests under way.  *)
(***************************************************************************)
EXTENDS Jobs, TLAPS

-----------------------------------------------------------------------------
(* Helpers.                                                                *)

Grades == {"absent", "part", "whole"}
RowStates == {"none", "queued", "running", "deleted"} \cup Final
TaskStates == {"none", "queued", "working", "over"} \cup Busy

StoreTypes ==
  /\ row \in [Jobs -> RowStates]
  /\ files \in [Jobs -> [Files -> Grades]]
  /\ task \in [Jobs -> TaskStates]
  /\ deleting \in Ids /\ stuck \in [Jobs -> SUBSET Files]

PageTypes ==
  /\ panel \in [Kinds -> Panels]
  /\ accepted \subseteq Jobs /\ polls \subseteq Polls
  /\ crossed \subseteq Jobs /\ learned \subseteq Jobs

HistoryTypes ==
  /\ condemned \subseteq Jobs /\ early \subseteq condemned
  /\ mishaps \in 0 .. MaxMishaps

LEMMA TypeParts == TypeOK <=> kind \in Castings /\ StoreTypes /\ PageTypes /\ HistoryTypes
BY DEF TypeOK, StoreTypes, PageTypes, HistoryTypes, Grades, RowStates, TaskStates

LEMMA KindType == TypeOK => kind \in [Jobs -> Kinds]
BY JobsAssumption DEF TypeOK

LEMMA NoJobType == NoJob \notin Jobs /\ MaxMishaps \in Nat
BY JobsAssumption

\* What a cut write leaves of the files of a job
LEMMA TornFiles ==
  ASSUME NEW j \in Jobs, NEW f \in Torn(j)
  PROVE  \/ f = files[j]
         \/ task[j] = "created" /\ f = [files[j] EXCEPT !["source"] = "part"]
         \/ task[j] = "working" /\ f = [files[j] EXCEPT !["results"] = "part"]
         \/ /\ task[j] = "filed" /\ files[j]["source"] = "whole"
            /\ f = [files[j] EXCEPT !["enriched"] = "part"]
<1>1. CASE task[j] = "created" /\ kind[j] = "bulk"
  BY <1>1 DEF Torn
<1>2. CASE task[j] = "working"
  BY <1>2 DEF Torn
<1>3. CASE task[j] = "filed" /\ kind[j] = "bulk" /\ files[j]["source"] = "whole"
  BY <1>3 DEF Torn
<1>4. CASE ~ (task[j] = "created" /\ kind[j] = "bulk") /\ task[j] # "working"
           /\ ~ (task[j] = "filed" /\ kind[j] = "bulk" /\ files[j]["source"] = "whole")
  BY <1>4 DEF Torn
<1> QED
  BY <1>1, <1>2, <1>3, <1>4

LEMMA TornType ==
  ASSUME StoreTypes, NEW j \in Jobs, NEW f \in Torn(j)
  PROVE  f \in [Files -> Grades]
BY TornFiles DEF StoreTypes, Files, Grades

LEMMA UpdateRow ==
  ASSUME StoreTypes, NEW j \in Jobs, NEW s \in RowStates, Update(j, s)
  PROVE  /\ row' \in [Jobs -> RowStates]
         /\ row'[j] = IF row[j] \in {"none", "deleted"} THEN row[j] ELSE s
BY DEF StoreTypes, Update

\* One step of the loop over the files: one of them is removed, or found stuck.
LEMMA RemoveOne ==
  ASSUME NEW j \in Jobs, RemoveFile(j)
  PROVE  \E f \in Files :
           \/ files' = [files EXCEPT ![j][f] = "absent"] /\ stuck' = stuck
           \/ stuck' = [stuck EXCEPT ![j] = @ \cup {f}] /\ files' = files
<1>1. PICK i \in DOMAIN InOrder :
        \/ files' = [files EXCEPT ![j][InOrder[i]] = "absent"] /\ stuck' = stuck
        \/ stuck' = [stuck EXCEPT ![j] = @ \cup {InOrder[i]}] /\ files' = files
  BY DEF RemoveFile
<1>2. InOrder[i] \in Files
  BY DEF InOrder, Files
<1> QED
  BY <1>1, <1>2

-----------------------------------------------------------------------------
(* Types.                                                                  *)

Launched == {j \in Jobs : task[j] # "none"}

\* Rows begin with coroutines, and the page asks only about jobs that began.
Anchored ==
  /\ \A j \in Jobs : task[j] = "none" <=> row[j] = "none"
  /\ \A j \in Jobs : deleting = j => row[j] # "none"
  /\ accepted \subseteq Launched
  /\ \A p \in polls : p.job \in Launched /\ panel[p.panel].current # NoJob
  /\ \A k \in Kinds : panel[k].current \in Launched \cup {NoJob}
  /\ \A k \in Kinds : panel[k].timer => panel[k].current # NoJob

TypeInv == TypeOK /\ Anchored

JobActs(j) ==
  \/ Submit(j) \/ SaveSource(j) \/ Enqueue(j) \/ Start(j)
  \/ WriteResults(j) \/ WriteEnriched(j) \/ Finish(j)
  \/ Delete(j) \/ RemoveFile(j) \/ DropRow(j)
  \/ Fault(j)

PageActs ==
  \/ \E k \in Kinds, j \in Jobs : Learn(k, j) \/ UploadFails(k, j)
  \/ \E k \in Kinds : Tick(k)
  \/ \E p \in polls : Serve(p) \/ Deliver(p)

LEMMA PageFrame ==
  ASSUME PageActs
  PROVE  UNCHANGED <<kind, row, files, stuck, task, deleting, condemned, early, mishaps>>
<1> USE DEF store, history
<1>1. ASSUME NEW k \in Kinds, NEW j \in Jobs, Learn(k, j) \/ UploadFails(k, j)
      PROVE  UNCHANGED <<kind, row, files, stuck, task, deleting, condemned, early, mishaps>>
  BY <1>1 DEF Learn, UploadFails
<1>2. ASSUME NEW k \in Kinds, Tick(k)
      PROVE  UNCHANGED <<kind, row, files, stuck, task, deleting, condemned, early, mishaps>>
  BY <1>2 DEF Tick
<1>3. ASSUME NEW p \in polls, Serve(p) \/ Deliver(p)
      PROVE  UNCHANGED <<kind, row, files, stuck, task, deleting, condemned, early, mishaps>>
  BY <1>3 DEF Serve, Deliver
<1> QED
  BY <1>1, <1>2, <1>3 DEF PageActs

LEMMA StoreStep == TypeOK /\ [Next]_vars => StoreTypes' /\ kind' = kind
<1> SUFFICES ASSUME TypeOK, [Next]_vars PROVE StoreTypes' /\ kind' = kind
  OBVIOUS
<1>0. StoreTypes /\ NoJob \in Ids /\ Jobs \subseteq Ids
  BY TypeParts DEF Ids
<1> USE DEF store, vars
<1>1. ASSUME NEW j \in Jobs, Submit(j) \/ Enqueue(j) PROVE StoreTypes' /\ kind' = kind
  BY <1>0, <1>1 DEF Submit, Enqueue, Advance, StoreTypes, RowStates, TaskStates, Busy
<1>2. ASSUME NEW j \in Jobs, Start(j) \/ Finish(j) PROVE StoreTypes' /\ kind' = kind
  <2>1. row' \in [Jobs -> RowStates]
    BY <1>0, <1>2, UpdateRow DEF Start, Finish, RowStates, Final
  <2>2. task' \in [Jobs -> TaskStates] /\ UNCHANGED <<kind, files, stuck, deleting>>
    BY <1>0, <1>2 DEF Start, Finish, Advance, StoreTypes, TaskStates
  <2> QED
    BY <1>0, <2>1, <2>2 DEF StoreTypes
<1>3. ASSUME NEW j \in Jobs, NEW f \in Files, NEW g \in Grades,
             files' = [files EXCEPT ![j][f] = g]
      PROVE  files' \in [Jobs -> [Files -> Grades]]
  <2>1. files' = [files EXCEPT ![j] = [files[j] EXCEPT ![f] = g]]
    BY <1>0, <1>3 DEF StoreTypes
  <2>2. [files[j] EXCEPT ![f] = g] \in [Files -> Grades]
    BY <1>0 DEF StoreTypes
  <2> QED
    BY <1>0, <2>1, <2>2 DEF StoreTypes
<1>4. ASSUME NEW j \in Jobs, SaveSource(j) \/ WriteResults(j) \/ WriteEnriched(j)
      PROVE  StoreTypes' /\ kind' = kind
  <2>1. files' = files \/ \E f \in Files, g \in Grades : files' = [files EXCEPT ![j][f] = g]
    BY <1>4 DEF SaveSource, WriteResults, WriteEnriched, Files, Grades
  <2>2. files' \in [Jobs -> [Files -> Grades]]
    BY <1>0, <1>3, <2>1 DEF StoreTypes
  <2> QED
    BY <1>0, <1>4, <2>2 DEF SaveSource, WriteResults, WriteEnriched, Advance, StoreTypes,
                            TaskStates, Busy
<1>5. ASSUME NEW j \in Jobs, Delete(j) \/ DropRow(j) PROVE StoreTypes' /\ kind' = kind
  BY <1>0, <1>5 DEF Delete, DropRow, StoreTypes, RowStates
<1>6. ASSUME NEW j \in Jobs, RemoveFile(j) PROVE StoreTypes' /\ kind' = kind
  <2>1. PICK f \in Files :
          \/ files' = [files EXCEPT ![j][f] = "absent"] /\ stuck' = stuck
          \/ stuck' = [stuck EXCEPT ![j] = @ \cup {f}] /\ files' = files
    BY <1>6, RemoveOne
  <2>2. "absent" \in Grades
    BY DEF Grades
  <2>3. files' \in [Jobs -> [Files -> Grades]]
    BY <1>0, <1>3, <2>1, <2>2 DEF StoreTypes
  <2>4. stuck' \in [Jobs -> SUBSET Files]
    BY <1>0, <2>1 DEF StoreTypes
  <2> QED
    BY <1>0, <1>6, <2>3, <2>4 DEF RemoveFile, StoreTypes
<1>7. ASSUME NEW j \in Jobs, Fault(j) PROVE StoreTypes' /\ kind' = kind
  <2>1. files' \in [Jobs -> [Files -> Grades]]
    BY <1>0, <1>7, TornType DEF Fault, StoreTypes
  <2>2. row' = row \/ Update(j, "running") \/ Update(j, "failed")
    BY <1>7 DEF Fault
  <2>3. row' \in [Jobs -> RowStates]
    BY <1>0, <2>2, UpdateRow DEF StoreTypes, RowStates, Final
  <2> QED
    BY <1>0, <1>7, <2>1, <2>3 DEF Fault, StoreTypes, TaskStates
<1>8. CASE Crash
  BY <1>0, <1>8 DEF Crash, StoreTypes, TaskStates, Grades
<1>9. CASE PageActs \/ UNCHANGED vars
  BY <1>0, <1>9, PageFrame DEF StoreTypes
<1> QED
  BY <1>1, <1>2, <1>4, <1>5, <1>6, <1>7, <1>8, <1>9 DEF Next, PageActs

LEMMA HistoryStep == TypeOK /\ [Next]_vars => HistoryTypes'
<1> SUFFICES ASSUME TypeOK, [Next]_vars PROVE HistoryTypes'
  OBVIOUS
<1>0. HistoryTypes
  BY TypeParts
<1> USE DEF history
<1>1. ASSUME NEW j \in Jobs, Delete(j) PROVE HistoryTypes'
  BY <1>0, <1>1 DEF Delete, HistoryTypes
<1>2. ASSUME NEW j \in Jobs, Fault(j) PROVE HistoryTypes'
  BY <1>0, <1>2, NoJobType DEF Fault, HistoryTypes
<1>3. CASE Crash
  BY <1>0, <1>3, NoJobType DEF Crash, HistoryTypes
<1>4. CASE UNCHANGED <<condemned, early, mishaps>>
  BY <1>0, <1>4 DEF HistoryTypes
<1>5. ASSUME NEW j \in Jobs, Submit(j) \/ SaveSource(j) \/ Enqueue(j) \/ Start(j)
      PROVE  UNCHANGED <<condemned, early, mishaps>>
  BY <1>5 DEF Submit, SaveSource, Enqueue, Start
<1>6. ASSUME NEW j \in Jobs, WriteResults(j) \/ WriteEnriched(j) \/ Finish(j)
      PROVE  UNCHANGED <<condemned, early, mishaps>>
  BY <1>6 DEF WriteResults, WriteEnriched, Finish
<1>7. ASSUME NEW j \in Jobs, RemoveFile(j) \/ DropRow(j) PROVE HistoryTypes'
  <2>1. UNCHANGED <<condemned, early>>
    BY <1>7 DEF RemoveFile, DropRow
  <2>2. mishaps' \in 0 .. MaxMishaps
    BY <1>0, <1>7, NoJobType DEF RemoveFile, DropRow, HistoryTypes
  <2> QED
    BY <1>0, <2>1, <2>2 DEF HistoryTypes
<1>8. CASE PageActs \/ UNCHANGED vars
  BY <1>4, <1>8, PageFrame DEF vars
<1> QED
  BY <1>1, <1>2, <1>3, <1>4, <1>5, <1>6, <1>7, <1>8 DEF Next, PageActs

LEMMA PanelOps ==
  ASSUME NEW x \in Panels, NEW j \in Jobs
  PROVE  /\ Sending(x, j) \in Panels /\ Watching(x, j) \in Panels /\ Refused(x, j) \in Panels
         /\ \A p \in Polls : p.status \notin {"asked", "deleted"} => Told(x, p) \in Panels
<1>1. Jobs \subseteq Ids /\ NoJob \in Ids
  BY DEF Ids
<1>2. Sending(x, j) \in Panels /\ Watching(x, j) \in Panels /\ Refused(x, j) \in Panels
  BY <1>1 DEF Sending, Watching, Refused, Panels, Final
<1>3. ASSUME NEW p \in Polls, p.status \notin {"asked", "deleted"} PROVE Told(x, p) \in Panels
  BY <1>1, <1>3 DEF Told, Panels, Polls, Final
<1> QED
  BY <1>2, <1>3

LEMMA AskedType ==
  ASSUME NEW k \in Kinds, NEW j \in Jobs
  PROVE  Asked(k, j) \in Polls /\ Asked(k, j).job = j /\ Asked(k, j).panel = k
         /\ Asked(k, j).status = "asked"
BY DEF Asked, Polls

\* The page learns a status of a row, so never of one that does not exist.
LEMMA ServedType ==
  ASSUME TypeInv, NEW p \in polls
  PROVE  [p EXCEPT !.status = row[p.job]] \in Polls
<1>1. p \in Polls /\ p.job \in Jobs /\ row[p.job] # "none"
  BY TypeParts DEF TypeInv, Anchored, Launched, PageTypes
<1>2. row[p.job] \in {"queued", "running", "done", "failed", "deleted"}
  BY <1>1, TypeParts DEF TypeInv, StoreTypes, RowStates, Final
<1> QED
  BY <1>1, <1>2 DEF Polls

LEMMA PageStep == TypeInv /\ [Next]_vars => PageTypes'
<1> SUFFICES ASSUME TypeInv, [Next]_vars PROVE PageTypes'
  OBVIOUS
<1>0. PageTypes /\ kind \in [Jobs -> Kinds]
  BY TypeParts, KindType DEF TypeInv
<1> USE DEF browser
<1>1. ASSUME NEW j \in Jobs, Submit(j) PROVE PageTypes'
  BY <1>0, <1>1, PanelOps DEF Submit, PageTypes
<1>2. ASSUME NEW j \in Jobs, Enqueue(j) PROVE PageTypes'
  BY <1>0, <1>2 DEF Enqueue, PageTypes
<1>3. ASSUME NEW k \in Kinds, NEW j \in Jobs, Learn(k, j) \/ UploadFails(k, j) PROVE PageTypes'
  <2>1. panel' \in [Kinds -> Panels]
    <3>1. panel[k] \in Panels
      BY <1>0 DEF PageTypes
    <3>2. Watching(panel[k], j) \in Panels /\ Refused(panel[k], j) \in Panels
      BY <3>1, PanelOps
    <3> QED
      BY <1>0, <1>3, <3>2 DEF Learn, UploadFails, PageTypes
  <2>2. polls' \subseteq Polls
    BY <1>0, <1>3, AskedType DEF Learn, UploadFails, PageTypes
  <2> QED
    BY <1>0, <1>3, <2>1, <2>2 DEF Learn, UploadFails, PageTypes
<1>4. ASSUME NEW k \in Kinds, Tick(k) PROVE PageTypes'
  <2>1. panel[k].current \in Jobs
    BY <1>4 DEF Tick, TypeInv, Anchored, Launched
  <2> QED
    BY <1>0, <1>4, <2>1, AskedType DEF Tick, PageTypes
<1>5. ASSUME NEW p \in polls, Serve(p) PROVE PageTypes'
  BY <1>0, <1>5, ServedType DEF Serve, PageTypes
<1>6. ASSUME NEW p \in polls, Deliver(p) PROVE PageTypes'
  <2>1. p \in Polls /\ p.panel \in Kinds /\ p.status # "asked"
    BY <1>0, <1>6 DEF Deliver, PageTypes, Polls
  <2>2. panel[p.panel].current \in Jobs
    BY <2>1 DEF TypeInv, Anchored, Launched
  <2>3. panel' \in [Kinds -> Panels]
    <3>1. CASE p.status = "deleted"
      BY <1>0, <1>6, <3>1 DEF Deliver, PageTypes
    <3>2. CASE p.status # "deleted"
      <4>1. Told(panel[p.panel], p) \in Panels
        BY <1>0, <2>1, <2>2, <3>2, PanelOps DEF PageTypes
      <4> QED
        BY <1>0, <1>6, <3>2, <4>1 DEF Deliver, PageTypes
    <3> QED
      BY <3>1, <3>2
  <2> QED
    BY <1>0, <1>6, <2>2, <2>3 DEF Deliver, Crossed, Learned, PageTypes, Polls
<1>7. CASE Crash
  BY <1>0, <1>7 DEF Crash, PageTypes
<1>8. CASE UNCHANGED browser
  BY <1>0, <1>8 DEF PageTypes
<1>9. ASSUME NEW j \in Jobs, SaveSource(j) \/ Start(j) \/ WriteResults(j) \/ WriteEnriched(j)
      PROVE  UNCHANGED browser
  BY <1>9 DEF SaveSource, Start, WriteResults, WriteEnriched
<1>10. ASSUME NEW j \in Jobs, Finish(j) \/ Delete(j) \/ RemoveFile(j) \/ DropRow(j) \/ Fault(j)
       PROVE  UNCHANGED browser
  BY <1>10 DEF Finish, Delete, RemoveFile, DropRow, Fault
<1>11. CASE UNCHANGED vars
  BY <1>8, <1>11 DEF vars
<1> QED
  BY <1>1, <1>2, <1>3, <1>4, <1>5, <1>6, <1>7, <1>8, <1>9, <1>10, <1>11 DEF Next

\* A job is changed by its own steps and by restarts only.
Untouched(j) ==
  /\ row'[j] = row[j] /\ files'[j] = files[j] /\ task'[j] = task[j]
  /\ stuck'[j] = stuck[j]
  /\ deleting' = j => deleting = j
  /\ j \in condemned' <=> j \in condemned
  /\ j \in early' <=> j \in early

LEMMA Focus ==
  ASSUME TypeOK, [Next]_vars, NEW j \in Jobs
  PROVE  JobActs(j) \/ Crash \/ Untouched(j)
<1>0. StoreTypes /\ j # NoJob
  BY TypeParts, NoJobType
<1> USE DEF store, history
<1>1. ASSUME NEW i \in Jobs, i # j, JobActs(i) PROVE Untouched(j)
  <2>1. CASE Submit(i) \/ SaveSource(i) \/ Enqueue(i)
    BY <1>0, <1>1, <2>1 DEF Submit, SaveSource, Enqueue, Advance, StoreTypes, Untouched
  <2>2. CASE Start(i) \/ WriteResults(i)
    BY <1>0, <1>1, <2>2 DEF Start, WriteResults, Advance, Update, StoreTypes, Untouched
  <2>3. CASE WriteEnriched(i) \/ Finish(i)
    BY <1>0, <1>1, <2>3 DEF WriteEnriched, Finish, Advance, Update, StoreTypes, Untouched
  <2>4. CASE Delete(i)
    BY <1>0, <1>1, <2>4 DEF Delete, StoreTypes, Untouched
  <2>5. CASE RemoveFile(i)
    BY <1>0, <1>1, <2>5 DEF RemoveFile, StoreTypes, Untouched
  <2>6. CASE DropRow(i)
    BY <1>0, <1>1, <2>6 DEF DropRow, StoreTypes, Untouched
  <2>7. CASE Fault(i)
    <3>1. row'[j] = row[j]
      <4>1. row' = row \/ Update(i, "running") \/ Update(i, "failed")
        BY <2>7 DEF Fault
      <4> QED
        BY <1>0, <1>1, <4>1 DEF Update, StoreTypes
    <3> QED
      BY <1>0, <1>1, <2>7, <3>1 DEF Fault, StoreTypes, Untouched
  <2> QED
    BY <1>1, <2>1, <2>2, <2>3, <2>4, <2>5, <2>6, <2>7 DEF JobActs
<1>2. CASE PageActs \/ UNCHANGED vars
  BY <1>2, PageFrame DEF vars, Untouched
<1> QED
  BY <1>1, <1>2 DEF Next, JobActs, PageActs

\* A coroutine that was started has a row, and one that was not has none.
LEMMA RowsBegin ==
  ASSUME TypeInv, [Next]_vars, NEW j \in Jobs
  PROVE  /\ task'[j] = "none" <=> row'[j] = "none"
         /\ task[j] # "none" => task'[j] # "none"
<1>0. StoreTypes /\ (task[j] = "none" <=> row[j] = "none")
  BY TypeParts DEF TypeInv, Anchored
<1> DEFINE Goal == /\ task'[j] = "none" <=> row'[j] = "none"
                   /\ task[j] # "none" => task'[j] # "none"
<1> SUFFICES Goal
  OBVIOUS
<1> USE DEF store
<1>1. ASSUME NEW s \in RowStates \ {"none"}, Update(j, s) \/ UNCHANGED row
      PROVE  row'[j] = "none" <=> row[j] = "none"
  BY <1>0, <1>1, UpdateRow
<1>2. CASE Submit(j) \/ SaveSource(j) \/ Enqueue(j)
  BY <1>0, <1>2 DEF Submit, SaveSource, Enqueue, Advance, StoreTypes
<1>3. CASE Start(j)
  <2>1. row'[j] = "none" <=> row[j] = "none"
    BY <1>1, <1>3 DEF Start, RowStates
  <2> QED
    BY <1>0, <1>3, <2>1 DEF Start, Advance, StoreTypes
<1>4. CASE Finish(j)
  <2>1. row'[j] = "none" <=> row[j] = "none"
    BY <1>1, <1>4 DEF Finish, RowStates, Final
  <2> QED
    BY <1>0, <1>4, <2>1 DEF Finish, Advance, StoreTypes
<1>5. CASE WriteResults(j) \/ WriteEnriched(j)
  BY <1>0, <1>5 DEF WriteResults, WriteEnriched, Advance, StoreTypes
<1>6. CASE Delete(j) \/ RemoveFile(j)
  BY <1>0, <1>6 DEF Delete, RemoveFile
<1>7. CASE DropRow(j)
  <2>1. row'[j] = "deleted" /\ task' = task
    BY <1>0, <1>7 DEF DropRow, StoreTypes
  <2>2. row[j] # "none"
    BY <1>7 DEF DropRow, TypeInv, Anchored
  <2> QED
    BY <1>0, <2>1, <2>2
<1>8. CASE Fault(j)
  <2>1. row' = row \/ Update(j, "running") \/ Update(j, "failed")
    BY <1>8 DEF Fault
  <2>2. row'[j] = "none" <=> row[j] = "none"
    BY <1>1, <2>1 DEF RowStates, Final
  <2> QED
    BY <1>0, <1>8, <2>2 DEF Fault, Alive, StoreTypes
<1>9. CASE Crash
  BY <1>0, <1>9 DEF Crash, Alive, StoreTypes
<1>10. CASE Untouched(j)
  BY <1>0, <1>10 DEF Untouched
<1> QED
  BY <1>2, <1>3, <1>4, <1>5, <1>6, <1>7, <1>8, <1>9, <1>10, Focus DEF JobActs, TypeInv

PageAnchored ==
  /\ accepted \subseteq Launched
  /\ \A p \in polls : p.job \in Launched /\ panel[p.panel].current # NoJob
  /\ \A k \in Kinds : panel[k].current \in Launched \cup {NoJob}
  /\ \A k \in Kinds : panel[k].timer => panel[k].current # NoJob

LEMMA PageAnchoredStep == TypeInv /\ [Next]_vars => PageAnchored'
<1> SUFFICES ASSUME TypeInv, [Next]_vars PROVE PageAnchored'
  OBVIOUS
<1>0. PageTypes /\ PageAnchored /\ kind \in [Jobs -> Kinds]
  BY TypeParts, KindType DEF TypeInv, Anchored, PageAnchored
<1>1. Launched \subseteq Launched'
  BY RowsBegin DEF Launched
<1> USE DEF browser
<1>2. CASE UNCHANGED browser
  BY <1>0, <1>1, <1>2 DEF PageAnchored
<1>3. ASSUME NEW j \in Jobs, Submit(j) PROVE PageAnchored'
  <2>1. \A k \in Kinds : panel'[k].current = panel[k].current /\ panel'[k].timer = panel[k].timer
    BY <1>0, <1>3 DEF Submit, Sending, PageTypes
  <2>2. \A p \in polls : p.panel \in Kinds
    BY <1>0 DEF PageTypes, Polls
  <2> QED
    BY <1>0, <1>1, <1>3, <2>1, <2>2 DEF Submit, PageAnchored
<1>4. ASSUME NEW j \in Jobs, Enqueue(j) PROVE PageAnchored'
  <2>1. j \in Launched
    BY <1>4 DEF Enqueue, Advance, Launched
  <2> QED
    BY <1>0, <1>1, <1>4, <2>1 DEF Enqueue, PageAnchored
<1>5. ASSUME NEW k \in Kinds, NEW j \in Jobs, Learn(k, j) PROVE PageAnchored'
  <2>1. j \in Launched /\ j # NoJob
    BY <1>0, <1>5, NoJobType DEF Learn, PageAnchored
  <2>2. /\ panel'[k].current = j
        /\ \A l \in Kinds \ {k} : panel'[l] = panel[l]
    BY <1>0, <1>5 DEF Learn, Watching, PageTypes
  <2>3. /\ accepted' \subseteq accepted
        /\ \A p \in polls' : p \in polls \/ p = Asked(k, j)
    BY <1>5 DEF Learn
  <2>4. \A p \in polls : p.panel \in Kinds
    BY <1>0 DEF PageTypes, Polls
  <2>5. \A p \in polls' : p.job \in Launched /\ panel'[p.panel].current # NoJob
    BY <1>0, <2>1, <2>2, <2>3, <2>4, AskedType DEF PageAnchored
  <2> QED
    BY <1>0, <1>1, <2>1, <2>2, <2>3, <2>5 DEF PageAnchored
<1>6. ASSUME NEW k \in Kinds, NEW j \in Jobs, UploadFails(k, j) PROVE PageAnchored'
  <2>1. \A l \in Kinds : panel'[l].current = panel[l].current /\ panel'[l].timer = panel[l].timer
    BY <1>0, <1>6 DEF UploadFails, Refused, PageTypes
  <2>2. \A p \in polls : p.panel \in Kinds
    BY <1>0 DEF PageTypes, Polls
  <2> QED
    BY <1>0, <1>1, <1>6, <2>1, <2>2 DEF UploadFails, PageAnchored
<1>7. ASSUME NEW k \in Kinds, Tick(k) PROVE PageAnchored'
  <2>1. panel[k].current \in Launched /\ panel[k].current # NoJob
    BY <1>0, <1>7 DEF Tick, PageAnchored
  <2>2. /\ Asked(k, panel[k].current).job = panel[k].current
        /\ Asked(k, panel[k].current).panel = k
    BY DEF Asked
  <2>3. \A p \in polls' : p \in polls \/ p = Asked(k, panel[k].current)
    BY <1>7 DEF Tick
  <2> QED
    BY <1>0, <1>1, <1>7, <2>1, <2>2, <2>3 DEF Tick, PageAnchored
<1>8. ASSUME NEW p \in polls, Serve(p) PROVE PageAnchored'
  <2>1. /\ [p EXCEPT !.status = row[p.job]].job = p.job
        /\ [p EXCEPT !.status = row[p.job]].panel = p.panel
    BY <1>0 DEF PageTypes, Polls
  <2> QED
    BY <1>0, <1>1, <1>8, <2>1 DEF Serve, PageAnchored
<1>9. ASSUME NEW p \in polls, Deliver(p) PROVE PageAnchored'
  <2>1. \A l \in Kinds : panel'[l].current = panel[l].current
                         /\ (panel'[l].timer => panel[l].timer)
    BY <1>0, <1>9 DEF Deliver, Told, PageTypes
  <2>2. \A q \in polls : q.panel \in Kinds
    BY <1>0 DEF PageTypes, Polls
  <2> QED
    BY <1>0, <1>1, <1>9, <2>1, <2>2 DEF Deliver, PageAnchored
<1>10. CASE Crash
  BY <1>0, <1>1, <1>10 DEF Crash, PageAnchored
<1>11. ASSUME NEW j \in Jobs, SaveSource(j) \/ Start(j) \/ WriteResults(j) \/ WriteEnriched(j)
       PROVE  UNCHANGED browser
  BY <1>11 DEF SaveSource, Start, WriteResults, WriteEnriched
<1>12. ASSUME NEW j \in Jobs, Finish(j) \/ Delete(j) \/ RemoveFile(j) \/ DropRow(j) \/ Fault(j)
       PROVE  UNCHANGED browser
  BY <1>12 DEF Finish, Delete, RemoveFile, DropRow, Fault
<1>13. CASE UNCHANGED vars
  BY <1>2, <1>13 DEF vars
<1> QED
  BY <1>2, <1>3, <1>4, <1>5, <1>6, <1>7, <1>8, <1>9, <1>10, <1>11, <1>12, <1>13 DEF Next

\* Only a job with a row is deleted, and rows stay.
LEMMA DeletingRow ==
  ASSUME TypeInv, [Next]_vars, NEW j \in Jobs, deleting' = j
  PROVE  row'[j] # "none"
<1>1. row[j] # "none" => row'[j] # "none"
  BY RowsBegin DEF TypeInv, Anchored
<1>2. CASE deleting = j
  BY <1>1, <1>2 DEF TypeInv, Anchored
<1>3. CASE Delete(j)
  BY <1>1, <1>3 DEF Delete
<1>4. CASE Submit(j) \/ SaveSource(j) \/ Enqueue(j) \/ Start(j)
  BY <1>2, <1>4 DEF Submit, SaveSource, Enqueue, Start
<1>5. CASE WriteResults(j) \/ WriteEnriched(j) \/ Finish(j) \/ Fault(j)
  BY <1>2, <1>5 DEF WriteResults, WriteEnriched, Finish, Fault
<1>6. CASE RemoveFile(j) \/ DropRow(j)
  BY <1>2, <1>6 DEF RemoveFile, DropRow
<1>7. ~ Crash
  BY NoJobType DEF Crash
<1>8. CASE Untouched(j)
  BY <1>2, <1>8 DEF Untouched
<1> QED
  BY <1>3, <1>4, <1>5, <1>6, <1>7, <1>8, Focus DEF JobActs, TypeInv

LEMMA TypeStep == TypeInv /\ [Next]_vars => TypeInv'
<1> SUFFICES ASSUME TypeInv, [Next]_vars PROVE TypeInv'
  OBVIOUS
<1>1. StoreTypes' /\ kind' = kind /\ kind \in Castings /\ PageTypes' /\ HistoryTypes'
  BY StoreStep, PageStep, HistoryStep, TypeParts DEF TypeInv
<1>2. TypeOK'
  BY <1>1 DEF TypeOK, StoreTypes, PageTypes, HistoryTypes, Grades, RowStates, TaskStates
<1>3. Anchored'
  BY RowsBegin, DeletingRow, PageAnchoredStep DEF Anchored, PageAnchored
<1> QED
  BY <1>2, <1>3 DEF TypeInv

LEMMA TypeInit == Init => TypeInv
<1> SUFFICES ASSUME Init PROVE TypeInv
  OBVIOUS
<1>1. NoJob \in Ids
  BY DEF Ids
<1>2. [current |-> NoJob, uploading |-> {}, timer |-> FALSE, links |-> NoJob, shown |-> "uploading"]
        \in Panels
  BY <1>1 DEF Panels
<1>3. PageTypes
  BY <1>2 DEF Init, PageTypes
<1>4. StoreTypes /\ HistoryTypes
  BY <1>1, NoJobType DEF Init, StoreTypes, HistoryTypes, Grades, RowStates, TaskStates
<1>5. TypeOK
  BY <1>3, <1>4, TypeParts DEF Init
<1>6. Anchored
  BY NoJobType DEF Init, Anchored, Launched
<1> QED
  BY <1>5, <1>6 DEF TypeInv

\* TypeOK holds of every reachable state.
THEOREM TypeCorrect == Spec => []TypeOK
<1>1. TypeInv => TypeOK
  BY DEF TypeInv
<1> QED
  BY <1>1, TypeInit, TypeStep, PTL DEF Spec

-----------------------------------------------------------------------------
(* Over is over.                                                           *)

\* The row of a job whose coroutines live has no final status.
Working == \A j \in Jobs : Alive(j) => row[j] \notin Final

\* What a step may do to the row of a job that is over
Settled(j) == row[j] \in Final \cup {"deleted"} => row'[j] \in {row[j], "deleted"}

LEMMA OverStep ==
  ASSUME TypeInv, Working, [Next]_vars, NEW j \in Jobs
  PROVE  Settled(j) /\ (Alive(j)' => row'[j] \notin Final)
<1>0. StoreTypes /\ (task[j] = "none" <=> row[j] = "none") /\ (Alive(j) => row[j] \notin Final)
  BY TypeParts DEF TypeInv, Anchored, Working
<1> DEFINE Goal == Settled(j) /\ (Alive(j)' => row'[j] \notin Final)
<1> SUFFICES Goal
  OBVIOUS
<1> USE DEF store
<1>1. CASE row'[j] = row[j] /\ (Alive(j)' => Alive(j))
  BY <1>0, <1>1 DEF Settled
<1>2. CASE Submit(j)
  BY <1>0, <1>2 DEF Submit, Advance, Settled, StoreTypes, Final
<1>3. CASE Start(j)
  <2>1. row'[j] = IF row[j] \in {"none", "deleted"} THEN row[j] ELSE "running"
    BY <1>0, <1>3, UpdateRow DEF Start, RowStates
  <2>2. Alive(j)
    BY <1>3 DEF Start, Advance, Alive
  <2> QED
    BY <1>0, <2>1, <2>2 DEF Settled, Final
<1>4. CASE Finish(j)
  <2>1. row'[j] = IF row[j] \in {"none", "deleted"} THEN row[j] ELSE "done"
    BY <1>0, <1>4, UpdateRow DEF Finish, RowStates, Final
  <2>2. Alive(j) /\ task'[j] = "over"
    BY <1>0, <1>4 DEF Finish, Advance, Alive, StoreTypes
  <2> QED
    BY <1>0, <2>1, <2>2 DEF Settled, Alive, Final
<1>5. CASE Fault(j)
  <2>1. row' = row \/ Update(j, "running") \/ Update(j, "failed")
    BY <1>5 DEF Fault
  <2>2. row[j] = "deleted" => row'[j] = "deleted"
    BY <1>0, <2>1, UpdateRow DEF RowStates, Final
  <2>3. Alive(j) /\ task'[j] = "over"
    BY <1>0, <1>5 DEF Fault, StoreTypes
  <2> QED
    BY <1>0, <2>2, <2>3 DEF Settled, Alive, Final
<1>6. CASE DropRow(j)
  <2>1. row'[j] = "deleted"
    BY <1>0, <1>6 DEF DropRow, StoreTypes
  <2> QED
    BY <2>1 DEF Settled, Final
<1>7. CASE SaveSource(j) \/ Enqueue(j) \/ WriteResults(j) \/ WriteEnriched(j)
  BY <1>0, <1>1, <1>7 DEF SaveSource, Enqueue, WriteResults, WriteEnriched, Advance, Alive
<1>8. CASE Delete(j) \/ RemoveFile(j)
  BY <1>1, <1>8 DEF Delete, RemoveFile, Alive
<1>9. CASE Crash
  BY <1>0, <1>1, <1>9 DEF Crash, Alive, StoreTypes
<1>10. CASE Untouched(j)
  BY <1>1, <1>10 DEF Untouched, Alive
<1> QED
  BY <1>2, <1>3, <1>4, <1>5, <1>6, <1>7, <1>8, <1>9, <1>10, Focus DEF JobActs, TypeInv

LEMMA WorkingStep == TypeInv /\ Working /\ [Next]_vars => Working'
BY OverStep DEF Working

LEMMA WorkingInit == Init => Working
BY DEF Init, Working, Alive

\* The status of a job that is over is never written again, and a deleted job
\* never comes back (jobs.py:77, update of a row that is gone).
THEOREM OverStaysOver == Spec => OverIsOver
<1>1. TypeInv /\ Working /\ [Next]_vars =>
        \A j \in Jobs : row[j] \in Final \cup {"deleted"} => row'[j] \in {row[j], "deleted"}
  BY OverStep DEF Settled
<1> QED
  BY <1>1, TypeInit, TypeStep, WorkingInit, WorkingStep, PTL DEF Spec, OverIsOver

-----------------------------------------------------------------------------
(* Rows and files.                                                         *)

Filed(j) == files[j]["results"] = "whole" /\ (kind[j] = "bulk" => files[j]["enriched"] = "whole")

\* How far a job nobody deletes is shows in its files.
Written(j) ==
  /\ kind[j] = "bulk" /\ task[j] \in {"sourced", "queued", "working", "filed", "enriched"} =>
       files[j]["source"] = "whole"
  /\ task[j] \in {"filed", "enriched"} => files[j]["results"] = "whole"
  /\ task[j] = "enriched" => files[j]["enriched"] = "whole"
  /\ row[j] = "done" => Filed(j)

\* What may be on disk of a job that is deleted
Left(j, f) ==
  \/ f \in stuck[j]
  \/ j \in early /\ f = "results"
  \/ j \in early /\ f = "enriched" /\ "source" \in stuck[j]

\* A job being deleted, or deleted, is condemned.  Its source was written before;
\* unless it was working when it was deleted, nothing is written after.
Gone(j) ==
  /\ deleting = j \/ row[j] = "deleted" =>
       /\ j \in condemned
       /\ task[j] \notin {"none", "created", "sourced"}
       /\ j \notin early => task[j] = "over"
  /\ row[j] = "deleted" => \A f \in Files : files[j][f] # "absent" => Left(j, f)

FilesInv == \A j \in Jobs : (j \notin condemned => Written(j)) /\ Gone(j)

LEMMA FilesStep ==
  ASSUME TypeInv, Working, FilesInv, [Next]_vars, NEW j \in Jobs
  PROVE  (j \notin condemned' => Written(j)') /\ Gone(j)'
<1>0. /\ StoreTypes /\ (task[j] = "none" <=> row[j] = "none")
      /\ Alive(j) => row[j] \notin Final
      /\ (j \notin condemned => Written(j)) /\ Gone(j)
      /\ kind' = kind /\ kind[j] \in Kinds
      /\ task[j] \in TaskStates
      /\ files[j] \in [Files -> Grades]
  BY TypeParts, StoreStep, KindType DEF TypeInv, Anchored, Working, FilesInv, StoreTypes
<1> DEFINE Goal == (j \notin condemned' => Written(j)') /\ Gone(j)'
<1> SUFFICES Goal
  OBVIOUS
<1> USE DEF store, history
\* What the actions below leave alone, and what they need of a job that is deleted
<1>a. row[j] = "deleted" /\ task[j] # "over" => j \in early
  BY <1>0 DEF Gone
<1>b. row[j] = "deleted" /\ files[j]["source"] # "absent" => "source" \in stuck[j]
  BY <1>0 DEF Gone, Left, Files
<1>c. ASSUME row' = row, stuck' = stuck, early' = early, condemned' = condemned,
             deleting' = deleting, task[j] \notin {"none", "over"},
             task'[j] \in TaskStates \ {"none", "created", "sourced", "over"},
             \A f \in Files : files'[j][f] # "absent" =>
               files[j][f] # "absent" \/ (row[j] = "deleted" => Left(j, f))
      PROVE  Gone(j)'
  <2>1. \A f \in Files : Left(j, f) => Left(j, f)'
    BY <1>c DEF Left
  <2>2. row'[j] = "deleted" => \A f \in Files : files'[j][f] # "absent" => Left(j, f)'
    BY <1>0, <1>c, <2>1 DEF Gone
  <2>3. deleting' = j \/ row'[j] = "deleted" => j \in condemned' /\ j \in early'
    BY <1>0, <1>c DEF Gone
  <2> QED
    BY <1>c, <2>2, <2>3 DEF Gone
<1>1. CASE Submit(j)
  <2>1. task[j] = "none" /\ task'[j] = "created" /\ row'[j] = "queued"
        /\ files' = files /\ deleting' = deleting
    BY <1>0, <1>1 DEF Submit, Advance, StoreTypes
  <2>2. deleting # j
    BY <1>0, <2>1 DEF TypeInv, Anchored
  <2> QED
    BY <1>0, <2>1, <2>2 DEF Written, Gone
<1>2. CASE SaveSource(j)
  <2>1. task[j] = "created" /\ task'[j] = "sourced" /\ row' = row /\ deleting' = deleting
        /\ condemned' = condemned /\ early' = early
    BY <1>0, <1>2 DEF SaveSource, Advance, StoreTypes
  <2>2. files'[j] = [files[j] EXCEPT !["source"] = "whole"]
    BY <1>0, <1>2 DEF SaveSource, StoreTypes
  <2>3. files'[j]["source"] = "whole"
    BY <1>0, <2>2 DEF Files
  <2>4. row[j] # "done" /\ row[j] # "deleted" /\ deleting # j
    BY <1>0, <2>1 DEF Alive, Final, Gone
  <2> QED
    BY <1>0, <2>1, <2>3, <2>4 DEF Written, Gone
<1>3. CASE Enqueue(j)
  <2>1. /\ task[j] = IF kind[j] = "bulk" THEN "sourced" ELSE "created"
        /\ task'[j] = "queued"
        /\ UNCHANGED <<row, files, deleting, condemned, early>>
    BY <1>0, <1>3 DEF Enqueue, Advance, StoreTypes
  <2>2. row[j] # "deleted" /\ deleting # j
    BY <1>0, <2>1 DEF Gone
  <2>3. j \notin condemned => Written(j)'
    BY <1>0, <2>1 DEF Written, Filed
  <2>4. Gone(j)'
    BY <2>1, <2>2 DEF Gone
  <2> QED
    BY <2>1, <2>3, <2>4
<1>4. CASE Start(j)
  <2>1. task[j] = "queued" /\ task'[j] = "working" /\ files' = files /\ deleting' = deleting
        /\ condemned' = condemned /\ early' = early /\ stuck' = stuck
    BY <1>0, <1>4 DEF Start, Advance, StoreTypes
  <2>2. row'[j] = IF row[j] \in {"none", "deleted"} THEN row[j] ELSE "running"
    BY <1>0, <1>4, UpdateRow DEF Start, RowStates
  <2>3. Gone(j)'
    BY <1>0, <2>1, <2>2 DEF Gone, Left
  <2>4. j \notin condemned => Written(j)'
    BY <1>0, <2>1, <2>2 DEF Written
  <2> QED
    BY <2>1, <2>3, <2>4
<1>5. CASE WriteResults(j)
  <2>1. task[j] = "working" /\ task'[j] = "filed" /\ row' = row /\ deleting' = deleting
        /\ condemned' = condemned /\ early' = early /\ stuck' = stuck
    BY <1>0, <1>5 DEF WriteResults, Advance, StoreTypes
  <2>2. files'[j] = [files[j] EXCEPT !["results"] = "whole"]
    BY <1>0, <1>5 DEF WriteResults, StoreTypes
  <2>3. files'[j]["results"] = "whole" /\ files'[j]["source"] = files[j]["source"]
    BY <1>0, <2>2 DEF Files
  <2>4. row[j] # "done"
    BY <1>0, <2>1 DEF Alive, Final
  <2>5. \A f \in Files : files'[j][f] = files[j][f] \/ f = "results"
    BY <1>0, <2>2
  <2>6. row[j] = "deleted" => Left(j, "results")
    BY <1>a, <2>1 DEF Left
  <2>7. Gone(j)'
    BY <1>c, <2>1, <2>5, <2>6 DEF TaskStates, Busy
  <2>8. j \notin condemned => Written(j)'
    BY <1>0, <2>1, <2>3, <2>4 DEF Written
  <2> QED
    BY <2>1, <2>7, <2>8
<1>6. CASE WriteEnriched(j)
  <2>1. task[j] = "filed" /\ task'[j] = "enriched" /\ row' = row /\ deleting' = deleting
        /\ condemned' = condemned /\ early' = early /\ stuck' = stuck /\ kind[j] = "bulk"
    BY <1>0, <1>6 DEF WriteEnriched, Advance, StoreTypes
  <2>2. row[j] # "done"
    BY <1>0, <2>1 DEF Alive, Final
  <2>3. ASSUME j \notin condemned PROVE Written(j)'
    <3>1. files[j]["source"] = "whole" /\ files[j]["results"] = "whole"
      BY <1>0, <2>1, <2>3 DEF Written
    <3>2. files'[j] = [files[j] EXCEPT !["enriched"] = "whole"]
      BY <1>0, <1>6, <3>1 DEF WriteEnriched, StoreTypes
    <3>3. files'[j]["enriched"] = "whole" /\ files'[j]["results"] = "whole"
          /\ files'[j]["source"] = "whole"
      BY <1>0, <3>1, <3>2 DEF Files
    <3> QED
      BY <1>0, <2>1, <2>2, <3>3 DEF Written
  <2>4. Gone(j)'
    <3>1. CASE files' = files
      BY <1>c, <2>1, <3>1 DEF TaskStates, Busy
    <3>2. CASE files[j]["source"] = "whole" /\ files' = [files EXCEPT ![j]["enriched"] = "whole"]
      <4>1. \A f \in Files : files'[j][f] = files[j][f] \/ f = "enriched"
        BY <1>0, <3>2 DEF StoreTypes
      <4>2. row[j] = "deleted" => Left(j, "enriched")
        BY <1>a, <1>b, <2>1, <3>2 DEF Left
      <4> QED
        BY <1>c, <2>1, <4>1, <4>2 DEF TaskStates, Busy
    <3> QED
      BY <1>6, <3>1, <3>2 DEF WriteEnriched
  <2> QED
    BY <2>1, <2>3, <2>4
<1>7. CASE Finish(j)
  <2>1. task'[j] = "over" /\ files' = files /\ deleting' = deleting
        /\ condemned' = condemned /\ early' = early /\ stuck' = stuck
    BY <1>0, <1>7 DEF Finish, Advance, StoreTypes
  <2>2. task[j] = IF kind[j] = "bulk" THEN "enriched" ELSE "filed"
    BY <1>7 DEF Finish, Advance
  <2>3. row'[j] = IF row[j] \in {"none", "deleted"} THEN row[j] ELSE "done"
    BY <1>0, <1>7, UpdateRow DEF Finish, RowStates, Final
  <2>4. Gone(j)'
    BY <1>0, <2>1, <2>2, <2>3 DEF Gone, Left
  <2>5. j \notin condemned => Written(j)'
    BY <1>0, <2>1, <2>2, <2>3 DEF Written, Filed
  <2> QED
    BY <2>1, <2>4, <2>5
<1>8. CASE Delete(j)
  <2>1. j \in condemned' /\ UNCHANGED <<row, files, task>> /\ row[j] \notin {"none", "deleted"}
    BY <1>8 DEF Delete
  <2>2. j \notin early' => task[j] = "over"
    BY <1>0, <1>8 DEF Delete, Alive
  <2>3. task[j] \notin {"none", "created", "sourced"}
    BY <1>0, <1>8 DEF Delete, LoopFree, Busy
  <2> QED
    BY <2>1, <2>2, <2>3 DEF Gone
<1>9. CASE RemoveFile(j)
  <2>1. deleting = j /\ UNCHANGED <<row, task, deleting, condemned, early>>
    BY <1>9 DEF RemoveFile
  <2>2. PICK g \in Files :
          \/ files' = [files EXCEPT ![j][g] = "absent"] /\ stuck' = stuck
          \/ stuck' = [stuck EXCEPT ![j] = @ \cup {g}] /\ files' = files
    BY <1>9, RemoveOne
  <2>3. \A f \in Files : files[j][f] = "absent" => files'[j][f] = "absent"
    BY <1>0, <2>2 DEF StoreTypes
  <2>4. stuck[j] \subseteq stuck'[j]
    BY <1>0, <2>2 DEF StoreTypes
  <2>5. \A f \in Files : Left(j, f) => Left(j, f)'
    BY <2>1, <2>4 DEF Left
  <2> QED
    BY <1>0, <2>1, <2>3, <2>5 DEF Gone
<1>10. CASE DropRow(j)
  <2>1. deleting = j /\ UNCHANGED <<files, stuck, task, condemned, early>>
        /\ \A f \in Files : files[j][f] # "absent" => f \in stuck[j]
    BY <1>10 DEF DropRow, ToRemove
  <2> QED
    BY <1>0, <2>1 DEF Gone, Left
<1>11. CASE Fault(j) \/ Crash
  <2>1. files'[j] \in Torn(j)
    BY <1>0, <1>11, TornType DEF Fault, Crash, StoreTypes
  <2>2. UNCHANGED <<stuck, condemned, early>> /\ (deleting' = deleting \/ deleting' = NoJob)
    BY <1>11 DEF Fault, Crash
  <2>3. task'[j] \in {"none", "over"} /\ (Alive(j) => task'[j] = "over")
        /\ (~Alive(j) => task'[j] = task[j])
    BY <1>0, <1>11 DEF Fault, Crash, Alive, StoreTypes
  <2>4. row'[j] = row[j] \/ (Alive(j) /\ row[j] # "deleted" /\ row'[j] \in {"running", "failed"})
    <3>1. CASE Crash
      BY <3>1 DEF Crash
    <3>2. CASE Fault(j)
      <4>1. (row' = row \/ Update(j, "running") \/ Update(j, "failed")) /\ Alive(j)
        BY <3>2 DEF Fault
      <4> QED
        BY <1>0, <4>1, UpdateRow DEF RowStates, Final
    <3> QED
      BY <1>11, <3>1, <3>2
  <2>5. ~Alive(j) => files'[j] = files[j]
    BY <2>1, TornFiles DEF Alive
  <2>6. ASSUME row[j] = "deleted", NEW f \in Files, files'[j][f] # "absent" PROVE Left(j, f)
    <3>1. task[j] # "created"
      BY <1>0, <2>6 DEF Gone
    <3>2. CASE files[j][f] # "absent"
      BY <1>0, <2>6, <3>2 DEF Gone
    <3>3. CASE files[j][f] = "absent" /\ task[j] = "working" /\ f = "results"
      BY <1>a, <2>6, <3>3 DEF Left
    <3>4. CASE /\ files[j][f] = "absent" /\ task[j] = "filed" /\ f = "enriched"
               /\ files[j]["source"] = "whole"
      BY <1>a, <1>b, <2>6, <3>4 DEF Left
    <3> QED
      BY <1>0, <2>1, <2>6, <3>1, <3>2, <3>3, <3>4, TornFiles
  <2>7. Gone(j)'
    <3>1. row'[j] = "deleted" => row[j] = "deleted"
      BY <2>4
    <3>2. \A f \in Files : Left(j, f) => Left(j, f)'
      BY <2>2 DEF Left
    <3>3. row'[j] = "deleted" => \A f \in Files : files'[j][f] # "absent" => Left(j, f)'
      BY <2>6, <3>1, <3>2
    <3>4. deleting' = j => deleting = j
      BY <2>2, NoJobType
    <3> QED
      BY <1>0, <2>2, <2>3, <3>1, <3>3, <3>4 DEF Gone, Alive
  <2>8. ASSUME j \notin condemned PROVE Written(j)'
    <3>1. row'[j] = "done" => row[j] = "done" /\ ~Alive(j)
      BY <1>0, <2>4 DEF Final
    <3>2. row'[j] = "done" => Filed(j)'
      BY <1>0, <2>5, <2>8, <3>1 DEF Written, Filed
    <3> QED
      BY <2>3, <3>2 DEF Written
  <2> QED
    BY <2>2, <2>7, <2>8
<1>12. CASE Untouched(j)
  BY <1>0, <1>12 DEF Untouched, Written, Filed, Gone, Left
<1> QED
  BY <1>1, <1>2, <1>3, <1>4, <1>5, <1>6, <1>7, <1>8, <1>9, <1>10, <1>11, <1>12, Focus
     DEF JobActs, TypeInv

LEMMA FilesInit == Init => FilesInv
BY NoJobType DEF Init, FilesInv, Written, Filed, Gone

LEMMA FilesInvStep == TypeInv /\ Working /\ FilesInv /\ [Next]_vars => FilesInv'
BY FilesStep DEF FilesInv

\* Rows and files belong together, whatever is cut short between two writes,
\* but for the files of a deleted job that FilesHaveARow names
\* (jobs.py:113-128 and 221-244, main.py:476-479).
THEOREM RowsHaveFiles == Spec => []RowsFitFiles
<1>1. FilesInv => RowsFitFiles
  BY DEF FilesInv, Written, Filed, Gone, Left, RowsFitFiles, DoneHasResults, FilesHaveARow
<1> QED
  BY <1>1, TypeInit, TypeStep, WorkingInit, WorkingStep, FilesInit, FilesInvStep, PTL DEF Spec

-----------------------------------------------------------------------------
(* The downloads the page offers.                                          *)

Ended(j) == row[j] \in {"done", "deleted"}

\* An answer that says done is about a job that was done, and so are the links.
PollsTrue == \A p \in polls : p.status = "done" => Ended(p.job)
LinksTrue ==
  \A k \in Kinds : LET j == panel[k].links IN
    j # NoJob /\ j \notin crossed => Ended(j)

PageInv == PollsTrue /\ LinksTrue

LEMMA PageInvStep == TypeInv /\ Working /\ PageInv /\ [Next]_vars => PageInv'
<1> SUFFICES ASSUME TypeInv, Working, PageInv, [Next]_vars PROVE PageInv'
  OBVIOUS
<1>0. PageTypes /\ kind \in [Jobs -> Kinds]
  BY TypeParts, KindType DEF TypeInv
<1>1. \A j \in Jobs : Ended(j) => Ended(j)'
  BY OverStep DEF Settled, Ended, Final
<1>2. \A p \in polls : p.job \in Jobs /\ p.panel \in Kinds
  BY <1>0 DEF PageTypes, Polls
<1>3. \A k \in Kinds : panel[k].links \in Ids
  BY <1>0 DEF PageTypes, Panels
<1> USE DEF browser
\* Links and answers that a step leaves alone stay true.
<1>4. ASSUME \A p \in polls' : p \in polls \/ p.status # "done"
      PROVE  PollsTrue'
  BY <1>1, <1>2, <1>4 DEF PageInv, PollsTrue
<1>5. ASSUME crossed \subseteq crossed',
             \A k \in Kinds : panel'[k].links \in {panel[k].links, NoJob}
      PROVE  LinksTrue'
  BY <1>1, <1>3, <1>5 DEF PageInv, LinksTrue, Ids
<1>6. CASE UNCHANGED browser
  BY <1>4, <1>5, <1>6 DEF PageInv
<1>7. ASSUME NEW j \in Jobs, Submit(j) PROVE PageInv'
  <2>1. \A k \in Kinds : panel'[k].links \in {panel[k].links, NoJob}
    BY <1>0, <1>7 DEF Submit, Sending, PageTypes
  <2> QED
    BY <1>4, <1>5, <1>7, <2>1 DEF Submit, PageInv
<1>8. ASSUME NEW j \in Jobs, Enqueue(j) PROVE PageInv'
  BY <1>4, <1>5, <1>8 DEF Enqueue, PageInv
<1>9. ASSUME NEW k \in Kinds, NEW j \in Jobs, Learn(k, j) \/ UploadFails(k, j) PROVE PageInv'
  <2>1. \A l \in Kinds : panel'[l].links = panel[l].links
    BY <1>0, <1>9 DEF Learn, UploadFails, Watching, Refused, PageTypes
  <2>2. \A p \in polls' : p \in polls \/ p = Asked(k, j)
    BY <1>9 DEF Learn, UploadFails
  <2>3. crossed' = crossed
    BY <1>9 DEF Learn, UploadFails
  <2> QED
    BY <1>4, <1>5, <2>1, <2>2, <2>3, AskedType DEF PageInv
<1>10. ASSUME NEW k \in Kinds, Tick(k) PROVE PageInv'
  <2>1. \A p \in polls' : p \in polls \/ p = Asked(k, panel[k].current)
    BY <1>10 DEF Tick
  <2>2. Asked(k, panel[k].current).status # "done"
    BY DEF Asked
  <2> QED
    BY <1>4, <1>5, <1>10, <2>1, <2>2 DEF Tick, PageInv
<1>11. ASSUME NEW p \in polls, Serve(p) PROVE PageInv'
  <2>1. /\ [p EXCEPT !.status = row[p.job]].job = p.job
        /\ [p EXCEPT !.status = row[p.job]].status = row[p.job]
    BY <1>0 DEF PageTypes, Polls
  <2>2. UNCHANGED <<row, panel, crossed>>
    BY <1>11 DEF Serve, store
  <2>3. \A q \in polls' : q \in polls \/ q = [p EXCEPT !.status = row[p.job]]
    BY <1>11 DEF Serve
  <2>4. PollsTrue'
    BY <1>1, <1>2, <2>1, <2>2, <2>3 DEF PageInv, PollsTrue, Ended
  <2> QED
    BY <1>5, <2>2, <2>4 DEF PageInv
<1>12. ASSUME NEW p \in polls, Deliver(p) PROVE PageInv'
  <2>1. polls' \subseteq polls /\ crossed \subseteq crossed' /\ row' = row
    BY <1>12 DEF Deliver, Crossed, store
  <2>2. \A k \in Kinds : panel'[k].links = panel[k].links \/
          (k = p.panel /\ p.status = "done" /\ panel'[k].links = panel[k].current)
    BY <1>0, <1>12 DEF Deliver, Told, PageTypes
  <2>3. ASSUME p.status = "done", panel[p.panel].current \notin crossed'
        PROVE  panel[p.panel].current = p.job
    BY <1>12, <2>3 DEF Deliver, Crossed, Final
  <2>4. p.status = "done" => Ended(p.job) /\ p.job \in Jobs
    BY <1>2 DEF PageInv, PollsTrue
  <2>5. LinksTrue'
    BY <1>1, <1>3, <2>1, <2>2, <2>3, <2>4 DEF PageInv, LinksTrue, Ids, Ended
  <2> QED
    BY <1>4, <2>1, <2>5 DEF PageInv
<1>13. CASE Crash
  BY <1>4, <1>5, <1>13 DEF Crash, PageInv
<1>14. ASSUME NEW j \in Jobs, SaveSource(j) \/ Start(j) \/ WriteResults(j) \/ WriteEnriched(j)
       PROVE  UNCHANGED browser
  BY <1>14 DEF SaveSource, Start, WriteResults, WriteEnriched
<1>15. ASSUME NEW j \in Jobs, Finish(j) \/ Delete(j) \/ RemoveFile(j) \/ DropRow(j) \/ Fault(j)
       PROVE  UNCHANGED browser
  BY <1>15 DEF Finish, Delete, RemoveFile, DropRow, Fault
<1>16. CASE UNCHANGED vars
  BY <1>6, <1>16 DEF vars
<1> QED
  BY <1>6, <1>7, <1>8, <1>9, <1>10, <1>11, <1>12, <1>13, <1>14, <1>15, <1>16 DEF Next

LEMMA PageInit == Init => PageInv
BY DEF Init, PageInv, PollsTrue, LinksTrue

\* The downloads the page offers exist, unless the job was deleted meanwhile or
\* the page took the end of an earlier job for the end of this one
\* (app.js pollJob, main.py get_job).
THEOREM OfferedLinksWork == Spec => []LinksWork
<1>1. TypeInv /\ FilesInv /\ PageInv => LinksWork
  <2> SUFFICES ASSUME TypeInv, FilesInv, PageInv, NEW k \in Kinds,
                      panel[k].links # NoJob, panel[k].links \notin crossed \cup condemned
               PROVE  row[panel[k].links] = "done" /\ files[panel[k].links]["results"] = "whole"
    BY DEF LinksWork
  <2>1. panel[k].links \in Jobs
    BY TypeParts DEF TypeInv, PageTypes, Panels, Ids
  <2>2. Ended(panel[k].links)
    BY DEF PageInv, LinksTrue
  <2> QED
    BY <2>1, <2>2 DEF FilesInv, Gone, Written, Filed, Ended
<1> QED
  BY <1>1, TypeInit, TypeStep, WorkingInit, WorkingStep, FilesInit, FilesInvStep,
     PageInit, PageInvStep, PTL DEF Spec

=============================================================================
