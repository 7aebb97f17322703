------------------------- MODULE DocumentIngestion -------------------------
(***************************************************************************)
(* One document, its parse job, the memory items made of its versions and  *)
(* the vector of its record (agentmesh/ingestion.py, routes/documents.py,  *)
(* vector_index.py and the document commands of store.py).                 *)
(*                                                                         *)
(* The worker of the ingestion pool, a manual import and the editors run   *)
(* on threads of their own.  Every read of the document, every guarded     *)
(* save and every save of one item is a step; what a thread keeps between  *)
(* its steps is in its record.  A save that changes what the index knows   *)
(* is followed, outside the transaction, by the call of the embedding      *)
(* provider (Embed), before the thread goes on.                            *)
(***************************************************************************)
EXTENDS Integers, FiniteSets

CONSTANTS
    Texts,          \* texts that differ in what the index sees of them
    NoText,
    MaxPieces,
    Pieces,         \* number of chunks of each text
    Worker,         \* the thread of the pool that runs the job
    Importer,       \* a request that imports the document by hand
    Editors,        \* requests that edit the document
    MaxVersion,     \* bound: versions of the document
    Budgets         \* bound: reruns of the job, ends of the process, imports, edits

ASSUME Chunked == MaxPieces \in Nat /\ NoText \notin Texts /\ Pieces \in [Texts -> 0 .. MaxPieces]
ASSUME Threads == Worker # Importer /\ Editors \cap {Worker, Importer} = {}
ASSUME Bounds == MaxVersion \in Nat \ {0} /\ Budgets \subseteq [runs : Nat, ends : Nat, imports : Nat, edits : Nat]

Actors == {Worker, Importer} \cup Editors
Versions == 1 .. MaxVersion
Parts == 0 .. MaxPieces         \* 0 is the summary

VARIABLES
    doc,            \* DocumentRecord; version 0 before it is added
    items,          \* the UserMemoryItems of each version
    job,            \* DocumentParseJob; version 0 while it names no document
    entry,          \* vector_states of the document
    vector,         \* records_vec: the text the stored vector was made of
    brief,          \* the inbox item of a Brief draft
    th,             \* where each thread is and what it keeps
    left,           \* what is left of the budget
    written,        \* history: the text each version was given
    manual,         \* history: versions a manual import has touched
    lost            \* history: the process ended with work in flight

history == <<written, manual, lost>>
vars == <<doc, items, job, entry, vector, brief, th, left, history>>

NoItem == [status |-> "none", text |-> NoText]
Nobody == [version |-> 0, part |-> 0, text |-> NoText]
\* version: the document as loaded; text: what the chunks are cut from; copy:
\* the text of the document last read; todo, pick: items to save; work: to embed
Resting == [pc |-> "idle", version |-> 0, text |-> NoText, copy |-> NoText, part |-> 0,
            todo |-> {}, pick |-> Nobody, work |-> NoText]

At(a, p) == th[a].pc = p /\ th[a].work = NoText
Goto(a, p) == th' = [th EXCEPT ![a].pc = p]
Takes(f) == left[f] > 0 /\ left' = [left EXCEPT ![f] = @ - 1]
IsCurrent(a) == doc.version = th[a].version
\* StaleDocumentVersionError: the job is failed, a request answers an error
Refused(a) == th' = [th EXCEPT ![a] = IF a = Worker THEN [@ EXCEPT !.pc = "fail"] ELSE Resting]

----------------------------------------------------------------------------
(* The index: prepare inside the saving transaction, process after it *)

Indexed(x) == entry.state = "ready" /\ entry.hash = x /\ vector # NoText
Prepare(x) ==
    IF Indexed(x) THEN UNCHANGED <<entry, vector>>
    ELSE /\ entry' = [state |-> IF entry.state = "missing" THEN "pending" ELSE "stale", hash |-> x]
         /\ vector' = NoText
Work(x) == IF Indexed(x) THEN NoText ELSE x

\* Variant: the answer is stored whatever the text is by now
EmbedLate(a) ==
    /\ th[a].work # NoText
    /\ th' = [th EXCEPT ![a].work = NoText]
    /\ entry' = [entry EXCEPT !.state = "ready"] /\ vector' = th[a].work
    /\ UNCHANGED <<doc, items, job, brief, left, history>>

\* the provider answers, or fails
Embed(a) ==
    /\ th[a].work # NoText
    /\ th' = [th EXCEPT ![a].work = NoText]
    /\ \/ /\ entry.hash # th[a].work \/ entry.state = "ready"
          /\ UNCHANGED <<entry, vector>>
       \/ /\ entry.hash = th[a].work /\ entry.state # "ready"
          /\ \/ entry' = [entry EXCEPT !.state = "ready"] /\ vector' = th[a].work
             \/ entry' = [entry EXCEPT !.state = "failed"] /\ UNCHANGED vector
    /\ UNCHANGED <<doc, items, job, brief, left, history>>

\* a save of the document, after which thread a is at p with what r says
SaveDocument(a, d, r) ==
    /\ doc' = d
    /\ Prepare(d.text)
    /\ th' = [th EXCEPT ![a] = [r EXCEPT !.work = Work(d.text)]]

SaveItem(i, status) == items' = [items EXCEPT ![i.version][i.part] = [status |-> status, text |-> i.text]]
Saved(k) == items[k.version][k.part]
ItemsOf(V) ==
    {[version |-> k.version, part |-> k.part, text |-> Saved(k).text] :
        k \in {i \in [version : V, part : Parts] : Saved(i).status # "none"}}
\* they are listed in the order they were made
First(i, T) == \A j \in T : i.version < j.version \/ (i.version = j.version /\ i.part <= j.part)
Shown(i) == Saved(i).status # "stale"

----------------------------------------------------------------------------
(* The job: submission, run, failure *)

Upload ==
    /\ doc.version = 0 /\ job.status = "none"
    /\ job' = [status |-> "queued", version |-> 0]
    \* the pool takes it, or is full or stopping
    /\ \/ Goto(Worker, "queued")
       \/ Goto(Worker, "fail")
    /\ UNCHANGED <<doc, items, entry, vector, brief, left, history>>

\* Variant: the job of a cancelled future is not failed
ShutdownForgetting ==
    /\ th[Worker].pc = "queued" /\ job.status = "queued"
    /\ th' = [th EXCEPT ![Worker] = Resting]
    /\ UNCHANGED <<doc, items, job, entry, vector, brief, left, history>>

\* the pool stops: what is queued is cancelled, what runs is waited for
Shutdown ==
    /\ th[Worker].pc = "queued" /\ job.status = "queued"
    /\ Goto(Worker, "fail")
    /\ UNCHANGED <<doc, items, job, entry, vector, brief, left, history>>

JobDone == job.status = "completed" /\ job.version = doc.version /\ doc.completed = doc.expected

StartJob ==
    /\ At(Worker, "queued")
    /\ \/ JobDone /\ th' = [th EXCEPT ![Worker] = Resting] /\ UNCHANGED job
       \/ ~JobDone /\ job' = [job EXCEPT !.status = "running"] /\ Goto(Worker, "load")
    /\ UNCHANGED <<doc, items, entry, vector, brief, left, history>>

\* run_job once more for the job, by the entry point for workers
Rerun ==
    /\ th[Worker] = Resting /\ job.status \in {"completed", "failed"}
    /\ job.version # 0 \/ doc.version = 0
    /\ Takes("runs")
    /\ Goto(Worker, "queued")
    /\ UNCHANGED <<doc, items, job, entry, vector, brief, history>>

LoadDocument ==
    /\ At(Worker, "load") /\ job.version # 0
    /\ IF doc.version = job.version
       THEN th' = [th EXCEPT ![Worker].pc = "summary", ![Worker].version = doc.version]
       ELSE Refused(Worker)
    /\ UNCHANGED <<doc, items, job, entry, vector, brief, left, history>>

ParseDocument(x) ==
    /\ At(Worker, "load") /\ job.version = 0
    /\ SaveDocument(Worker, [version |-> 1, text |-> x, expected |-> 0, completed |-> 0],
                    [th[Worker] EXCEPT !.pc = "bind", !.version = 1])
    /\ written' = [written EXCEPT ![1] = x]
    /\ UNCHANGED <<items, job, brief, left, manual, lost>>

BindJob ==
    /\ At(Worker, "bind")
    /\ job' = [job EXCEPT !.version = th[Worker].version]
    /\ Goto(Worker, "summary")
    /\ UNCHANGED <<doc, items, entry, vector, brief, left, history>>

\* _save_summary: the item is made of the document as read
ReadForSummary ==
    /\ At(Worker, "summary")
    /\ IF IsCurrent(Worker)
       THEN th' = [th EXCEPT ![Worker].pc = "save_summary", ![Worker].copy = doc.text]
       ELSE Refused(Worker)
    /\ UNCHANGED <<doc, items, job, entry, vector, brief, left, history>>

SaveSummary ==
    /\ At(Worker, "save_summary")
    /\ SaveItem([version |-> th[Worker].version, part |-> 0, text |-> th[Worker].copy], "staging")
    /\ Goto(Worker, "import")
    /\ UNCHANGED <<doc, job, entry, vector, brief, left, history>>

\* the document is marked complete from a copy read before
ReadToFinish ==
    /\ At(Worker, "finish")
    /\ IF IsCurrent(Worker)
       THEN th' = [th EXCEPT ![Worker].pc = "save_finish", ![Worker].copy = doc.text]
       ELSE Refused(Worker)
    /\ UNCHANGED <<doc, items, job, entry, vector, brief, left, history>>

Finish ==
    /\ At(Worker, "save_finish")
    /\ LET n == Pieces[th[Worker].text] IN
       \/ /\ IsCurrent(Worker)
          /\ SaveDocument(Worker, [doc EXCEPT !.text = th[Worker].copy, !.expected = n, !.completed = n],
                          [th[Worker] EXCEPT !.pc = "finalize"])
       \/ ~IsCurrent(Worker) /\ Refused(Worker) /\ UNCHANGED <<doc, entry, vector>>
    /\ UNCHANGED <<items, job, brief, left, history>>

Finalize ==
    /\ At(Worker, "finalize")
    /\ \/ /\ IsCurrent(Worker)
          /\ job' = [status |-> "completed", version |-> th[Worker].version]
          /\ th' = [th EXCEPT ![Worker] = Resting]
       \/ ~IsCurrent(Worker) /\ Refused(Worker) /\ UNCHANGED job
    /\ UNCHANGED <<doc, items, entry, vector, brief, left, history>>

\* any step of the job may raise: the parser, the disk
JobBreaks ==
    /\ th[Worker].pc \notin {"idle", "queued", "fail", "hiding"} /\ th[Worker].work = NoText
    /\ Goto(Worker, "fail")
    /\ UNCHANGED <<doc, items, job, entry, vector, brief, left, history>>

\* Variant: the items of the failed job stay as they are
FailJobShowing ==
    /\ At(Worker, "fail")
    /\ th' = [th EXCEPT ![Worker] = [Resting EXCEPT !.pc = "hiding"]]
    /\ UNCHANGED <<doc, items, job, entry, vector, brief, left, history>>

\* fail_job: hide what the job has made, then save it as failed
FailJob ==
    /\ At(Worker, "fail")
    /\ th' = [th EXCEPT ![Worker] = [Resting EXCEPT
                  !.pc = "hiding", !.todo = {i \in ItemsOf({job.version} \ {0}) : Shown(i)}]]
    /\ UNCHANGED <<doc, items, job, entry, vector, brief, left, history>>

JobFailed ==
    /\ At(Worker, "hiding") /\ th[Worker].todo = {}
    /\ job' = [job EXCEPT !.status = "failed"]
    /\ th' = [th EXCEPT ![Worker] = Resting]
    /\ UNCHANGED <<doc, items, entry, vector, brief, left, history>>

----------------------------------------------------------------------------
(* import_document_chunks, by the worker or for the manual request *)

\* the route answers already_imported when every chunk is active
ImportRequest ==
    /\ th[Importer] = Resting /\ doc.version # 0
    /\ ~(/\ doc.expected > 0
         /\ doc.expected = Cardinality({p \in Parts \ {0} : items[doc.version][p].status = "active"}))
    /\ th' = [th EXCEPT ![Importer].pc = "import", ![Importer].version = doc.version]
    /\ manual' = manual \cup {doc.version}
    /\ Takes("imports")
    /\ UNCHANGED <<doc, items, job, entry, vector, brief, written, lost>>

ReadToImport(a) ==
    /\ At(a, "import")
    /\ IF IsCurrent(a)
       THEN th' = [th EXCEPT ![a] = [@ EXCEPT !.pc = "save_progress", !.text = doc.text, !.copy = doc.text,
                                              !.part = 0]]
       ELSE Refused(a)
    /\ UNCHANGED <<doc, items, job, entry, vector, brief, left, history>>

\* _save_document_progress of the copy, with the chunks done so far
SaveProgress(a) ==
    /\ At(a, "save_progress")
    /\ \/ /\ IsCurrent(a)
          /\ SaveDocument(a, [doc EXCEPT !.text = th[a].copy, !.expected = Pieces[th[a].text],
                                         !.completed = th[a].part],
                          [th[a] EXCEPT !.pc = IF th[a].part < Pieces[th[a].text] THEN "chunk" ELSE "activate",
                                        !.part = @ + 1])
       \/ ~IsCurrent(a) /\ Refused(a) /\ UNCHANGED <<doc, entry, vector>>
    /\ UNCHANGED <<items, job, brief, left, history>>

CheckForChunk(a) ==
    /\ At(a, "chunk")
    /\ IF IsCurrent(a) THEN Goto(a, "save_chunk") ELSE Refused(a)
    /\ UNCHANGED <<doc, items, job, entry, vector, brief, left, history>>

SaveChunk(a) ==
    /\ At(a, "save_chunk")
    /\ SaveItem([version |-> th[a].version, part |-> th[a].part, text |-> th[a].text], "staging")
    /\ Goto(a, "progress")
    /\ UNCHANGED <<doc, job, entry, vector, brief, left, history>>

ReadForProgress(a) ==
    /\ At(a, "progress")
    /\ IF IsCurrent(a)
       THEN th' = [th EXCEPT ![a].pc = "save_progress", ![a].copy = doc.text]
       ELSE Refused(a)
    /\ UNCHANGED <<doc, items, job, entry, vector, brief, left, history>>

\* _activate_version_items: one snapshot, a check before each save
Activate(a) ==
    /\ At(a, "activate")
    /\ th' = [th EXCEPT ![a].pc = "activating", ![a].todo = ItemsOf({th[a].version})]
    /\ UNCHANGED <<doc, items, job, entry, vector, brief, left, history>>

CheckForItem(a) ==
    /\ At(a, "activating")
    /\ \E i \in th[a].todo :
          /\ First(i, th[a].todo)
          /\ IF IsCurrent(a)
             THEN th' = [th EXCEPT ![a].pc = "save_item", ![a].todo = @ \ {i}, ![a].pick = i]
             ELSE Refused(a)
    /\ UNCHANGED <<doc, items, job, entry, vector, brief, left, history>>

ActivateItem(a) ==
    /\ At(a, "save_item")
    /\ SaveItem(th[a].pick, "active")
    /\ th' = [th EXCEPT ![a].pc = "activating", ![a].pick = Nobody]
    /\ UNCHANGED <<doc, job, entry, vector, brief, left, history>>

Activated(a) ==
    /\ At(a, "activating") /\ th[a].todo = {}
    /\ IF a = Worker THEN Goto(a, "finish") ELSE th' = [th EXCEPT ![a] = Resting]
    /\ UNCHANGED <<doc, items, job, entry, vector, brief, left, history>>

ImportStep(a) ==
    \/ ReadToImport(a) \/ SaveProgress(a) \/ CheckForChunk(a) \/ SaveChunk(a)
    \/ ReadForProgress(a) \/ Activate(a) \/ CheckForItem(a) \/ ActivateItem(a) \/ Activated(a)

----------------------------------------------------------------------------
(* The commands that give the document a new version *)

NewVersion(e, x, p) ==
    /\ th[e] = Resting /\ doc.version \in 1 .. MaxVersion - 1
    /\ SaveDocument(e, [version |-> doc.version + 1, text |-> x, expected |-> 0, completed |-> 0],
                    [Resting EXCEPT !.pc = p, !.version = doc.version + 1])
    /\ written' = [written EXCEPT ![doc.version + 1] = x]
    /\ Takes("edits")
    /\ UNCHANGED <<items, job, manual, lost>>

\* update_document: a client that names the current version
Update(e, x) == NewVersion(e, x, "outdate") /\ UNCHANGED brief

\* confirm_brief leaves the items of earlier versions as they are
ConfirmBrief(e, x) == brief = "open" /\ brief' = "resolved" /\ NewVersion(e, x, "hiding")

\* invalidate_prior_version_chunks: one snapshot of what other versions show
Outdate(e) ==
    /\ At(e, "outdate")
    /\ th' = [th EXCEPT ![e] = [@ EXCEPT
                  !.pc = "hiding", !.todo = {i \in ItemsOf(Versions \ {th[e].version}) : Shown(i)}]]
    /\ UNCHANGED <<doc, items, job, entry, vector, brief, left, history>>

HideItem(a) ==
    /\ At(a, "hiding")
    /\ \E i \in th[a].todo :
          /\ First(i, th[a].todo)
          /\ SaveItem(i, "stale")
          /\ th' = [th EXCEPT ![a].todo = @ \ {i}]
    /\ UNCHANGED <<doc, job, entry, vector, brief, left, history>>

Answered(e) ==
    /\ At(e, "hiding") /\ th[e].todo = {}
    /\ th' = [th EXCEPT ![e] = Resting]
    /\ UNCHANGED <<doc, items, job, entry, vector, brief, left, history>>

----------------------------------------------------------------------------

InFlight == job.status \in {"queued", "running"} \/ \E a \in Actors : th[a] # Resting

\* the process ends, orderly or not, and starts again
Restart ==
    /\ Takes("ends")
    /\ th' = [a \in Actors |-> Resting]
    /\ lost' = (lost \/ InFlight)
    /\ UNCHANGED <<doc, items, job, entry, vector, brief, written, manual>>

Unwritten == [v \in Versions |-> NoText]

\* nothing yet, or the draft of a Brief that an agent has stored
Init ==
    /\ \/ /\ doc = [version |-> 0, text |-> NoText, expected |-> 0, completed |-> 0]
          /\ written = Unwritten
          /\ entry = [state |-> "missing", hash |-> NoText] /\ vector = NoText
          /\ brief = "none"
       \/ \E x \in Texts :
          /\ doc = [version |-> 1, text |-> x, expected |-> 0, completed |-> 0]
          /\ written = [Unwritten EXCEPT ![1] = x]
          /\ \/ entry = [state |-> "ready", hash |-> x] /\ vector = x
             \/ entry = [state |-> "failed", hash |-> x] /\ vector = NoText
          /\ brief = "open"
    /\ items = [v \in Versions |-> [p \in Parts |-> NoItem]]
    /\ job = [status |-> "none", version |-> 0]
    /\ th = [a \in Actors |-> Resting]
    /\ left \in Budgets
    /\ manual = {} /\ lost = FALSE

JobStep ==
    \/ StartJob \/ LoadDocument \/ BindJob \/ ReadForSummary \/ SaveSummary
    \/ ReadToFinish \/ Finish \/ Finalize \/ FailJob \/ JobFailed
    \/ \E x \in Texts : ParseDocument(x)
    \/ ImportStep(Worker) \/ HideItem(Worker) \/ Embed(Worker)

EditStep(e) ==
    \/ \E x \in Texts : Update(e, x) \/ ConfirmBrief(e, x)
    \/ Outdate(e) \/ HideItem(e) \/ Answered(e) \/ Embed(e)

Next ==
    \/ Upload \/ Shutdown \/ Rerun \/ JobStep \/ JobBreaks
    \/ ImportRequest \/ ImportStep(Importer) \/ Embed(Importer)
    \/ \E e \in Editors : EditStep(e)
    \/ Restart

\* a thread of the pool is not starved
Spec == Init /\ [][Next]_vars /\ WF_vars(JobStep)

----------------------------------------------------------------------------

\* What is stored under a version is what that version was given: the document
\* keeps the text of its last edit, whatever progress is saved over it, an item
\* holds the text of its version, and a vector that search may use was made of
\* the text that stands there now (VectorIndex: the hash "prevents a late
\* provider response from attaching an old vector to newer text").
TextTrue ==
    /\ doc.version # 0 => doc.text = written[doc.version]
    /\ \A v \in Versions, p \in Parts : items[v][p].status # "none" => items[v][p].text = written[v]
    /\ entry.state = "ready" => vector = doc.text

\* When nobody is at work and nothing was lost, search sees the whole of a
\* finished job and nothing of any other: what a job made is active only if the
\* job completed and its version still stands, a completed job of the standing
\* version has all its parts active and counted, and the index is not left
\* waiting for a vector (run_job, fail_job, invalidate_prior_version_chunks).
Searchable ==
    ~InFlight /\ ~lost =>
        /\ \A v \in Versions \ manual, p \in Parts : items[v][p].status = "active" =>
              job = [status |-> "completed", version |-> v] /\ doc.version = v
        /\ job = [status |-> "completed", version |-> doc.version] =>
              /\ doc.expected = Pieces[doc.text] /\ doc.completed = Pieces[doc.text]
              /\ \A p \in 0 .. Pieces[doc.text] : items[doc.version][p].status = "active"
        /\ doc.version # 0 => entry.state \in {"ready", "failed"}

\* An accepted job ends: completed, failed, or lost with the process
\* (BoundedIngestionExecutor, shutdown, run_job).
JobsEnd == job.status \in {"queued", "running"} ~> (lost \/ job.status \in {"completed", "failed"})
=============================================================================
