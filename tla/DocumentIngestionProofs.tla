---------------------- MODULE DocumentIngestionProofs ----------------------
(***************************************************************************)
(* Two invariants of the ingestion of a document.                          *)
(*                                                                         *)
(* What is stored under a version is what that version was given           *)
(* (TextTrue).  It is not inductive: a thread writes texts it has read     *)
(* before.  IInv adds what each thread knows (Knows): the version it works *)
(* for exists, and the texts it keeps, for itself or in items still to be  *)
(* saved, are those of their version.  Since a version that exists is      *)
(* never given another text, what a thread knows stays true whatever the   *)
(* others do (KnowsStays).                                                 *)
(*                                                                         *)
(* When nobody works, search sees whole jobs (Searchable).  That speaks of *)
(* rest only, so Search says what every thread still owes while it works:  *)
(* Placement, where each thread can be; IndexServed, that whoever left the *)
(* record without a vector is about to ask for one; ActiveOwned, that an   *)
(* active item of a job will be completed or hidden by somebody; JobTrue,  *)
(* what the job has staged, activated and counted by each of its steps.    *)
(***************************************************************************)
EXTENDS DocumentIngestion, TLAPS

Txt == Texts \cup {NoText}
Numbers == 0 .. MaxVersion
Item == [version : Numbers, part : Parts, text : Txt]
Loaded == {"bind", "summary", "save_summary", "import", "save_progress", "chunk", "save_chunk",
           "progress", "activate", "activating", "save_item", "finish", "save_finish", "finalize"}
Pcs == Loaded \cup {"idle", "queued", "load", "fail", "outdate", "hiding"}
ItemStates == {"none", "staging", "active", "stale"}
JobStates == {"none", "queued", "running", "completed", "failed"}
EntryStates == {"missing", "pending", "stale", "ready", "failed"}
Thread == [pc : Pcs, version : Numbers, text : Txt, copy : Txt, part : Nat,
           todo : SUBSET Item, pick : Item, work : Txt]

Importing == {"save_progress", "chunk", "save_chunk", "progress", "activate", "activating",
              "save_item", "finish", "save_finish"}
Copied == {"save_summary", "save_progress", "save_finish"}

\* an item as some version n or earlier has it
Holds(i, n, w) == i.version \in 1 .. n /\ i.text = w[i.version]

Knows(r, n, w) ==
    /\ r.version <= n
    /\ r.pc \in Loaded => r.version \in 1 .. n
    /\ r.pc \in Importing => r.text \in Texts /\ r.text = w[r.version]
    /\ r.pc \in Copied => r.copy = w[r.version]
    /\ \A i \in r.todo : Holds(i, n, w)
    /\ r.pc = "save_item" => Holds(r.pick, n, w)

Typed ==
    /\ doc \in [version : Numbers, text : Txt, expected : Nat, completed : Nat]
    /\ items \in [Versions -> [Parts -> [status : ItemStates, text : Txt]]]
    /\ job \in [status : JobStates, version : Numbers]
    /\ entry \in [state : EntryStates, hash : Txt]
    /\ vector \in Txt
    /\ th \in [Actors -> Thread]
    /\ written \in [Versions -> Txt]

Given(n, w) == \A v \in 1 .. n : w[v] \in Texts
DocTrue == doc.version # 0 => doc.text = written[doc.version]
ItemsTrue ==
    \A v \in Versions, p \in Parts : items[v][p].status # "none" =>
        v <= doc.version /\ items[v][p].text = written[v]
IndexTrue == entry.hash = doc.text /\ (entry.state = "ready" => vector = entry.hash)
ThreadsKnow == \A a \in Actors : Knows(th[a], doc.version, written)
\* a job without a document is about to make the first one
FirstParse == th[Worker].pc \in {"queued", "load"} /\ job.version = 0 => doc.version = 0

IInv ==
    /\ Typed /\ Given(doc.version, written) /\ DocTrue /\ ItemsTrue /\ IndexTrue
    /\ ThreadsKnow /\ FirstParse

----------------------------------------------------------------------------

\* A version that exists keeps its text, so what a thread knows of it (the text
\* its handler has read or cut into chunks) stays true.
LEMMA KnowsStays ==
    ASSUME NEW r, NEW n \in Nat, NEW m \in Nat, NEW w, NEW x, n <= m,
           \A v \in 1 .. n : x[v] = w[v], r.version \in Nat, Knows(r, n, w)
    PROVE  Knows(r, m, x)
<1>1. 1 .. n \subseteq 1 .. m
  OBVIOUS
<1>2. \A i : Holds(i, n, w) => Holds(i, m, x)
  BY <1>1 DEF Holds
<1>3. r.pc \in Importing \cup Copied \cup {"save_item"} => r.pc \in Loaded
  BY DEF Importing, Copied, Loaded
<1>4. r.pc \in Loaded => r.version \in 1 .. n
  BY DEF Knows
<1> QED
  BY <1>1, <1>2, <1>3, <1>4 DEF Knows

\* What a step of one thread owes the others: nothing, as long as no version
\* that exists is rewritten.
LEMMA OthersKnow ==
    ASSUME Typed, ThreadsKnow, NEW a \in Actors, th' \in [Actors -> Thread],
           \A b \in Actors \ {a} : th'[b] = th[b],
           doc'.version \in Numbers, doc.version <= doc'.version,
           \A v \in 1 .. doc.version : written'[v] = written[v],
           Knows(th'[a], doc'.version, written')
    PROVE  ThreadsKnow'
<1> SUFFICES ASSUME NEW b \in Actors PROVE Knows(th[b], doc.version, written)'
  BY DEF ThreadsKnow
<1>1. CASE b = a
  BY <1>1
<1>2. CASE b # a
  <2>1. Knows(th[b], doc.version, written) /\ th'[b] = th[b]
    BY <1>2 DEF ThreadsKnow
  <2>2. doc.version \in Nat /\ doc'.version \in Nat /\ th[b].version \in Nat
    BY Bounds DEF Typed, Numbers, Thread
  <2> QED
    BY <2>1, <2>2, KnowsStays
<1> QED
  BY <1>1, <1>2

\* Steps that read, decide or save the job: run_job, fail_job, the checks.
LEMMA ReadStep ==
    ASSUME IInv, NEW a \in Actors, UNCHANGED <<doc, items, entry, vector, written>>,
           th' \in [Actors -> Thread], \A b \in Actors \ {a} : th'[b] = th[b],
           job' \in [status : JobStates, version : Numbers],
           Knows(th'[a], doc.version, written), FirstParse'
    PROVE  IInv'
<1>1. Typed'
  BY DEF IInv, Typed
<1>2. doc.version \in Nat /\ doc'.version \in Numbers
  BY Bounds DEF IInv, Typed, Numbers
<1>3. ThreadsKnow'
  BY <1>2, OthersKnow DEF IInv
<1>4. Given(doc.version, written)' /\ DocTrue' /\ ItemsTrue' /\ IndexTrue'
  BY DEF IInv, Given, DocTrue, ItemsTrue, IndexTrue
<1> QED
  BY <1>1, <1>3, <1>4 DEF IInv

\* A save of one item that a thread holds (add_user_memory_item and
\* save_user_memory_item) changes no text.
LEMMA ItemStep ==
    ASSUME IInv, NEW a \in Actors, NEW i, NEW status \in ItemStates, i.text \in Txt,
           Holds(i, doc.version, written), SaveItem(i, status),
           UNCHANGED <<doc, job, entry, vector, written>>,
           th' \in [Actors -> Thread], \A b \in Actors \ {a} : th'[b] = th[b],
           Knows(th'[a], doc.version, written), FirstParse'
    PROVE  IInv'
<1>1. items' \in [Versions -> [Parts -> [status : ItemStates, text : Txt]]]
  BY DEF IInv, Typed, SaveItem
<1>2. doc.version \in Nat /\ doc'.version \in Numbers
  BY Bounds DEF IInv, Typed, Numbers
<1>3. ThreadsKnow'
  BY <1>2, OthersKnow DEF IInv
<1>4. ItemsTrue'
  <2> SUFFICES ASSUME NEW v \in Versions, NEW p \in Parts, items'[v][p].status # "none"
               PROVE  v <= doc.version /\ items'[v][p].text = written[v]
    BY DEF ItemsTrue
  <2>1. CASE v = i.version /\ p = i.part
    BY <2>1, <1>2 DEF IInv, Typed, SaveItem, Holds
  <2>2. CASE ~(v = i.version /\ p = i.part)
    <3>1. items'[v][p] = items[v][p]
      BY <2>2 DEF IInv, Typed, SaveItem
    <3> QED
      BY <3>1 DEF IInv, ItemsTrue
  <2> QED
    BY <2>1, <2>2
<1>5. Typed' /\ Given(doc.version, written)' /\ DocTrue' /\ IndexTrue'
  BY <1>1 DEF IInv, Typed, Given, DocTrue, IndexTrue
<1> QED
  BY <1>3, <1>4, <1>5 DEF IInv

\* A save of the document prepares the index for the text it saves: an entry
\* that was ready for another text is not ready any more.
LEMMA PrepareTrue ==
    ASSUME NEW x \in Texts, Typed, entry.state = "ready" => vector = entry.hash, Prepare(x)
    PROVE  /\ entry' \in [state : EntryStates, hash : Txt] /\ vector' \in Txt
           /\ entry'.hash = x /\ (entry'.state = "ready" => vector' = entry'.hash)
           /\ Work(x) \in Txt
<1>1. CASE Indexed(x)
  BY <1>1 DEF Prepare, Indexed, Work, Typed, Txt
<1>2. CASE ~Indexed(x)
  <2>1. Work(x) \in Txt /\ vector' \in Txt /\ entry'.hash = x
    BY <1>2 DEF Prepare, Work, Txt
  <2>2. entry' \in [state : EntryStates, hash : Txt] /\ entry'.state # "ready"
    BY <1>2 DEF Prepare, EntryStates, Txt
  <2> QED
    BY <2>1, <2>2
<1> QED
  BY <1>1, <1>2

\* Every save of the document: progress, completion, parse, edit.
LEMMA DocumentStep ==
    ASSUME IInv, NEW a \in Actors, NEW d, NEW r,
           d \in [version : Numbers, text : Texts, expected : Nat, completed : Nat],
           r \in Thread, SaveDocument(a, d, r), UNCHANGED <<items, job>>,
           written' \in [Versions -> Txt], doc.version <= d.version, d.version # 0,
           \A v \in 1 .. doc.version : written'[v] = written[v],
           Given(d.version, written'), d.text = written'[d.version],
           Knows(r, d.version, written'), FirstParse'
    PROVE  IInv'
<1>1. /\ entry' \in [state : EntryStates, hash : Txt] /\ vector' \in Txt
      /\ entry'.hash = d.text /\ (entry'.state = "ready" => vector' = entry'.hash)
      /\ Work(d.text) \in Txt
  BY PrepareTrue DEF IInv, IndexTrue, SaveDocument
<1>2. doc' = d /\ th' = [th EXCEPT ![a] = [r EXCEPT !.work = Work(d.text)]]
  BY DEF SaveDocument
<1> DEFINE q == [r EXCEPT !.work = Work(d.text)]
<1>3. q \in Thread /\ q.version = r.version /\ q.pc = r.pc /\ q.text = r.text /\ q.copy = r.copy
      /\ q.todo = r.todo /\ q.pick = r.pick
  BY <1>1 DEF Thread
<1>4. Knows(q, d.version, written')
  BY <1>3 DEF Knows
<1>5. th' \in [Actors -> Thread] /\ th'[a] = q /\ \A b \in Actors \ {a} : th'[b] = th[b]
  BY <1>2, <1>3 DEF IInv, Typed
<1> HIDE DEF q
<1>6. ThreadsKnow'
  BY <1>2, <1>4, <1>5, OthersKnow DEF IInv
<1>7. Typed'
  BY <1>1, <1>2, <1>5 DEF IInv, Typed, Txt
<1>8. ItemsTrue'
  BY <1>2, Bounds DEF IInv, Typed, ItemsTrue, Numbers, Versions
<1>9. Given(doc.version, written)' /\ DocTrue' /\ IndexTrue'
  BY <1>1, <1>2 DEF DocTrue, IndexTrue
<1> QED
  BY <1>6, <1>7, <1>8, <1>9 DEF IInv

----------------------------------------------------------------------------

LEMMA RestingKnows ==
    ASSUME NEW n \in Nat, NEW w
    PROVE  Resting \in Thread /\ Knows(Resting, n, w)
<1>1. Resting \in Thread
  BY Chunked, Bounds DEF Resting, Thread, Nobody, Item, Txt, Numbers, Parts, Pcs
<1>2. Resting.pc \notin Loaded \cup Importing \cup Copied \cup {"save_item"}
  BY DEF Resting, Loaded, Importing, Copied
<1> QED
  BY <1>1, <1>2 DEF Knows, Resting

\* A thread that goes where nothing need be known keeps what it knew.
LEMMA Forgets ==
    ASSUME NEW r, NEW q, NEW n \in Nat, NEW w, Knows(r, n, w),
           q.version = r.version, q.todo = r.todo,
           q.pc \notin Loaded \cup Importing \cup Copied \cup {"save_item"}
    PROVE  Knows(q, n, w)
  BY DEF Knows

\* What is read from the saved items is true of them.
LEMMA ReadItems ==
    ASSUME IInv, NEW V \in SUBSET Versions
    PROVE  ItemsOf(V) \in SUBSET Item /\ \A i \in ItemsOf(V) : Holds(i, doc.version, written)
<1> SUFFICES ASSUME NEW i \in ItemsOf(V) PROVE i \in Item /\ Holds(i, doc.version, written)
  OBVIOUS
<1>1. PICK k \in [version : V, part : Parts] :
        Saved(k).status # "none" /\ i = [version |-> k.version, part |-> k.part, text |-> Saved(k).text]
  BY DEF ItemsOf
<1>2. k.version \in Versions /\ k.part \in Parts
  OBVIOUS
<1>3. Saved(k).text \in Txt
  BY <1>2 DEF Saved, IInv, Typed
<1>4. k.version <= doc.version /\ Saved(k).text = written[k.version]
  BY <1>1, <1>2 DEF Saved, IInv, ItemsTrue
<1> QED
  BY <1>1, <1>2, <1>3, <1>4, Bounds DEF Item, Holds, Versions, Numbers, IInv, Typed

\* Refusing a stale version leaves a thread that knows nothing wrong.
LEMMA RefusedKnows ==
    ASSUME IInv, NEW a \in Actors, Refused(a)
    PROVE  /\ th' \in [Actors -> Thread] /\ \A b \in Actors \ {a} : th'[b] = th[b]
           /\ Knows(th'[a], doc.version, written)
           /\ th'[a].pc \in {"fail", "idle"}
<1>0. doc.version \in Nat /\ Knows(th[a], doc.version, written) /\ th[a] \in Thread
  BY Bounds DEF IInv, Typed, Numbers, ThreadsKnow
<1>1. CASE a = Worker
  <2> DEFINE q == [th[a] EXCEPT !.pc = "fail"]
  <2>1. th' = [th EXCEPT ![a] = q]
    BY <1>1 DEF Refused
  <2>2. q \in Thread /\ q.version = th[a].version /\ q.todo = th[a].todo /\ q.pc = "fail"
    BY <1>0 DEF Thread, Pcs
  <2>3. Knows(q, doc.version, written)
    BY <1>0, <2>2, Forgets DEF Loaded, Importing, Copied
  <2> HIDE DEF q
  <2> QED
    BY <2>1, <2>2, <2>3 DEF IInv, Typed
<1>2. CASE a # Worker
  <2>1. th' = [th EXCEPT ![a] = Resting] /\ Resting.pc = "idle"
    BY <1>2 DEF Refused, Resting
  <2> QED
    BY <1>0, <2>1, RestingKnows DEF IInv, Typed
<1> QED
  BY <1>1, <1>2

\* A step of thread a after which it is q.
LEMMA Move ==
    ASSUME IInv, NEW a \in Actors, NEW q \in Thread, th' = [th EXCEPT ![a] = q],
           UNCHANGED <<doc, items, entry, vector, written>>,
           job' \in [status : JobStates, version : Numbers],
           Knows(q, doc.version, written), FirstParse'
    PROVE  IInv'
<1>1. th' \in [Actors -> Thread] /\ th'[a] = q /\ \A b \in Actors \ {a} : th'[b] = th[b]
  BY DEF IInv, Typed
<1> QED
  BY <1>1, ReadStep

\* The same for a step that neither saves the job nor starts or loads it.
LEMMA MoveOn ==
    ASSUME IInv, NEW a \in Actors, NEW q \in Thread, th' = [th EXCEPT ![a] = q],
           UNCHANGED <<doc, items, job, entry, vector, written>>,
           q.pc \notin {"queued", "load"}, Knows(q, doc.version, written)
    PROVE  IInv'
<1>1. th'[Worker] = th[Worker] \/ th'[Worker] = q
  BY DEF IInv, Typed
<1>2. FirstParse'
  BY <1>1 DEF IInv, FirstParse
<1>3. job' \in [status : JobStates, version : Numbers]
  BY DEF IInv, Typed
<1> QED
  BY <1>2, <1>3, Move

LEMMA RefuseStep ==
    ASSUME IInv, NEW a \in Actors, Refused(a), UNCHANGED <<doc, items, job, entry, vector, written>>
    PROVE  IInv'
<1>1. /\ th' \in [Actors -> Thread] /\ \A b \in Actors \ {a} : th'[b] = th[b]
      /\ Knows(th'[a], doc.version, written) /\ th'[a].pc \in {"fail", "idle"}
  BY RefusedKnows
<1>2. Worker \in Actors
  BY DEF Actors
<1>3. FirstParse'
  BY <1>1, <1>2 DEF IInv, FirstParse
<1>4. job' \in [status : JobStates, version : Numbers]
  BY DEF IInv, Typed
<1> QED
  BY <1>1, <1>3, <1>4, ReadStep

LEMMA RestStep ==
    ASSUME IInv, NEW a \in Actors, th' = [th EXCEPT ![a] = Resting],
           UNCHANGED <<doc, items, entry, vector, written>>,
           job' \in [status : JobStates, version : Numbers], job'.version = 0 => job.version = 0
    PROVE  IInv'
<1>1. doc.version \in Nat
  BY Bounds DEF IInv, Typed, Numbers
<1>2. Resting \in Thread /\ Knows(Resting, doc.version, written)
  BY <1>1, RestingKnows
<1>3. th'[Worker] = th[Worker] \/ th'[Worker] = Resting
  BY <1>2 DEF IInv, Typed
<1>4. FirstParse'
  BY <1>3 DEF IInv, FirstParse, Resting
<1> QED
  BY <1>2, <1>4, Move

LEMMA Facts ==
    ASSUME IInv, NEW a \in Actors
    PROVE  /\ doc.version \in Nat /\ doc.version \in Numbers /\ th[a] \in Thread
           /\ Knows(th[a], doc.version, written)
           /\ doc \in [version : Numbers, text : Txt, expected : Nat, completed : Nat]
           /\ job \in [status : JobStates, version : Numbers]
           /\ doc.version # 0 => doc.version \in Versions /\ doc.text = written[doc.version]
                                 /\ doc.text \in Texts
<1>1. doc.version # 0 => doc.version \in Versions /\ doc.version \in 1 .. doc.version
  BY Bounds DEF IInv, Typed, Numbers, Versions
<1> QED
  BY <1>1, Bounds DEF IInv, Typed, Numbers, ThreadsKnow, DocTrue, Given

LEMMA InActors == Worker \in Actors /\ Importer \in Actors /\ Editors \subseteq Actors
  BY DEF Actors

----------------------------------------------------------------------------
(* One step per action *)

\* Submission and the end of the job: the worker knows nothing of a version.
LEMMA SubmitSteps ==
    ASSUME IInv, Upload \/ Shutdown \/ StartJob \/ Rerun \/ JobBreaks \/ FailJob \/ JobFailed
    PROVE  IInv'
<1> DEFINE n == doc.version
<1>0. /\ n \in Nat /\ th[Worker] \in Thread /\ Knows(th[Worker], n, written) /\ Worker \in Actors
      /\ job \in [status : JobStates, version : Numbers]
  BY Facts, InActors
<1> HIDE DEF n
\* going to p, where nothing need be known
<1>1. ASSUME NEW p \in {"queued", "load", "fail"}, Goto(Worker, p),
             UNCHANGED <<doc, items, entry, vector, written>>,
             job' \in [status : JobStates, version : Numbers],
             p \in {"queued", "load"} /\ job'.version = 0 => doc.version = 0
      PROVE  IInv'
  <2> DEFINE q == [th[Worker] EXCEPT !.pc = p]
  <2>1. th' = [th EXCEPT ![Worker] = q]
    BY <1>1 DEF Goto
  <2>2. q \in Thread /\ q.version = th[Worker].version /\ q.todo = th[Worker].todo /\ q.pc = p
    BY <1>0, <1>1 DEF Thread, Pcs
  <2> HIDE DEF q
  <2>3. Knows(q, n, written)
    BY <1>0, <1>1, <2>2, Forgets DEF Loaded, Importing, Copied
  <2>4. th'[Worker] = q
    BY <1>0, <2>1, <2>2 DEF IInv, Typed
  <2>5. FirstParse'
    BY <1>1, <2>2, <2>4 DEF FirstParse
  <2> QED
    BY <1>0, <1>1, <2>1, <2>2, <2>3, <2>5, Move DEF n
<1>2. CASE Upload
  <2>1. job' \in [status : JobStates, version : Numbers]
    BY <1>2, Bounds DEF Upload, JobStates, Numbers
  <2> QED
    BY <1>1, <1>2, <2>1 DEF Upload, history
<1>3. CASE Shutdown
  BY <1>0, <1>1, <1>3 DEF Shutdown, history
<1>4. CASE StartJob
  <2>1. CASE JobDone /\ th' = [th EXCEPT ![Worker] = Resting] /\ UNCHANGED job
    BY <1>0, <1>4, <2>1, RestStep DEF StartJob, history
  <2>2. CASE ~JobDone /\ job' = [job EXCEPT !.status = "running"] /\ Goto(Worker, "load")
    <3>1. job' \in [status : JobStates, version : Numbers] /\ job'.version = job.version
      BY <1>0, <2>2 DEF JobStates
    <3>2. job.version = 0 => doc.version = 0
      BY <1>4 DEF StartJob, At, IInv, FirstParse
    <3> QED
      BY <1>1, <1>4, <2>2, <3>1, <3>2 DEF StartJob, history
  <2> QED
    BY <1>4, <2>1, <2>2 DEF StartJob
<1>5. CASE Rerun
  BY <1>0, <1>1, <1>5 DEF Rerun, history
<1>6. CASE JobBreaks
  BY <1>0, <1>1, <1>6 DEF JobBreaks, history
<1>7. CASE FailJob
  <2> DEFINE T == {i \in ItemsOf({job.version} \ {0}) : Shown(i)}
             q == [Resting EXCEPT !.pc = "hiding", !.todo = T]
  <2>1. {job.version} \ {0} \subseteq Versions
    BY <1>0, Bounds DEF Numbers, Versions
  <2>2. T \in SUBSET Item /\ \A i \in T : Holds(i, n, written)
    BY <2>1, ReadItems DEF n
  <2>3. Resting \in Thread /\ Knows(Resting, n, written)
    BY <1>0, RestingKnows
  <2> HIDE DEF T
  <2>4. q \in Thread /\ q.pc = "hiding" /\ q.version = Resting.version /\ q.todo = T
    BY <2>2, <2>3 DEF Thread, Pcs
  <2>5. th' = [th EXCEPT ![Worker] = q]
    BY <1>7 DEF FailJob, T
  <2> HIDE DEF q
  <2>6. Knows(q, n, written)
    BY <2>2, <2>3, <2>4 DEF Knows, Loaded, Importing, Copied
  <2>7. UNCHANGED <<doc, items, job, entry, vector, written>>
    BY <1>7 DEF FailJob, history
  <2> QED
    BY <1>0, <2>4, <2>5, <2>6, <2>7, MoveOn DEF n
<1>8. CASE JobFailed
  <2>1. job' \in [status : JobStates, version : Numbers] /\ job'.version = job.version
    BY <1>0, <1>8 DEF JobFailed, JobStates
  <2> QED
    BY <1>0, <1>8, <2>1, RestStep DEF JobFailed, history
<1> QED
  BY <1>2, <1>3, <1>4, <1>5, <1>6, <1>7, <1>8

\* Steps of the job that read or check the document.
LEMMA JobReadSteps ==
    ASSUME IInv, LoadDocument \/ BindJob \/ ReadForSummary \/ ReadToFinish \/ Finalize
    PROVE  IInv'
<1> DEFINE n == doc.version
           r == th[Worker]
<1>0. /\ n \in Nat /\ n \in Numbers /\ r \in Thread /\ Knows(r, n, written) /\ Worker \in Actors
      /\ job \in [status : JobStates, version : Numbers]
      /\ n # 0 => n \in Versions /\ doc.text = written[n] /\ doc.text \in Texts
  BY Facts, InActors
<1>1. CASE LoadDocument
  <2>1. CASE doc.version = job.version
    <3> DEFINE q == [r EXCEPT !.pc = "summary", !.version = n]
    <3>0. n \in 1 .. n
      BY <1>0, <1>1, <2>1 DEF LoadDocument
    <3>1. q \in Thread /\ q.pc = "summary" /\ q.version = n /\ q.todo = r.todo
      BY <1>0 DEF Thread, Pcs, Loaded
    <3>2. Knows(q, n, written)
      BY <1>0, <3>0, <3>1 DEF Knows, Importing, Copied
    <3>3. th' = [th EXCEPT ![Worker] = q] /\ UNCHANGED <<doc, items, job, entry, vector, written>>
      BY <1>1, <2>1 DEF LoadDocument, history
    <3> HIDE DEF q
    <3> QED
      BY <1>0, <3>1, <3>2, <3>3, MoveOn
  <2>2. CASE doc.version # job.version
    BY <1>0, <1>1, <2>2, RefuseStep DEF LoadDocument, history
  <2> QED
    BY <2>1, <2>2
<1>2. CASE BindJob
  <2> DEFINE q == [r EXCEPT !.pc = "summary"]
  <2>0. r.pc = "bind" /\ r.version \in 1 .. n
    BY <1>0, <1>2 DEF BindJob, At, Knows, Loaded
  <2>1. q \in Thread /\ q.pc = "summary" /\ q.version = r.version /\ q.todo = r.todo
    BY <1>0 DEF Thread, Pcs, Loaded
  <2>2. Knows(q, n, written)
    BY <1>0, <2>0, <2>1 DEF Knows, Importing, Copied
  <2>3. th' = [th EXCEPT ![Worker] = q] /\ UNCHANGED <<doc, items, entry, vector, written>>
    BY <1>2 DEF BindJob, Goto, history
  <2>4. job' \in [status : JobStates, version : Numbers]
    BY <1>0, <1>2 DEF BindJob, Thread
  <2>5. th'[Worker] = q
    BY <1>0, <2>1, <2>3 DEF IInv, Typed
  <2> HIDE DEF q
  <2>6. FirstParse'
    BY <2>1, <2>5 DEF FirstParse
  <2> QED
    BY <1>0, <2>1, <2>2, <2>3, <2>4, <2>6, Move
\* reading the text of the version it works for, on the way to p
<1>3. ASSUME NEW p \in {"save_summary", "save_finish"}, r.pc \in Loaded,
             p = "save_finish" => r.pc = "finish", IsCurrent(Worker),
             th' = [th EXCEPT ![Worker].pc = p, ![Worker].copy = doc.text],
             UNCHANGED <<doc, items, job, entry, vector, written>>
      PROVE  IInv'
  <2> DEFINE q == [r EXCEPT !.pc = p, !.copy = doc.text]
  <2>0. n = r.version /\ r.version \in 1 .. n
    BY <1>0, <1>3 DEF IsCurrent, Knows
  <2>1. /\ q \in Thread /\ q.pc = p /\ q.copy = doc.text /\ q.version = r.version /\ q.todo = r.todo
        /\ q.text = r.text
    <3>1. doc.text \in Txt
      BY <1>0, <2>0 DEF Txt
    <3>2. p \in Pcs
      BY <1>3 DEF Pcs, Loaded
    <3> QED
      BY <1>0, <3>1, <3>2 DEF Thread
  <2>2. q.pc = "save_finish" => q.text \in Texts /\ q.text = written[q.version]
    BY <1>0, <1>3, <2>1 DEF Knows, Importing
  <2>3. q.copy = written[q.version]
    BY <1>0, <2>0, <2>1
  <2>4. Knows(q, n, written)
    BY <1>0, <1>3, <2>0, <2>1, <2>2, <2>3 DEF Knows, Importing
  <2>5. th' = [th EXCEPT ![Worker] = q]
    BY <1>3
  <2>6. q.pc \notin {"queued", "load"}
    BY <1>3, <2>1
  <2> HIDE DEF q
  <2> QED
    BY <1>0, <1>3, <2>1, <2>4, <2>5, <2>6, MoveOn
<1>4. CASE ReadForSummary
  <2>1. r.pc \in Loaded
    BY <1>4 DEF ReadForSummary, At, Loaded
  <2>2. CASE IsCurrent(Worker)
    BY <1>3, <1>4, <2>1, <2>2 DEF ReadForSummary, history
  <2>3. CASE ~IsCurrent(Worker)
    BY <1>0, <1>4, <2>3, RefuseStep DEF ReadForSummary, history
  <2> QED
    BY <2>2, <2>3
<1>5. CASE ReadToFinish
  <2>1. r.pc = "finish" /\ r.pc \in Loaded
    BY <1>5 DEF ReadToFinish, At, Loaded
  <2>2. CASE IsCurrent(Worker)
    BY <1>3, <1>5, <2>1, <2>2 DEF ReadToFinish, history
  <2>3. CASE ~IsCurrent(Worker)
    BY <1>0, <1>5, <2>3, RefuseStep DEF ReadToFinish, history
  <2> QED
    BY <2>2, <2>3
<1>6. CASE Finalize
  <2>1. CASE IsCurrent(Worker) /\ job' = [status |-> "completed", version |-> r.version]
             /\ th' = [th EXCEPT ![Worker] = Resting]
    <3>1. r.version \in 1 .. n /\ r.version \in Numbers
      BY <1>0, <1>6 DEF Finalize, At, Knows, Loaded, Thread
    <3>2. job' \in [status : JobStates, version : Numbers] /\ job'.version # 0
      BY <2>1, <3>1 DEF JobStates
    <3> QED
      BY <1>0, <1>6, <2>1, <3>2, RestStep DEF Finalize, history
  <2>2. CASE ~IsCurrent(Worker) /\ Refused(Worker) /\ UNCHANGED job
    BY <1>0, <1>6, <2>2, RefuseStep DEF Finalize, history
  <2> QED
    BY <1>6, <2>1, <2>2 DEF Finalize
<1> QED
  BY <1>1, <1>2, <1>4, <1>5, <1>6

\* A save of an item by thread a, which goes to p and forgets what it saved.
LEMMA SaveItemStep ==
    ASSUME IInv, NEW a \in Actors, NEW i, NEW status \in ItemStates, i.text \in Txt,
           Holds(i, doc.version, written), SaveItem(i, status),
           UNCHANGED <<doc, job, entry, vector, written>>,
           NEW q \in Thread, th' = [th EXCEPT ![a] = q], q.pc \notin {"queued", "load"},
           Knows(q, doc.version, written)
    PROVE  IInv'
<1>1. th' \in [Actors -> Thread] /\ th'[a] = q /\ \A b \in Actors \ {a} : th'[b] = th[b]
  BY DEF IInv, Typed
<1>2. Worker \in Actors
  BY InActors
<1>3. FirstParse'
  BY <1>1, <1>2 DEF IInv, FirstParse
<1> QED
  BY <1>1, <1>3, ItemStep

LEMMA ItemSteps ==
    ASSUME IInv, NEW a \in Actors,
           (a = Worker /\ SaveSummary) \/ SaveChunk(a) \/ ActivateItem(a) \/ HideItem(a)
    PROVE  IInv'
<1> DEFINE n == doc.version
           r == th[a]
<1>0. n \in Nat /\ r \in Thread /\ Knows(r, n, written)
  BY Facts
<1>1. CASE a = Worker /\ SaveSummary
  <2> DEFINE i == [version |-> r.version, part |-> 0, text |-> r.copy]
             q == [r EXCEPT !.pc = "import"]
  <2>1. r.version \in 1 .. n /\ r.copy = written[r.version] /\ r.copy \in Txt
    BY <1>0, <1>1 DEF SaveSummary, At, Knows, Loaded, Copied, Thread
  <2>2. Holds(i, n, written) /\ i.text \in Txt
    BY <2>1 DEF Holds
  <2>3. q \in Thread /\ q.pc = "import" /\ q.version = r.version /\ q.todo = r.todo
    BY <1>0 DEF Thread, Pcs, Loaded
  <2>4. Knows(q, n, written)
    BY <1>0, <2>1, <2>3 DEF Knows, Importing, Copied
  <2>5. SaveItem(i, "staging") /\ th' = [th EXCEPT ![a] = q] /\ UNCHANGED <<doc, job, entry, vector, written>>
    BY <1>1 DEF SaveSummary, Goto, history
  <2> HIDE DEF i, q
  <2> QED
    BY <2>2, <2>3, <2>4, <2>5, SaveItemStep DEF ItemStates
<1>2. CASE SaveChunk(a)
  <2> DEFINE i == [version |-> r.version, part |-> r.part, text |-> r.text]
             q == [r EXCEPT !.pc = "progress"]
  <2>1. r.version \in 1 .. n /\ r.text = written[r.version] /\ r.text \in Texts
    BY <1>0, <1>2 DEF SaveChunk, At, Knows, Loaded, Importing
  <2>2. Holds(i, n, written) /\ i.text \in Txt
    BY <2>1 DEF Holds, Txt
  <2>3. /\ q \in Thread /\ q.pc = "progress" /\ q.version = r.version /\ q.todo = r.todo
        /\ q.text = r.text
    BY <1>0 DEF Thread, Pcs, Loaded
  <2>4. Knows(q, n, written)
    BY <1>0, <2>1, <2>3 DEF Knows, Copied
  <2>5. SaveItem(i, "staging") /\ th' = [th EXCEPT ![a] = q] /\ UNCHANGED <<doc, job, entry, vector, written>>
    BY <1>2 DEF SaveChunk, Goto, history
  <2> HIDE DEF i, q
  <2> QED
    BY <2>2, <2>3, <2>4, <2>5, SaveItemStep DEF ItemStates
<1>3. CASE ActivateItem(a)
  <2> DEFINE q == [r EXCEPT !.pc = "activating", !.pick = Nobody]
  <2>1. /\ r.version \in 1 .. n /\ r.text = written[r.version] /\ r.text \in Texts
        /\ Holds(r.pick, n, written) /\ r.pick.text \in Txt
    BY <1>0, <1>3 DEF ActivateItem, At, Knows, Loaded, Importing, Thread, Item
  <2>2. Nobody \in Item
    BY Chunked, Bounds DEF Nobody, Item, Txt, Numbers, Parts
  <2>3. /\ q \in Thread /\ q.pc = "activating" /\ q.version = r.version /\ q.todo = r.todo
        /\ q.text = r.text
    BY <1>0, <2>2 DEF Thread, Pcs, Loaded
  <2>4. Knows(q, n, written)
    BY <1>0, <2>1, <2>3 DEF Knows, Copied
  <2>5. /\ SaveItem(r.pick, "active") /\ th' = [th EXCEPT ![a] = q]
        /\ UNCHANGED <<doc, job, entry, vector, written>>
    BY <1>3 DEF ActivateItem, history
  <2> HIDE DEF q
  <2> QED
    BY <2>1, <2>3, <2>4, <2>5, SaveItemStep DEF ItemStates
<1>4. CASE HideItem(a)
  <2>1. PICK i \in r.todo : SaveItem(i, "stale") /\ th' = [th EXCEPT ![a].todo = @ \ {i}]
    BY <1>4 DEF HideItem
  <2> DEFINE q == [r EXCEPT !.todo = @ \ {i}]
  <2>2. Holds(i, n, written) /\ i.text \in Txt
    BY <1>0 DEF Knows, Thread, Item
  <2>3. q \in Thread /\ q.pc = r.pc /\ q.version = r.version /\ q.todo = r.todo \ {i} /\ r.pc = "hiding"
    BY <1>0, <1>4 DEF Thread, HideItem, At
  <2>4. Knows(q, n, written)
    BY <1>0, <2>3 DEF Knows, Loaded, Importing, Copied
  <2>5. th' = [th EXCEPT ![a] = q] /\ UNCHANGED <<doc, job, entry, vector, written>>
    BY <1>4, <2>1 DEF HideItem, history
  <2> HIDE DEF q
  <2> QED
    BY <2>1, <2>2, <2>3, <2>4, <2>5, SaveItemStep DEF ItemStates
<1> QED
  BY <1>1, <1>2, <1>3, <1>4

\* The checks and reads of an import, by the worker or by hand.
LEMMA ImportReadSteps ==
    ASSUME IInv, NEW a \in Actors,
           ReadToImport(a) \/ CheckForChunk(a) \/ ReadForProgress(a) \/ Activate(a) \/ CheckForItem(a)
    PROVE  IInv'
<1> DEFINE n == doc.version
           r == th[a]
<1>0. /\ n \in Nat /\ n \in Numbers /\ r \in Thread /\ Knows(r, n, written)
      /\ n # 0 => n \in Versions /\ doc.text = written[n] /\ doc.text \in Texts
  BY Facts
<1>1. r.pc \in Loaded => r.version \in 1 .. n
  BY <1>0 DEF Knows
<1>2. r.pc \in Importing => r.text \in Texts /\ r.text = written[r.version]
  BY <1>0 DEF Knows
<1>3. CASE ReadToImport(a)
  <2>1. CASE IsCurrent(a)
    <3> DEFINE q == [r EXCEPT !.pc = "save_progress", !.text = doc.text, !.copy = doc.text, !.part = 0]
    <3>1. n = r.version /\ r.version \in 1 .. n /\ doc.text \in Texts /\ doc.text = written[r.version]
      BY <1>0, <1>1, <1>3, <2>1 DEF ReadToImport, At, Loaded, IsCurrent
    <3>2. /\ q \in Thread /\ q.pc = "save_progress" /\ q.version = r.version /\ q.todo = r.todo
          /\ q.text = doc.text /\ q.copy = doc.text
      BY <1>0, <3>1 DEF Thread, Pcs, Loaded, Txt
    <3>3. Knows(q, n, written)
      BY <1>0, <3>1, <3>2 DEF Knows
    <3>4. th' = [th EXCEPT ![a] = q] /\ UNCHANGED <<doc, items, job, entry, vector, written>>
      BY <1>3, <2>1 DEF ReadToImport, history
    <3> HIDE DEF q
    <3> QED
      BY <3>2, <3>3, <3>4, MoveOn
  <2>2. CASE ~IsCurrent(a)
    BY <1>3, <2>2, RefuseStep DEF ReadToImport, history
  <2> QED
    BY <2>1, <2>2
<1>4. CASE CheckForChunk(a)
  <2>1. CASE IsCurrent(a)
    <3> DEFINE q == [r EXCEPT !.pc = "save_chunk"]
    <3>1. r.pc = "chunk"
      BY <1>4 DEF CheckForChunk, At
    <3>2. /\ q \in Thread /\ q.pc = "save_chunk" /\ q.version = r.version /\ q.todo = r.todo
          /\ q.text = r.text
      BY <1>0 DEF Thread, Pcs, Loaded
    <3>3. Knows(q, n, written)
      BY <1>0, <3>1, <3>2 DEF Knows, Loaded, Importing, Copied
    <3>4. th' = [th EXCEPT ![a] = q] /\ UNCHANGED <<doc, items, job, entry, vector, written>>
      BY <1>4, <2>1 DEF CheckForChunk, Goto, history
    <3> HIDE DEF q
    <3> QED
      BY <3>2, <3>3, <3>4, MoveOn
  <2>2. CASE ~IsCurrent(a)
    BY <1>4, <2>2, RefuseStep DEF CheckForChunk, history
  <2> QED
    BY <2>1, <2>2
<1>5. CASE ReadForProgress(a)
  <2>1. CASE IsCurrent(a)
    <3> DEFINE q == [r EXCEPT !.pc = "save_progress", !.copy = doc.text]
    <3>1. /\ r.pc = "progress" /\ n = r.version /\ r.version \in 1 .. n /\ doc.text \in Texts
          /\ doc.text = written[r.version]
      BY <1>0, <1>1, <1>5, <2>1 DEF ReadForProgress, At, Loaded, IsCurrent
    <3>2. /\ q \in Thread /\ q.pc = "save_progress" /\ q.version = r.version /\ q.todo = r.todo
          /\ q.text = r.text /\ q.copy = doc.text
      BY <1>0, <3>1 DEF Thread, Pcs, Loaded, Txt
    <3>3. Knows(q, n, written)
      BY <1>0, <1>2, <3>1, <3>2 DEF Knows, Importing
    <3>4. th' = [th EXCEPT ![a] = q] /\ UNCHANGED <<doc, items, job, entry, vector, written>>
      BY <1>5, <2>1 DEF ReadForProgress, history
    <3> HIDE DEF q
    <3> QED
      BY <3>2, <3>3, <3>4, MoveOn
  <2>2. CASE ~IsCurrent(a)
    BY <1>5, <2>2, RefuseStep DEF ReadForProgress, history
  <2> QED
    BY <2>1, <2>2
<1>6. CASE Activate(a)
  <2> DEFINE T == ItemsOf({r.version})
             q == [r EXCEPT !.pc = "activating", !.todo = T]
  <2>1. r.pc = "activate" /\ r.version \in 1 .. n /\ {r.version} \subseteq Versions
    BY <1>0, <1>1, <1>6, Bounds DEF Activate, At, Loaded, Versions, Numbers
  <2>2. T \in SUBSET Item /\ \A i \in T : Holds(i, n, written)
    BY <2>1, ReadItems
  <2>3. th' = [th EXCEPT ![a] = q] /\ UNCHANGED <<doc, items, job, entry, vector, written>>
    BY <1>6 DEF Activate, history
  <2> HIDE DEF T
  <2>4. /\ q \in Thread /\ q.pc = "activating" /\ q.version = r.version /\ q.todo = T
        /\ q.text = r.text
    BY <1>0, <2>2 DEF Thread, Pcs, Loaded
  <2>5. Knows(q, n, written)
    BY <1>0, <1>2, <2>1, <2>2, <2>4 DEF Knows, Importing, Copied
  <2> HIDE DEF q
  <2> QED
    BY <2>3, <2>4, <2>5, MoveOn
<1>7. CASE CheckForItem(a)
  <2>1. PICK i \in r.todo :
          IF IsCurrent(a)
          THEN th' = [th EXCEPT ![a].pc = "save_item", ![a].todo = @ \ {i}, ![a].pick = i]
          ELSE Refused(a)
    BY <1>7 DEF CheckForItem
  <2>2. CASE IsCurrent(a)
    <3> DEFINE q == [r EXCEPT !.pc = "save_item", !.todo = @ \ {i}, !.pick = i]
    <3>1. r.pc = "activating" /\ i \in Item /\ Holds(i, n, written)
      BY <1>0, <1>7 DEF CheckForItem, At, Knows, Thread
    <3>2. /\ q \in Thread /\ q.pc = "save_item" /\ q.version = r.version /\ q.todo = r.todo \ {i}
          /\ q.text = r.text /\ q.pick = i
      BY <1>0, <3>1 DEF Thread, Pcs, Loaded
    <3>3. Knows(q, n, written)
      BY <1>0, <1>1, <1>2, <3>1, <3>2 DEF Knows, Loaded, Importing, Copied
    <3>4. th' = [th EXCEPT ![a] = q]
      BY <2>1, <2>2
    <3>5. UNCHANGED <<doc, items, job, entry, vector, written>>
      BY <1>7 DEF CheckForItem, history
    <3> HIDE DEF q
    <3> QED
      BY <3>2, <3>3, <3>4, <3>5, MoveOn
  <2>3. CASE ~IsCurrent(a)
    BY <1>7, <2>1, <2>3, RefuseStep DEF CheckForItem, history
  <2> QED
    BY <2>2, <2>3
<1> QED
  BY <1>3, <1>4, <1>5, <1>6, <1>7

\* The end of an import and of an edit.
LEMMA EndSteps ==
    ASSUME IInv, NEW a \in Actors, Activated(a) \/ Outdate(a) \/ Answered(a)
    PROVE  IInv'
<1> DEFINE n == doc.version
           r == th[a]
<1>0. /\ n \in Nat /\ r \in Thread /\ Knows(r, n, written)
      /\ job \in [status : JobStates, version : Numbers]
  BY Facts
<1>1. CASE Activated(a)
  <2>1. CASE a = Worker
    <3> DEFINE q == [r EXCEPT !.pc = "finish"]
    <3>1. r.pc = "activating"
      BY <1>1 DEF Activated, At
    <3>2. /\ q \in Thread /\ q.pc = "finish" /\ q.version = r.version /\ q.todo = r.todo
          /\ q.text = r.text
      BY <1>0 DEF Thread, Pcs, Loaded
    <3>3. Knows(q, n, written)
      BY <1>0, <3>1, <3>2 DEF Knows, Loaded, Importing, Copied
    <3>4. th' = [th EXCEPT ![a] = q] /\ UNCHANGED <<doc, items, job, entry, vector, written>>
      BY <1>1, <2>1 DEF Activated, Goto, history
    <3> HIDE DEF q
    <3> QED
      BY <3>2, <3>3, <3>4, MoveOn
  <2>2. CASE a # Worker
    BY <1>0, <1>1, <2>2, RestStep DEF Activated, history
  <2> QED
    BY <2>1, <2>2
<1>2. CASE Outdate(a)
  <2> DEFINE T == {i \in ItemsOf(Versions \ {r.version}) : Shown(i)}
             q == [r EXCEPT !.pc = "hiding", !.todo = T]
  <2>1. T \in SUBSET Item /\ \A i \in T : Holds(i, n, written)
    <3>1. Versions \ {r.version} \in SUBSET Versions
      OBVIOUS
    <3> QED
      BY <3>1, ReadItems
  <2>2. UNCHANGED <<doc, items, job, entry, vector, written>>
    BY <1>2 DEF Outdate, history
  <2>3. th' = [th EXCEPT ![a] = q]
    BY <1>2 DEF Outdate
  <2> HIDE DEF T
  <2>4. q \in Thread /\ q.pc = "hiding" /\ q.version = r.version /\ q.todo = T
    BY <1>0, <2>1 DEF Thread, Pcs
  <2>5. Knows(q, n, written)
    BY <1>0, <2>1, <2>4 DEF Knows, Loaded, Importing, Copied
  <2> HIDE DEF q
  <2> QED
    BY <2>2, <2>3, <2>4, <2>5, MoveOn
<1>3. CASE Answered(a)
  BY <1>0, <1>3, RestStep DEF Answered, history
<1> QED
  BY <1>1, <1>2, <1>3

\* Progress and completion are saved over the text that was read: by the guard
\* of the save it is the text that stands.
LEMMA ProgressSteps ==
    ASSUME IInv, NEW a \in Actors, SaveProgress(a) \/ (a = Worker /\ Finish)
    PROVE  IInv'
<1> DEFINE n == doc.version
           r == th[a]
<1>0. /\ n \in Nat /\ n \in Numbers /\ r \in Thread /\ Knows(r, n, written)
      /\ doc \in [version : Numbers, text : Txt, expected : Nat, completed : Nat]
  BY Facts
<1>1. /\ r.version \in 1 .. n /\ r.text \in Texts /\ r.text = written[r.version]
      /\ r.copy = written[r.version]
  BY <1>0 DEF SaveProgress, Finish, At, Knows, Loaded, Importing, Copied
<1>2. Pieces[r.text] \in Nat
  BY <1>1, Chunked
\* the save, with a count of what is done, after which thread a is q
<1>3. ASSUME NEW k \in Nat, NEW q \in Thread, IsCurrent(a), q.version = r.version, q.text = r.text,
             q.todo = r.todo, q.pc \in {"chunk", "activate", "finalize"},
             SaveDocument(a, [doc EXCEPT !.text = r.copy, !.expected = Pieces[r.text], !.completed = k], q),
             UNCHANGED <<items, job, written>>
      PROVE  IInv'
  <2> DEFINE d == [doc EXCEPT !.text = r.copy, !.expected = Pieces[r.text], !.completed = k]
  <2>1. n = r.version /\ n # 0
    BY <1>0, <1>1, <1>3 DEF IsCurrent
  <2>2. /\ d \in [version : Numbers, text : Texts, expected : Nat, completed : Nat]
        /\ d.version = n /\ d.text = written[n]
    BY <1>0, <1>1, <1>2, <1>3, <2>1
  <2>3. Knows(q, n, written)
    BY <1>0, <1>1, <1>3 DEF Knows, Copied
  <2>4. SaveDocument(a, d, q)
    BY <1>3
  <2> HIDE DEF d
  <2>5. written' \in [Versions -> Txt] /\ Given(d.version, written') /\ d.text = written'[d.version]
    BY <1>3, <2>2 DEF IInv, Typed, Given
  <2>6. FirstParse'
    <3>1. doc'.version = n
      BY <2>2, <2>4 DEF SaveDocument
    <3>2. th'[Worker] = th[Worker] \/ th'[Worker].pc = q.pc
      BY <2>4, <1>3, InActors DEF SaveDocument, IInv, Typed, Thread
    <3> QED
      BY <1>3, <3>1, <3>2 DEF IInv, FirstParse
  <2> QED
    BY <1>0, <1>3, <2>1, <2>2, <2>3, <2>4, <2>5, <2>6, DocumentStep
<1>4. CASE ~IsCurrent(a)
  <2>1. Refused(a) /\ UNCHANGED <<doc, entry, vector>>
    BY <1>4 DEF SaveProgress, Finish
  <2>2. UNCHANGED <<items, job, written>>
    BY DEF SaveProgress, Finish, history
  <2> QED
    BY <2>1, <2>2, RefuseStep
<1>5. CASE IsCurrent(a) /\ SaveProgress(a)
  <2> DEFINE p == IF r.part < Pieces[r.text] THEN "chunk" ELSE "activate"
             q == [r EXCEPT !.pc = p, !.part = @ + 1]
  <2>0. p \in {"chunk", "activate"} /\ p \in Pcs
    BY DEF Pcs, Loaded
  <2>1. /\ q \in Thread /\ q.version = r.version /\ q.text = r.text /\ q.todo = r.todo
        /\ q.pc \in {"chunk", "activate", "finalize"} /\ r.part \in Nat
    <3> HIDE DEF p
    <3>1. r.part \in Nat /\ r.part + 1 \in Nat
      BY <1>0 DEF Thread
    <3>2. q.pc = p /\ q.version = r.version /\ q.text = r.text /\ q.todo = r.todo
      BY <1>0 DEF Thread
    <3>3. q \in Thread
      BY <1>0, <2>0, <3>1 DEF Thread
    <3> QED
      BY <2>0, <3>1, <3>2, <3>3
  <2>2. SaveDocument(a, [doc EXCEPT !.text = r.copy, !.expected = Pieces[r.text], !.completed = r.part], q)
    BY <1>5 DEF SaveProgress
  <2>3. UNCHANGED <<items, job, written>>
    BY <1>5 DEF SaveProgress, history
  <2> HIDE DEF q
  <2> QED
    BY <1>3, <1>5, <2>1, <2>2, <2>3
<1>6. CASE IsCurrent(a) /\ a = Worker /\ Finish
  <2> DEFINE q == [r EXCEPT !.pc = "finalize"]
  <2>1. /\ q \in Thread /\ q.version = r.version /\ q.text = r.text /\ q.todo = r.todo
        /\ q.pc \in {"chunk", "activate", "finalize"}
    BY <1>0 DEF Thread, Pcs, Loaded
  <2>2. SaveDocument(a, [doc EXCEPT !.text = r.copy, !.expected = Pieces[r.text],
                                    !.completed = Pieces[r.text]], q)
    BY <1>6 DEF Finish
  <2>3. UNCHANGED <<items, job, written>>
    BY <1>6 DEF Finish, history
  <2> HIDE DEF q
  <2> QED
    BY <1>2, <1>3, <1>6, <2>1, <2>2, <2>3
<1> QED
  BY <1>4, <1>5, <1>6

\* A version that did not exist is given its text with the save that makes it.
LEMMA VersionSteps ==
    ASSUME IInv, NEW a \in Actors, NEW x \in Texts,
           \/ a = Worker /\ ParseDocument(x)
           \/ a \in Editors /\ (Update(a, x) \/ ConfirmBrief(a, x))
    PROVE  IInv'
<1> DEFINE n == doc.version
           d == [version |-> n + 1, text |-> x, expected |-> 0, completed |-> 0]
<1>0. /\ n \in Nat /\ n \in Numbers /\ th[a] \in Thread /\ Knows(th[a], n, written)
  BY Facts
\* giving the next version its text, after which thread a is q
<1>1. ASSUME NEW q \in Thread, n + 1 \in Versions, q.version = n + 1, q.todo = {},
             q.pc \in {"bind", "outdate", "hiding"}, SaveDocument(a, d, q),
             written' = [written EXCEPT ![n + 1] = x], UNCHANGED <<items, job>>
      PROVE  IInv'
  <2>1. d \in [version : Numbers, text : Texts, expected : Nat, completed : Nat]
    BY <1>1, Bounds DEF Numbers, Versions
  <2>2. d.version = n + 1 /\ d.text = x
    OBVIOUS
  <2> HIDE DEF d
  <2>3. written' \in [Versions -> Txt] /\ written'[n + 1] = x /\ \A v \in 1 .. n : written'[v] = written[v]
    BY <1>0, <1>1, Bounds DEF IInv, Typed, Txt, Versions
  <2>4. Given(d.version, written')
    BY <1>0, <2>2, <2>3 DEF Given, IInv
  <2>5. Knows(q, d.version, written')
    BY <1>0, <1>1, <2>2 DEF Knows, Importing, Copied, Loaded
  <2>6. FirstParse'
    <3>1. th'[Worker] = th[Worker] \/ th'[Worker].pc = q.pc
      BY <1>1, InActors DEF SaveDocument, IInv, Typed, Thread
    <3>2. a = Worker => th'[Worker].pc = q.pc
      BY <1>1 DEF SaveDocument, IInv, Typed, Thread
    <3>3. a # Worker => n # 0
      BY <1>0 DEF Update, ConfirmBrief, NewVersion
    <3>4. n # 0 => ~(th[Worker].pc \in {"queued", "load"} /\ job.version = 0)
      BY DEF IInv, FirstParse
    <3> QED
      BY <1>1, <3>1, <3>2, <3>3, <3>4 DEF FirstParse
  <2>7. doc.version <= d.version /\ d.version # 0 /\ d.text = written'[d.version]
    BY <1>0, <2>2, <2>3
  <2>8. SaveDocument(a, d, q) /\ UNCHANGED <<items, job>>
    BY <1>1
  <2> QED
    BY <1>1, <2>1, <2>3, <2>4, <2>5, <2>6, <2>7, <2>8, DocumentStep
<1>2. CASE a = Worker /\ ParseDocument(x)
  <2> DEFINE q == [th[a] EXCEPT !.pc = "bind", !.version = 1]
  <2>1. n = 0 /\ th[a].pc = "load"
    BY <1>2 DEF ParseDocument, At, IInv, FirstParse
  <2>2. th[a].todo = {}
    BY <1>0, <2>1 DEF Knows, Holds
  <2>3. n + 1 = 1 /\ n + 1 \in Versions /\ n + 1 \in Numbers
    BY <2>1, Bounds DEF Versions, Numbers
  <2>4. q \in Thread /\ q.version = 1 /\ q.todo = {} /\ q.pc = "bind"
    BY <1>0, <2>2, <2>3 DEF Thread, Pcs, Loaded
  <2>5. SaveDocument(a, d, q) /\ written' = [written EXCEPT ![n + 1] = x] /\ UNCHANGED <<items, job>>
    BY <1>2, <2>3 DEF ParseDocument
  <2> HIDE DEF q, d
  <2> QED
    BY <1>1, <2>3, <2>4, <2>5
<1>3. ASSUME NEW p \in {"outdate", "hiding"}, NewVersion(a, x, p)
      PROVE  IInv'
  <2> DEFINE q == [Resting EXCEPT !.pc = p, !.version = n + 1]
  <2>1. n + 1 \in Versions /\ n + 1 \in Numbers
    BY <1>0, <1>3, Bounds DEF NewVersion, Versions, Numbers
  <2>2. Resting \in Thread /\ Resting.todo = {}
    BY <1>0, RestingKnows DEF Resting
  <2>3. q \in Thread /\ q.version = n + 1 /\ q.todo = {} /\ q.pc = p
    BY <1>3, <2>1, <2>2 DEF Thread, Pcs
  <2>4. SaveDocument(a, d, q) /\ written' = [written EXCEPT ![n + 1] = x] /\ UNCHANGED <<items, job>>
    BY <1>3 DEF NewVersion
  <2> HIDE DEF q, d
  <2> QED
    BY <1>1, <1>3, <2>1, <2>3, <2>4
<1> QED
  BY <1>2, <1>3 DEF Update, ConfirmBrief

\* The provider's answer is adopted only for the text the entry stands for.
LEMMA EmbedStep ==
    ASSUME IInv, NEW a \in Actors, Embed(a)
    PROVE  IInv'
<1> DEFINE n == doc.version
           q == [th[a] EXCEPT !.work = NoText]
<1>0. n \in Nat /\ n \in Numbers /\ th[a] \in Thread /\ Knows(th[a], n, written)
  BY Facts
<1>1. /\ q \in Thread /\ q.pc = th[a].pc /\ q.version = th[a].version /\ q.text = th[a].text
      /\ q.copy = th[a].copy /\ q.todo = th[a].todo /\ q.pick = th[a].pick
  BY <1>0 DEF Thread, Txt
<1>2. Knows(q, n, written)
  BY <1>0, <1>1 DEF Knows
<1>3. th' = [th EXCEPT ![a] = q] /\ UNCHANGED <<doc, items, job, written>>
  BY DEF Embed, history
<1> HIDE DEF q
<1>4. th' \in [Actors -> Thread] /\ th'[a] = q /\ \A b \in Actors \ {a} : th'[b] = th[b]
  BY <1>1, <1>3 DEF IInv, Typed
<1>5. ThreadsKnow'
  <2>1. Knows(th'[a], doc'.version, written')
    BY <1>2, <1>3, <1>4
  <2>2. doc'.version = n
    BY <1>3
  <2> QED
    BY <1>0, <1>3, <1>4, <2>1, <2>2, OthersKnow DEF IInv
<1>6. FirstParse'
  <2>1. th'[Worker].pc = th[Worker].pc
    BY <1>1, <1>4, InActors
  <2> QED
    BY <1>3, <2>1 DEF IInv, FirstParse
<1>7. /\ entry' \in [state : EntryStates, hash : Txt] /\ vector' \in Txt
      /\ entry'.hash = entry.hash /\ (entry'.state = "ready" => vector' = entry'.hash)
  <2>0. entry \in [state : EntryStates, hash : Txt] /\ vector \in Txt /\ th[a].work \in Txt
    BY <1>0 DEF IInv, Typed, Thread
  <2>1. CASE UNCHANGED <<entry, vector>>
    BY <2>0, <2>1 DEF IInv, IndexTrue
  <2>2. CASE entry.hash = th[a].work /\ entry' = [entry EXCEPT !.state = "ready"] /\ vector' = th[a].work
    BY <2>0, <2>2 DEF EntryStates
  <2>3. CASE entry' = [entry EXCEPT !.state = "failed"] /\ UNCHANGED vector
    BY <2>0, <2>3 DEF EntryStates
  <2> QED
    BY <2>1, <2>2, <2>3 DEF Embed
<1>8. Typed'
  BY <1>3, <1>4, <1>7 DEF IInv, Typed
<1>9. Given(doc.version, written)' /\ DocTrue' /\ ItemsTrue' /\ IndexTrue'
  BY <1>3, <1>7 DEF IInv, Given, DocTrue, ItemsTrue, IndexTrue
<1> QED
  BY <1>5, <1>6, <1>8, <1>9 DEF IInv

LEMMA ImportRequestStep ==
    ASSUME IInv, ImportRequest
    PROVE  IInv'
<1> DEFINE n == doc.version
           q == [Resting EXCEPT !.pc = "import", !.version = n]
<1>0. n \in Nat /\ n \in Numbers /\ Resting \in Thread /\ n # 0 /\ Importer \in Actors
  BY Facts, InActors, RestingKnows DEF ImportRequest
<1>1. q \in Thread /\ q.pc = "import" /\ q.version = n /\ q.todo = {}
  BY <1>0 DEF Thread, Pcs, Loaded, Resting
<1>2. Knows(q, n, written)
  BY <1>0, <1>1 DEF Knows, Importing, Copied
<1>3. th' = [th EXCEPT ![Importer] = q]
  BY DEF ImportRequest
<1>4. UNCHANGED <<doc, items, job, entry, vector, written>>
  BY DEF ImportRequest
<1> HIDE DEF q
<1> QED
  BY <1>0, <1>1, <1>2, <1>3, <1>4, MoveOn

LEMMA RestartStep ==
    ASSUME IInv, Restart
    PROVE  IInv'
<1>1. doc.version \in Nat
  BY Bounds DEF IInv, Typed, Numbers
<1>2. Resting \in Thread /\ Knows(Resting, doc.version, written)
  BY <1>1, RestingKnows
<1>3. th' = [a \in Actors |-> Resting] /\ UNCHANGED <<doc, items, job, entry, vector, written>>
  BY DEF Restart
<1>4. Typed' /\ ThreadsKnow'
  BY <1>2, <1>3 DEF IInv, Typed, ThreadsKnow
<1>5. FirstParse'
  BY <1>3, InActors DEF FirstParse, Resting
<1>6. Given(doc.version, written)' /\ DocTrue' /\ ItemsTrue' /\ IndexTrue'
  BY <1>3 DEF IInv, Given, DocTrue, ItemsTrue, IndexTrue
<1> QED
  BY <1>4, <1>5, <1>6 DEF IInv

----------------------------------------------------------------------------

\* Before the upload there is nothing; a draft is stored with its text.
LEMMA InitIInv == Init => IInv
<1> SUFFICES ASSUME Init PROVE IInv
  OBVIOUS
<1>1. doc.version \in {0, 1} /\ doc.version \in Numbers /\ doc.version \in Nat
  BY Bounds DEF Init, Numbers
<1>2. Resting \in Thread /\ Knows(Resting, doc.version, written)
  BY <1>1, RestingKnows
<1>3. th \in [Actors -> Thread] /\ ThreadsKnow /\ FirstParse
  BY <1>2, InActors DEF Init, ThreadsKnow, FirstParse, Resting
<1>4. items \in [Versions -> [Parts -> [status : ItemStates, text : Txt]]] /\ ItemsTrue
  BY DEF Init, NoItem, ItemStates, Txt, ItemsTrue
<1>5. job \in [status : JobStates, version : Numbers]
  BY Bounds DEF Init, JobStates, Numbers
<1>6. /\ doc \in [version : Numbers, text : Txt, expected : Nat, completed : Nat]
      /\ entry \in [state : EntryStates, hash : Txt] /\ vector \in Txt
      /\ written \in [Versions -> Txt]
      /\ Given(doc.version, written) /\ DocTrue /\ IndexTrue
  <2>1. CASE /\ doc = [version |-> 0, text |-> NoText, expected |-> 0, completed |-> 0]
             /\ written = Unwritten
             /\ entry = [state |-> "missing", hash |-> NoText] /\ vector = NoText
    BY <2>1, Bounds DEF Numbers, Txt, EntryStates, Unwritten, Given, DocTrue, IndexTrue
  <2>2. ASSUME NEW x \in Texts,
               doc = [version |-> 1, text |-> x, expected |-> 0, completed |-> 0],
               written = [Unwritten EXCEPT ![1] = x],
               \/ entry = [state |-> "ready", hash |-> x] /\ vector = x
               \/ entry = [state |-> "failed", hash |-> x] /\ vector = NoText
        PROVE  /\ doc \in [version : Numbers, text : Txt, expected : Nat, completed : Nat]
               /\ entry \in [state : EntryStates, hash : Txt] /\ vector \in Txt
               /\ written \in [Versions -> Txt]
               /\ Given(doc.version, written) /\ DocTrue /\ IndexTrue
    <3>1. 1 \in Versions /\ written[1] = x /\ written \in [Versions -> Txt]
      BY <2>2, Bounds DEF Versions, Unwritten, Txt
    <3>2. \A v \in 1 .. 1 : v = 1
      OBVIOUS
    <3> QED
      BY <2>2, <3>1, <3>2, Bounds DEF Numbers, Txt, EntryStates, Given, DocTrue, IndexTrue
  <2> QED
    BY <2>1, <2>2 DEF Init
<1> QED
  BY <1>3, <1>4, <1>5, <1>6 DEF IInv, Typed

LEMMA ImportSteps ==
    ASSUME IInv, NEW a \in Actors, ImportStep(a)
    PROVE  IInv'
  BY ImportReadSteps, ProgressSteps, ItemSteps, EndSteps DEF ImportStep

LEMMA NextIInv == IInv /\ [Next]_vars => IInv'
<1> SUFFICES ASSUME IInv, [Next]_vars PROVE IInv'
  OBVIOUS
<1>1. CASE Upload \/ Shutdown \/ Rerun \/ JobBreaks
  BY <1>1, SubmitSteps
<1>2. CASE JobStep
  <2>1. CASE StartJob \/ FailJob \/ JobFailed
    BY <2>1, SubmitSteps
  <2>2. CASE LoadDocument \/ BindJob \/ ReadForSummary \/ ReadToFinish \/ Finalize
    BY <2>2, JobReadSteps
  <2>3. CASE SaveSummary \/ HideItem(Worker)
    BY <2>3, ItemSteps, InActors
  <2>4. CASE Finish
    BY <2>4, ProgressSteps, InActors
  <2>5. CASE \E x \in Texts : ParseDocument(x)
    BY <2>5, VersionSteps, InActors
  <2>6. CASE ImportStep(Worker) \/ Embed(Worker)
    BY <2>6, ImportSteps, EmbedStep, InActors
  <2> QED
    BY <1>2, <2>1, <2>2, <2>3, <2>4, <2>5, <2>6 DEF JobStep
<1>3. CASE ImportRequest \/ ImportStep(Importer) \/ Embed(Importer)
  BY <1>3, ImportRequestStep, ImportSteps, EmbedStep, InActors
<1>4. ASSUME NEW e \in Editors, EditStep(e) PROVE IInv'
  <2>1. e \in Actors
    BY InActors
  <2>2. CASE \E x \in Texts : Update(e, x) \/ ConfirmBrief(e, x)
    BY <2>1, <2>2, VersionSteps
  <2>3. CASE Outdate(e) \/ Answered(e)
    BY <2>1, <2>3, EndSteps
  <2>4. CASE HideItem(e) \/ Embed(e)
    BY <2>1, <2>4, ItemSteps, EmbedStep
  <2> QED
    BY <1>4, <2>2, <2>3, <2>4 DEF EditStep
<1>5. CASE Restart
  BY <1>5, RestartStep
<1>6. CASE UNCHANGED vars
  BY <1>6 DEF vars, history, IInv, Typed, Given, DocTrue, ItemsTrue, IndexTrue, ThreadsKnow, FirstParse
<1> QED
  BY <1>1, <1>2, <1>3, <1>4, <1>5, <1>6 DEF Next

LEMMA IInvTextTrue == IInv => TextTrue
  BY DEF IInv, TextTrue, DocTrue, ItemsTrue, IndexTrue

\* For any number of editors, versions, texts, reruns and restarts: the document,
\* its items and the vector search may use never show a text that their version
\* was not given, whoever saves over whom (save_document_if_version,
\* VectorIndex.process).
THEOREM TextStaysTrue == Spec => []TextTrue
<1>1. Init => IInv
  BY InitIInv
<1>2. IInv /\ [Next]_vars => IInv'
  BY NextIInv
<1>3. IInv => TextTrue
  BY IInvTextTrue
<1> QED
  BY <1>1, <1>2, <1>3, PTL DEF Spec

----------------------------------------------------------------------------
(* What search sees.  Searchable needs to know where each thread is and    *)
(* what it still owes: the worker makes items of the first version only,   *)
(* whatever it makes active it completes or hides, and an import that      *)
(* overlaps it stages and counts again only what it will activate and      *)
(* count to the end.                                                       *)

OnItsWay == {"import", "save_progress", "chunk", "save_chunk", "progress", "activate"}
Activating == {"activating", "save_item"}

WorkerPlace(r, j) ==
    /\ r.pc # "outdate"
    /\ r.pc \in Loaded => r.version = 1 /\ j.version = IF r.pc = "bind" THEN 0 ELSE 1
    /\ j.status = "none" => r.pc = "idle"
    /\ j.status = "completed" => r.pc \in {"idle", "queued"}
ImporterPlace(r, m) ==
    /\ r.pc \in {"idle"} \cup OnItsWay \cup Activating
    /\ r.pc # "idle" => r.version \in m
EditorPlace(r) == r.pc \in {"idle", "outdate", "hiding"} /\ (r.pc # "idle" => r.version > 1)
\* of an import: the chunk it is at, and that its list is of its version
ImportPlace(r) ==
    /\ r.pc \in {"save_progress", "progress"} => r.part \in 0 .. Pieces[r.text]
    /\ r.pc \in {"chunk", "save_chunk"} => r.part \in 1 .. Pieces[r.text]
    /\ r.pc \in Activating => \A i \in r.todo : i.version = r.version
    /\ r.pc = "save_item" => r.pick.version = r.version
JobPlace ==
    /\ job.version \in {0, 1}
    /\ job.status = "none" => job.version = 0
    /\ job.status = "completed" => job.version = 1
    /\ brief = "open" => job.status = "none" /\ doc.version # 0

Placement ==
    /\ JobPlace
    /\ WorkerPlace(th[Worker], job) /\ ImportPlace(th[Worker])
    /\ ImporterPlace(th[Importer], manual) /\ ImportPlace(th[Importer])
    /\ \A e \in Editors : EditorPlace(th[e])

Only(a) == \A b \in Actors \ {a} : th'[b] = th[b]
Passes(a, p) ==
    /\ Only(a) /\ th'[a].pc = p
    /\ th'[a].version = th[a].version /\ th'[a].text = th[a].text /\ th'[a].part = th[a].part
    /\ th'[a].todo = th[a].todo /\ th'[a].pick = th[a].pick
Rests(a) == Only(a) /\ th'[a] = Resting

LEMMA WorkerPlaced ==
    ASSUME Placement, Only(Worker), manual' = manual, JobPlace',
           WorkerPlace(th'[Worker], job'), ImportPlace(th'[Worker])
    PROVE  Placement'
<1>1. th'[Importer] = th[Importer] /\ \A e \in Editors : th'[e] = th[e]
  BY Threads DEF Only, Actors
<1> QED
  BY <1>1 DEF Placement

LEMMA ImporterPlaced ==
    ASSUME Placement, Only(Importer), job' = job, JobPlace',
           ImporterPlace(th'[Importer], manual'), ImportPlace(th'[Importer])
    PROVE  Placement'
<1>1. th'[Worker] = th[Worker] /\ \A e \in Editors : th'[e] = th[e]
  BY Threads DEF Only, Actors
<1> QED
  BY <1>1 DEF Placement

LEMMA EditorPlaced ==
    ASSUME Placement, NEW e \in Editors, Only(e), job' = job, manual' = manual, JobPlace',
           EditorPlace(th'[e])
    PROVE  Placement'
<1>1. th'[Worker] = th[Worker] /\ th'[Importer] = th[Importer]
  BY Threads DEF Only, Actors
<1>2. \A f \in Editors : f # e => th'[f] = th[f]
  BY DEF Only, Actors
<1> QED
  BY <1>1, <1>2 DEF Placement

LEMMA GotoPasses ==
    ASSUME IInv, NEW a \in Actors, NEW p,
           \/ Goto(a, p)
           \/ \E x : th' = [th EXCEPT ![a].pc = p, ![a].copy = x]
    PROVE  Passes(a, p)
<1>1. th \in [Actors -> Thread] /\ th[a] \in Thread
  BY DEF IInv, Typed
<1>2. CASE Goto(a, p)
  BY <1>1, <1>2 DEF Goto, Passes, Only, Thread
<1>3. ASSUME NEW x, th' = [th EXCEPT ![a].pc = p, ![a].copy = x] PROVE Passes(a, p)
  BY <1>1, <1>3 DEF Passes, Only, Thread
<1> QED
  BY <1>2, <1>3

LEMMA RestingRests ==
    ASSUME IInv, NEW a \in Actors, th' = [th EXCEPT ![a] = Resting]
    PROVE  Rests(a)
  BY DEF IInv, Typed, Rests, Only

LEMMA RefusedShape ==
    ASSUME IInv, NEW a \in Actors, Refused(a)
    PROVE  IF a = Worker THEN Passes(a, "fail") ELSE Rests(a)
<1>1. CASE a = Worker
  <2>1. th' = [th EXCEPT ![a] = [@ EXCEPT !.pc = "fail"]]
    BY <1>1 DEF Refused
  <2>2. th \in [Actors -> Thread] /\ th[a] \in Thread
    BY DEF IInv, Typed
  <2>3. Passes(a, "fail")
    BY <2>1, <2>2 DEF Passes, Only, Thread
  <2> QED
    BY <1>1, <2>3
<1>2. CASE a # Worker
  BY <1>2, RestingRests DEF Refused
<1> QED
  BY <1>1, <1>2

\* after a save of the document the thread is at p
LEMMA SaveShape ==
    ASSUME IInv, NEW a \in Actors, NEW d, NEW r \in Thread, SaveDocument(a, d, r)
    PROVE  /\ Only(a) /\ doc' = d
           /\ th'[a].pc = r.pc /\ th'[a].version = r.version /\ th'[a].text = r.text
           /\ th'[a].part = r.part /\ th'[a].todo = r.todo /\ th'[a].pick = r.pick
           /\ th'[a].work = Work(d.text)
  BY DEF SaveDocument, IInv, Typed, Only, Thread

\* An import goes through its chunks.
LEMMA PassesPlaced ==
    ASSUME NEW a, NEW p, Passes(a, p), ImportPlace(th[a]),
           Pieces[th[a].text] \in Nat \/ th[a].pc \notin {"chunk", "save_chunk"},
           \/ p \notin {"save_progress", "progress", "chunk", "save_chunk"} \cup Activating
           \/ <<th[a].pc, p>> \in {<<"save_chunk", "progress">>, <<"progress", "save_progress">>,
                                   <<"chunk", "save_chunk">>}
    PROVE  ImportPlace(th'[a])
<1>1. CASE p \notin {"save_progress", "progress", "chunk", "save_chunk"} \cup Activating
  BY <1>1 DEF Passes, ImportPlace, Activating
<1>2. CASE th[a].pc = "save_chunk" /\ p = "progress"
  BY <1>2 DEF Passes, ImportPlace, Activating
<1>3. CASE th[a].pc = "progress" /\ p = "save_progress"
  BY <1>3 DEF Passes, ImportPlace, Activating
<1>4. CASE th[a].pc = "chunk" /\ p = "save_chunk"
  BY <1>4 DEF Passes, ImportPlace, Activating
<1> QED
  BY <1>1, <1>2, <1>3, <1>4

LEMMA RestingPlaced ==
    /\ ImportPlace(Resting) /\ EditorPlace(Resting) /\ \A m : ImporterPlace(Resting, m)
    /\ \A j : WorkerPlace(Resting, j)
  BY DEF ImportPlace, EditorPlace, ImporterPlace, WorkerPlace, Resting, Loaded, Activating, OnItsWay

LEMMA SubmitPlaced ==
    ASSUME IInv, Placement,
           Upload \/ Shutdown \/ StartJob \/ Rerun \/ JobBreaks \/ FailJob \/ JobFailed
    PROVE  Placement'
<1>0. /\ Worker \in Actors /\ JobPlace /\ WorkerPlace(th[Worker], job) /\ ImportPlace(th[Worker])
      /\ manual' = manual /\ job \in [status : JobStates, version : Numbers] /\ th[Worker] \in Thread
  BY InActors DEF Placement, Upload, Shutdown, StartJob, Rerun, JobBreaks, FailJob, JobFailed, history,
     IInv, Typed
<1>1. ASSUME NEW p \in {"queued", "load", "fail"}, Passes(Worker, p), JobPlace',
             job'.status # "none", job'.status = "completed" => p = "queued"
      PROVE  Placement'
  <2>1. ImportPlace(th'[Worker])
    BY <1>0, <1>1 DEF Passes, ImportPlace, Activating
  <2>2. WorkerPlace(th'[Worker], job')
    BY <1>1 DEF Passes, WorkerPlace, Loaded
  <2> QED
    BY <1>0, <1>1, <2>1, <2>2, WorkerPlaced DEF Passes
<1>2. ASSUME Rests(Worker), JobPlace' PROVE Placement'
  BY <1>0, <1>2, RestingPlaced, WorkerPlaced DEF Rests
<1>3. CASE Upload
  <2>1. PICK p \in {"queued", "fail"} : Goto(Worker, p)
    BY <1>3 DEF Upload
  <2>2. job'.status = "queued" /\ job'.version = 0 /\ UNCHANGED <<brief, doc>> /\ doc.version = 0
    BY <1>3 DEF Upload
  <2> QED
    BY <1>0, <1>1, <2>1, <2>2, GotoPasses DEF JobPlace
<1>4. CASE Shutdown
  <2>1. job.status = "queued" /\ UNCHANGED <<brief, doc, job>> /\ Goto(Worker, "fail")
    BY <1>4 DEF Shutdown
  <2> QED
    BY <1>0, <1>1, <2>1, GotoPasses DEF JobPlace
<1>5. CASE StartJob
  <2>1. CASE th' = [th EXCEPT ![Worker] = Resting] /\ UNCHANGED job
    BY <1>0, <1>2, <1>5, <2>1, RestingRests DEF StartJob, JobPlace
  <2>2. CASE job' = [job EXCEPT !.status = "running"] /\ Goto(Worker, "load")
    <3>1. job'.status = "running" /\ job'.version = job.version /\ job.status # "none"
      BY <1>0, <1>5, <2>2 DEF WorkerPlace, StartJob, At
    <3>2. JobPlace'
      BY <1>0, <1>5, <3>1 DEF StartJob, JobPlace
    <3> QED
      BY <1>0, <1>1, <2>2, <3>1, <3>2, GotoPasses
  <2> QED
    BY <1>5, <2>1, <2>2 DEF StartJob
<1>6. CASE Rerun
  <2>1. job.status # "none" /\ UNCHANGED <<brief, doc, job>> /\ Goto(Worker, "queued")
    BY <1>6 DEF Rerun
  <2> QED
    BY <1>0, <1>1, <2>1, GotoPasses DEF JobPlace
<1>7. CASE JobBreaks
  <2>1. UNCHANGED <<brief, doc, job>> /\ Goto(Worker, "fail") /\ th[Worker].pc \notin {"idle", "queued"}
    BY <1>7 DEF JobBreaks
  <2>2. job.status \notin {"none", "completed"}
    BY <1>0, <2>1 DEF WorkerPlace
  <2> QED
    BY <1>0, <1>1, <2>1, <2>2, GotoPasses DEF JobPlace
<1>8. CASE FailJob
  <2> DEFINE T == {i \in ItemsOf({job.version} \ {0}) : Shown(i)}
  <2>1. th' = [th EXCEPT ![Worker] = [Resting EXCEPT !.pc = "hiding", !.todo = T]]
    BY <1>8 DEF FailJob
  <2> HIDE DEF T
  <2>2. Only(Worker) /\ th'[Worker].pc = "hiding"
    BY <1>0, <2>1 DEF IInv, Typed, Only, Resting
  <2>3. UNCHANGED <<brief, doc, job>> /\ job.status \notin {"none", "completed"}
    BY <1>0, <1>8 DEF FailJob, At, WorkerPlace
  <2>4. WorkerPlace(th'[Worker], job') /\ ImportPlace(th'[Worker]) /\ JobPlace'
    BY <1>0, <2>2, <2>3 DEF WorkerPlace, ImportPlace, JobPlace, Activating, Loaded
  <2> QED
    BY <1>0, <2>2, <2>4, WorkerPlaced
<1>9. CASE JobFailed
  <2>1. job'.status = "failed" /\ job'.version = job.version
    BY <1>0, <1>9 DEF JobFailed
  <2>2. UNCHANGED <<brief, doc>> /\ Rests(Worker) /\ job.status # "none"
    BY <1>0, <1>9, RestingRests DEF JobFailed, At, WorkerPlace
  <2> QED
    BY <1>0, <1>2, <2>1, <2>2 DEF JobPlace
<1> QED
  BY <1>3, <1>4, <1>5, <1>6, <1>7, <1>8, <1>9

\* The worker makes the first version or works on the one it is bound to.
LEMMA JobPlaced ==
    ASSUME IInv, Placement,
           \/ LoadDocument \/ BindJob \/ ReadForSummary \/ SaveSummary \/ ReadToFinish
           \/ Finish \/ Finalize \/ HideItem(Worker) \/ \E x \in Texts : ParseDocument(x)
    PROVE  Placement'
<1> DEFINE r == th[Worker]
<1>0. /\ Worker \in Actors /\ JobPlace /\ WorkerPlace(r, job) /\ ImportPlace(r) /\ r \in Thread
      /\ manual' = manual /\ brief' = brief /\ job \in [status : JobStates, version : Numbers]
      /\ th \in [Actors -> Thread]
  BY InActors DEF Placement, LoadDocument, BindJob, ReadForSummary, SaveSummary, ReadToFinish,
     Finish, Finalize, HideItem, ParseDocument, history, IInv, Typed
<1>1. ASSUME NEW p \in {"fail", "summary", "save_summary", "import", "save_finish", "finalize"},
             Passes(Worker, p), UNCHANGED <<job, doc>>, r.pc \in Loaded, p # "fail" => r.pc # "bind"
      PROVE  Placement'
  <2>1. ImportPlace(th'[Worker])
    BY <1>0, <1>1 DEF Passes, ImportPlace, Activating
  <2>2. WorkerPlace(th'[Worker], job') /\ JobPlace'
    BY <1>0, <1>1 DEF Passes, WorkerPlace, Loaded, JobPlace
  <2> QED
    BY <1>0, <1>1, <2>1, <2>2, WorkerPlaced DEF Passes
<1>2. ASSUME Refused(Worker), UNCHANGED <<job, doc>>, r.pc \in Loaded PROVE Placement'
  BY <1>0, <1>1, <1>2, RefusedShape
\* a bound or loaded document of version 1
<1>3. ASSUME NEW p \in {"summary", "bind"}, Only(Worker), th'[Worker].pc = p, th'[Worker].version = 1,
             JobPlace', job'.version = (IF p = "bind" THEN 0 ELSE 1), job'.status \notin {"none", "completed"}
      PROVE  Placement'
  <2>1. ImportPlace(th'[Worker])
    BY <1>3 DEF ImportPlace, Activating
  <2>2. WorkerPlace(th'[Worker], job')
    BY <1>3 DEF WorkerPlace, Loaded
  <2> QED
    BY <1>0, <1>3, <2>1, <2>2, WorkerPlaced
<1>4. CASE LoadDocument
  <2>1. r.pc = "load" /\ job.version = 1 /\ UNCHANGED <<job, doc>> /\ job.status \notin {"none", "completed"}
    BY <1>0, <1>4 DEF LoadDocument, At, history, JobPlace, WorkerPlace
  <2>2. JobPlace'
    BY <1>0, <2>1 DEF JobPlace
  <2>3. CASE doc.version = job.version
    <3>1. th' = [th EXCEPT ![Worker].pc = "summary", ![Worker].version = doc.version]
      BY <1>4, <2>3 DEF LoadDocument
    <3>2. Only(Worker) /\ th'[Worker].pc = "summary" /\ th'[Worker].version = 1
      BY <1>0, <2>1, <2>3, <3>1 DEF Only, Thread
    <3> QED
      BY <1>3, <2>1, <2>2, <3>2
  <2>4. CASE doc.version # job.version
    <3>1. Passes(Worker, "fail")
      BY <1>0, <1>4, <2>4, RefusedShape DEF LoadDocument
    <3>2. ImportPlace(th'[Worker]) /\ WorkerPlace(th'[Worker], job')
      BY <2>1, <3>1 DEF Passes, ImportPlace, WorkerPlace, Activating, Loaded
    <3> QED
      BY <1>0, <2>2, <3>1, <3>2, WorkerPlaced DEF Passes
  <2> QED
    BY <2>3, <2>4
<1>5. CASE BindJob
  <2>1. r.pc = "bind" /\ r.version = 1 /\ job.status \notin {"none", "completed"}
    BY <1>0, <1>5 DEF BindJob, At, WorkerPlace, Loaded
  <2>2. job'.version = 1 /\ job'.status = job.status /\ doc' = doc /\ Passes(Worker, "summary")
    BY <1>0, <1>5, <2>1, GotoPasses DEF BindJob
  <2> QED
    BY <1>0, <1>3, <2>1, <2>2 DEF JobPlace, Passes
<1>6. CASE ReadForSummary \/ ReadToFinish
  <2>1. r.pc \in Loaded \ {"bind"} /\ UNCHANGED <<job, doc>>
    BY <1>6 DEF ReadForSummary, ReadToFinish, At, Loaded
  <2>2. CASE IsCurrent(Worker)
    <3>1. PICK p \in {"save_summary", "save_finish"} :
            th' = [th EXCEPT ![Worker].pc = p, ![Worker].copy = doc.text]
      BY <1>6, <2>2 DEF ReadForSummary, ReadToFinish
    <3> QED
      BY <1>0, <1>1, <2>1, <3>1, GotoPasses
  <2>3. CASE ~IsCurrent(Worker)
    BY <1>2, <1>6, <2>1, <2>3 DEF ReadForSummary, ReadToFinish
  <2> QED
    BY <2>2, <2>3
<1>7. CASE SaveSummary
  <2>1. r.pc \in Loaded \ {"bind"} /\ UNCHANGED <<job, doc>> /\ Goto(Worker, "import")
    BY <1>7 DEF SaveSummary, At, Loaded
  <2> QED
    BY <1>0, <1>1, <2>1, GotoPasses
<1>8. CASE Finish
  <2>1. r.pc = "save_finish" /\ job' = job
    BY <1>8 DEF Finish, At
  <2>2. CASE IsCurrent(Worker) /\ ~Refused(Worker)
    <3> DEFINE N == Pieces[r.text]
               d == [doc EXCEPT !.text = r.copy, !.expected = N, !.completed = N]
               q == [r EXCEPT !.pc = "finalize"]
    <3>1. SaveDocument(Worker, d, q)
      BY <1>8, <2>2 DEF Finish
    <3>2. q \in Thread /\ q.pc = "finalize" /\ q.version = r.version
      BY <1>0 DEF Thread, Pcs, Loaded
    <3>3. d.version = doc.version
      BY DEF IInv, Typed
    <3> HIDE DEF d, q
    <3>4. Only(Worker) /\ th'[Worker].pc = "finalize" /\ th'[Worker].version = r.version
          /\ doc'.version = doc.version
      BY <1>0, <3>1, <3>2, <3>3, SaveShape
    <3>5. JobPlace' /\ WorkerPlace(th'[Worker], job') /\ ImportPlace(th'[Worker])
      BY <1>0, <2>1, <3>4 DEF JobPlace, WorkerPlace, ImportPlace, Loaded, Activating
    <3> QED
      BY <1>0, <3>4, <3>5, WorkerPlaced
  <2>3. CASE Refused(Worker) /\ UNCHANGED doc
    BY <1>2, <2>1, <2>3 DEF Loaded
  <2>4. CASE IsCurrent(Worker) /\ Refused(Worker)
    <3>1. Passes(Worker, "fail")
      BY <1>0, <2>4, RefusedShape
    <3>2. doc'.version = doc.version
      BY <1>8 DEF Finish, SaveDocument, IInv, Typed
    <3>3. JobPlace' /\ WorkerPlace(th'[Worker], job') /\ ImportPlace(th'[Worker])
      BY <1>0, <2>1, <3>1, <3>2 DEF JobPlace, WorkerPlace, ImportPlace, Passes, Loaded, Activating
    <3> QED
      BY <1>0, <3>1, <3>3, WorkerPlaced DEF Passes
  <2> QED
    BY <1>8, <2>2, <2>3, <2>4 DEF Finish
<1>9. CASE Finalize
  <2>1. r.pc = "finalize" /\ doc' = doc
    BY <1>9 DEF Finalize, At
  <2>2. CASE job' = [status |-> "completed", version |-> r.version] /\ th' = [th EXCEPT ![Worker] = Resting]
    <3>1. Rests(Worker) /\ r.version = 1 /\ job.status # "none"
      BY <1>0, <2>1, <2>2, RestingRests DEF WorkerPlace, Loaded
    <3>2. JobPlace'
      BY <1>0, <2>1, <2>2, <3>1 DEF JobPlace
    <3> QED
      BY <1>0, <3>1, <3>2, RestingPlaced, WorkerPlaced DEF Rests
  <2>3. CASE Refused(Worker) /\ UNCHANGED job
    BY <1>2, <2>1, <2>3 DEF Loaded
  <2> QED
    BY <1>9, <2>2, <2>3 DEF Finalize
<1>10. CASE HideItem(Worker)
  <2>1. Only(Worker) /\ th'[Worker].pc = "hiding" /\ UNCHANGED <<job, doc>> /\ r.pc = "hiding"
    BY <1>0, <1>10 DEF HideItem, At, Only, Thread
  <2>2. JobPlace' /\ WorkerPlace(th'[Worker], job') /\ ImportPlace(th'[Worker])
    BY <1>0, <2>1 DEF JobPlace, WorkerPlace, ImportPlace, Loaded, Activating
  <2> QED
    BY <1>0, <2>1, <2>2, WorkerPlaced
<1>11. ASSUME NEW x \in Texts, ParseDocument(x) PROVE Placement'
  <2> DEFINE q == [r EXCEPT !.pc = "bind", !.version = 1]
             d == [version |-> 1, text |-> x, expected |-> 0, completed |-> 0]
  <2>1. SaveDocument(Worker, d, q) /\ job' = job /\ job.version = 0 /\ r.pc = "load"
    BY <1>11 DEF ParseDocument, At
  <2>0. 1 \in Numbers
    BY Bounds DEF Numbers
  <2>2. q \in Thread /\ q.pc = "bind" /\ q.version = 1
    BY <1>0, <2>0 DEF Thread, Pcs, Loaded
  <2>3. d.version = 1
    OBVIOUS
  <2> HIDE DEF d, q
  <2>4. Only(Worker) /\ th'[Worker].pc = "bind" /\ th'[Worker].version = 1 /\ doc'.version = 1
    BY <1>0, <2>1, <2>2, <2>3, SaveShape
  <2>5. JobPlace' /\ job'.status \notin {"none", "completed"}
    BY <1>0, <2>1, <2>4 DEF JobPlace, WorkerPlace
  <2> QED
    BY <1>3, <2>1, <2>4, <2>5
<1> QED
  BY <1>4, <1>5, <1>6, <1>7, <1>8, <1>9, <1>10, <1>11

\* What a step of an import leaves its thread with.
LEMMA ImporterGoes ==
    ASSUME IInv, Placement, NEW a \in {Worker, Importer}, Only(a),
           UNCHANGED <<job, brief, manual>>, doc'.version = doc.version,
           th[a].pc \in OnItsWay \cup Activating, th'[a].version = th[a].version,
           \/ th'[a].pc \in OnItsWay \cup Activating
           \/ th'[a].pc \in {"fail", "finish"} /\ a = Worker,
           ImportPlace(th'[a])
    PROVE  Placement'
<1>1. JobPlace'
  BY DEF Placement, JobPlace
<1>2. CASE a = Worker
  <2>1. WorkerPlace(th'[Worker], job')
    BY <1>2 DEF Placement, WorkerPlace, Loaded, OnItsWay, Activating
  <2> QED
    BY <1>1, <1>2, <2>1, WorkerPlaced
<1>3. CASE a = Importer
  <2>1. ImporterPlace(th'[Importer], manual')
    BY <1>3, Threads DEF Placement, ImporterPlace, OnItsWay, Activating
  <2> QED
    BY <1>1, <1>3, <2>1, ImporterPlaced
<1> QED
  BY <1>2, <1>3

LEMMA ImporterRests ==
    ASSUME IInv, Placement, Rests(Importer), UNCHANGED <<job, brief, manual>>, doc'.version = doc.version
    PROVE  Placement'
<1>1. JobPlace'
  BY DEF Placement, JobPlace
<1> QED
  BY <1>1, RestingPlaced, ImporterPlaced DEF Rests

LEMMA RefusedPlaced ==
    ASSUME IInv, Placement, NEW a \in {Worker, Importer}, Refused(a),
           UNCHANGED <<job, brief, manual>>, doc'.version = doc.version,
           th[a].pc \in OnItsWay \cup Activating
    PROVE  Placement'
<1>1. a \in Actors
  BY InActors
<1>2. CASE a = Worker
  <2>1. Passes(a, "fail")
    BY <1>1, <1>2, RefusedShape
  <2>2. ImportPlace(th'[a])
    BY <2>1 DEF Passes, ImportPlace, Activating
  <2> QED
    BY <1>2, <2>1, <2>2, ImporterGoes DEF Passes
<1>3. CASE a = Importer
  BY <1>1, <1>3, Threads, RefusedShape, ImporterRests
<1> QED
  BY <1>2, <1>3

LEMMA ImportPlaced ==
    ASSUME IInv, Placement, NEW a \in {Worker, Importer}, ImportStep(a)
    PROVE  Placement'
<1> DEFINE r == th[a]
<1>0. /\ a \in Actors /\ r \in Thread /\ ImportPlace(r) /\ th \in [Actors -> Thread]
      /\ UNCHANGED <<job, brief, manual>>
  BY InActors DEF Placement, IInv, Typed, ImportStep, ReadToImport, SaveProgress, CheckForChunk, SaveChunk,
     ReadForProgress, Activate, CheckForItem, ActivateItem, Activated, history
<1>1. r.pc \in OnItsWay \cup Activating
  BY DEF ImportStep, ReadToImport, SaveProgress, CheckForChunk, SaveChunk, ReadForProgress, Activate,
     CheckForItem, ActivateItem, Activated, At, OnItsWay, Activating
<1>2. r.pc \in Importing => r.text \in Texts /\ Pieces[r.text] \in Nat
  BY <1>0, Chunked DEF IInv, ThreadsKnow, Knows
<1>3. ASSUME Refused(a), UNCHANGED doc PROVE Placement'
  BY <1>0, <1>1, <1>3, RefusedPlaced
\* going to p with the same version, text and chunk
<1>4. ASSUME NEW p \in OnItsWay, Passes(a, p), doc'.version = doc.version,
             \/ p = "activate"
             \/ <<r.pc, p>> \in {<<"save_chunk", "progress">>, <<"progress", "save_progress">>,
                                 <<"chunk", "save_chunk">>}
      PROVE  Placement'
  <2>1. ImportPlace(th'[a])
    BY <1>0, <1>2, <1>4, PassesPlaced DEF Activating, Importing
  <2> QED
    BY <1>0, <1>1, <1>4, <2>1, ImporterGoes DEF Passes
<1>5. CASE ReadToImport(a)
  <2>1. CASE IsCurrent(a)
    <3>1. th' = [th EXCEPT ![a] = [@ EXCEPT !.pc = "save_progress", !.text = doc.text, !.copy = doc.text,
                                            !.part = 0]] /\ doc' = doc
      BY <1>5, <2>1 DEF ReadToImport, history
    <3>2. /\ Only(a) /\ th'[a].pc = "save_progress" /\ th'[a].text = doc.text /\ th'[a].part = 0
          /\ th'[a].version = r.version
      BY <1>0, <3>1 DEF Only, Thread
    <3>3. doc.version # 0
      BY <1>0, <1>5, <2>1 DEF ReadToImport, At, IsCurrent, IInv, ThreadsKnow, Knows, Loaded
    <3>4. Pieces[doc.text] \in Nat
      BY <1>0, <3>3, Facts, Chunked
    <3>5. ImportPlace(th'[a])
      BY <3>2, <3>4 DEF ImportPlace, Activating
    <3> QED
      BY <1>0, <1>1, <3>1, <3>2, <3>5, ImporterGoes DEF OnItsWay
  <2>2. CASE ~IsCurrent(a)
    BY <1>3, <1>5, <2>2 DEF ReadToImport
  <2> QED
    BY <2>1, <2>2
<1>6. CASE SaveProgress(a)
  <2>1. CASE ~IsCurrent(a)
    BY <1>3, <1>6, <2>1 DEF SaveProgress
  <2>2. CASE IsCurrent(a)
    <3> DEFINE N == Pieces[r.text]
               p == IF r.part < N THEN "chunk" ELSE "activate"
               d == [doc EXCEPT !.text = r.copy, !.expected = N, !.completed = r.part]
               q == [r EXCEPT !.pc = p, !.part = @ + 1]
    <3>1. SaveDocument(a, d, q)
      BY <1>6, <2>2 DEF SaveProgress
    <3>2. r.pc = "save_progress" /\ N \in Nat /\ r.part \in 0 .. N
      BY <1>0, <1>2, <1>6 DEF SaveProgress, At, Importing, ImportPlace
    <3>3. p \in {"chunk", "activate"} /\ p \in Pcs /\ (p = "chunk" => r.part + 1 \in 1 .. N) /\ r.part + 1 \in Nat
      BY <3>2 DEF Pcs, Loaded
    <3>4. d.version = doc.version
      BY DEF IInv, Typed
    <3> HIDE DEF N, p, d
    <3>5. q.pc = p /\ q.version = r.version /\ q.text = r.text /\ q.part = r.part + 1
      BY <1>0 DEF Thread
    <3>6. q \in Thread
      BY <1>0, <3>3 DEF Thread
    <3> HIDE DEF q
    <3>7. /\ Only(a) /\ th'[a].pc = p /\ th'[a].version = r.version /\ th'[a].text = r.text
          /\ th'[a].part = r.part + 1 /\ doc'.version = doc.version
      BY <1>0, <3>1, <3>4, <3>5, <3>6, SaveShape
    <3>8. ImportPlace(th'[a])
      BY <3>3, <3>7 DEF ImportPlace, Activating, N
    <3> QED
      BY <1>0, <1>1, <3>3, <3>7, <3>8, ImporterGoes DEF OnItsWay
  <2> QED
    BY <2>1, <2>2
<1>7. CASE CheckForChunk(a)
  BY <1>0, <1>3, <1>4, <1>7, GotoPasses DEF CheckForChunk, At, OnItsWay
<1>8. CASE SaveChunk(a)
  BY <1>0, <1>4, <1>8, GotoPasses DEF SaveChunk, At, OnItsWay
<1>9. CASE ReadForProgress(a)
  <2>1. CASE IsCurrent(a)
    <3>1. Passes(a, "save_progress") /\ doc' = doc /\ r.pc = "progress"
      BY <1>0, <1>9, <2>1, GotoPasses DEF ReadForProgress, At
    <3> QED
      BY <1>4, <3>1 DEF OnItsWay
  <2>2. CASE ~IsCurrent(a)
    BY <1>3, <1>9, <2>2 DEF ReadForProgress
  <2> QED
    BY <2>1, <2>2
\* among the items of its list
<1>10. ASSUME Only(a), th'[a].pc \in Activating, th'[a].version = r.version, UNCHANGED doc,
              \A i \in th'[a].todo : i.version = r.version,
              th'[a].pc = "save_item" => th'[a].pick.version = r.version
       PROVE  Placement'
  <2>1. ImportPlace(th'[a])
    BY <1>10 DEF ImportPlace, Activating
  <2> QED
    BY <1>0, <1>1, <1>10, <2>1, ImporterGoes
<1>11. CASE Activate(a)
  <2> DEFINE T == ItemsOf({r.version})
  <2>1. \A i \in T : i.version = r.version
    BY DEF ItemsOf
  <2>2. th' = [th EXCEPT ![a].pc = "activating", ![a].todo = T] /\ doc' = doc
    BY <1>11 DEF Activate
  <2> HIDE DEF T
  <2>3. Only(a) /\ th'[a].pc = "activating" /\ th'[a].version = r.version /\ th'[a].todo = T
    BY <1>0, <2>2 DEF Only, Thread
  <2> QED
    BY <1>10, <2>1, <2>2, <2>3 DEF Activating
<1>12. CASE CheckForItem(a)
  <2>1. PICK i \in r.todo :
          IF IsCurrent(a)
          THEN th' = [th EXCEPT ![a].pc = "save_item", ![a].todo = @ \ {i}, ![a].pick = i]
          ELSE Refused(a)
    BY <1>12 DEF CheckForItem
  <2>2. CASE IsCurrent(a)
    <3>1. \A j \in r.todo : j.version = r.version
      BY <1>0, <1>12 DEF ImportPlace, CheckForItem, At, Activating
    <3>2. th' = [th EXCEPT ![a].pc = "save_item", ![a].todo = @ \ {i}, ![a].pick = i]
      BY <2>1, <2>2
    <3>3. /\ Only(a) /\ th'[a].pc = "save_item" /\ th'[a].version = r.version
          /\ th'[a].todo = r.todo \ {i} /\ th'[a].pick = i
      BY <1>0, <3>2 DEF Only, Thread
    <3> QED
      BY <1>10, <1>12, <3>1, <3>3 DEF Activating, CheckForItem
  <2>3. CASE ~IsCurrent(a)
    BY <1>3, <1>12, <2>1, <2>3 DEF CheckForItem
  <2> QED
    BY <2>2, <2>3
<1>13. CASE ActivateItem(a)
  <2>1. \A j \in r.todo : j.version = r.version
    BY <1>0, <1>13 DEF ImportPlace, ActivateItem, At, Activating
  <2>2. Only(a) /\ th'[a].pc = "activating" /\ th'[a].version = r.version /\ th'[a].todo = r.todo
    BY <1>0, <1>13 DEF ActivateItem, Only, Thread
  <2> QED
    BY <1>10, <1>13, <2>1, <2>2 DEF Activating, ActivateItem
<1>14. CASE Activated(a)
  <2>1. CASE a = Worker
    <3>1. Passes(a, "finish") /\ doc' = doc
      BY <1>0, <1>14, <2>1, GotoPasses DEF Activated
    <3>2. ImportPlace(th'[a])
      BY <3>1 DEF Passes, ImportPlace, Activating
    <3> QED
      BY <1>0, <1>1, <2>1, <3>1, <3>2, ImporterGoes DEF Passes
  <2>2. CASE a # Worker
    <3>1. Rests(Importer) /\ doc' = doc
      BY <1>0, <1>14, <2>2, RestingRests DEF Activated
    <3> QED
      BY <1>0, <3>1, ImporterRests
  <2> QED
    BY <2>1, <2>2
<1> QED
  BY <1>5, <1>6, <1>7, <1>8, <1>9, <1>11, <1>12, <1>13, <1>14 DEF ImportStep

LEMMA ImportRequestPlaced ==
    ASSUME IInv, Placement, ImportRequest
    PROVE  Placement'
<1>1. Importer \in Actors
  BY InActors
<1>2. th' = [th EXCEPT ![Importer].pc = "import", ![Importer].version = doc.version]
  BY DEF ImportRequest
<1>3. Only(Importer) /\ th'[Importer].pc = "import" /\ th'[Importer].version = doc.version
  BY <1>1, <1>2 DEF IInv, Typed, Only, Thread
<1>4. UNCHANGED <<job, brief, doc>> /\ manual' = manual \cup {doc.version}
  BY DEF ImportRequest
<1>5. JobPlace' /\ ImportPlace(th'[Importer]) /\ ImporterPlace(th'[Importer], manual')
  BY <1>3, <1>4 DEF Placement, JobPlace, ImportPlace, ImporterPlace, Activating, OnItsWay
<1> QED
  BY <1>3, <1>4, <1>5, ImporterPlaced

LEMMA EditPlaced ==
    ASSUME IInv, Placement, NEW e \in Editors,
           Outdate(e) \/ HideItem(e) \/ Answered(e) \/ \E x \in Texts : Update(e, x) \/ ConfirmBrief(e, x)
    PROVE  Placement'
<1>0. e \in Actors /\ th \in [Actors -> Thread] /\ UNCHANGED <<job, manual>> /\ EditorPlace(th[e]) /\ JobPlace
  BY InActors DEF IInv, Typed, Outdate, HideItem, Answered, Update, ConfirmBrief, NewVersion, history, Placement
<1>1. CASE Outdate(e)
  <2>1. /\ Only(e) /\ th'[e].pc = "hiding" /\ th'[e].version = th[e].version /\ th[e].pc = "outdate"
        /\ UNCHANGED <<doc, brief>>
    BY <1>0, <1>1 DEF Outdate, Only, Thread, At
  <2> QED
    BY <1>0, <2>1, EditorPlaced DEF EditorPlace, JobPlace
<1>2. CASE HideItem(e)
  <2>1. /\ Only(e) /\ th'[e].pc = "hiding" /\ th'[e].version = th[e].version /\ th[e].pc = "hiding"
        /\ UNCHANGED <<doc, brief>>
    BY <1>0, <1>2 DEF HideItem, Only, Thread, At
  <2> QED
    BY <1>0, <2>1, EditorPlaced DEF EditorPlace, JobPlace
<1>3. CASE Answered(e)
  <2>1. Rests(e) /\ UNCHANGED <<doc, brief>>
    BY <1>0, <1>3, RestingRests DEF Answered
  <2> QED
    BY <1>0, <2>1, RestingPlaced, EditorPlaced DEF Rests, JobPlace
<1>4. ASSUME NEW x \in Texts, Update(e, x) \/ ConfirmBrief(e, x) PROVE Placement'
  <2>1. PICK p \in {"outdate", "hiding"} : NewVersion(e, x, p) /\ (brief' = "open" => brief = "open")
    BY <1>4 DEF Update, ConfirmBrief
  <2> DEFINE d == [version |-> doc.version + 1, text |-> x, expected |-> 0, completed |-> 0]
             q == [Resting EXCEPT !.pc = p, !.version = doc.version + 1]
  <2>2. SaveDocument(e, d, q) /\ doc.version \in Nat /\ doc.version + 1 \in Numbers /\ doc.version # 0
    BY <2>1, Bounds DEF NewVersion, Numbers
  <2>3. q \in Thread /\ q.pc = p /\ q.version = doc.version + 1
    BY <2>1, <2>2, RestingKnows DEF Thread, Pcs, Resting
  <2>4. d.version = doc.version + 1
    OBVIOUS
  <2> HIDE DEF d, q
  <2>5. Only(e) /\ th'[e].pc = p /\ th'[e].version = doc.version + 1 /\ doc'.version = doc.version + 1
    BY <1>0, <2>2, <2>3, <2>4, SaveShape
  <2>6. JobPlace'
    BY <1>0, <2>1, <2>2, <2>5 DEF JobPlace
  <2>7. EditorPlace(th'[e])
    BY <2>1, <2>2, <2>5 DEF EditorPlace
  <2> QED
    BY <1>0, <2>5, <2>6, <2>7, EditorPlaced
<1> QED
  BY <1>1, <1>2, <1>3, <1>4

LEMMA EmbedShape ==
    ASSUME IInv, NEW a \in Actors, Embed(a)
    PROVE  /\ Passes(a, th[a].pc) /\ th'[a].work = NoText /\ th'[a].copy = th[a].copy
           /\ UNCHANGED <<doc, items, job, brief, manual, lost>>
  BY DEF IInv, Typed, Embed, Passes, Only, Thread, history

LEMMA EmbedPlaced ==
    ASSUME IInv, Placement, NEW a \in Actors, Embed(a)
    PROVE  Placement'
<1>1. Passes(a, th[a].pc) /\ UNCHANGED <<doc, job, brief, manual>>
  BY EmbedShape
<1>2. \A b \in Actors : /\ th'[b].pc = th[b].pc /\ th'[b].version = th[b].version /\ th'[b].text = th[b].text
                        /\ th'[b].part = th[b].part /\ th'[b].todo = th[b].todo /\ th'[b].pick = th[b].pick
  BY <1>1 DEF Passes, Only
<1>3. JobPlace' /\ WorkerPlace(th[Worker], job)' /\ ImporterPlace(th[Importer], manual)'
  BY <1>1, <1>2, InActors DEF Placement, JobPlace, WorkerPlace, ImporterPlace
<1>4. ImportPlace(th[Worker])' /\ ImportPlace(th[Importer])'
  BY <1>2, InActors DEF Placement, ImportPlace
<1>5. \A e \in Editors : EditorPlace(th[e])'
  BY <1>2, InActors DEF Placement, EditorPlace
<1> QED
  BY <1>3, <1>4, <1>5 DEF Placement

LEMMA PlacementInductive == IInv /\ Placement /\ [Next]_vars => Placement'
<1> SUFFICES ASSUME IInv, Placement, [Next]_vars PROVE Placement'
  OBVIOUS
<1>1. CASE Upload \/ Shutdown \/ Rerun \/ JobBreaks
  BY <1>1, SubmitPlaced
<1>2. CASE JobStep
  <2>1. CASE StartJob \/ FailJob \/ JobFailed
    BY <2>1, SubmitPlaced
  <2>2. CASE ImportStep(Worker) \/ Embed(Worker)
    BY <2>2, ImportPlaced, EmbedPlaced, InActors
  <2>3. CASE ~(StartJob \/ FailJob \/ JobFailed \/ ImportStep(Worker) \/ Embed(Worker))
    BY <1>2, <2>3, JobPlaced DEF JobStep
  <2> QED
    BY <2>1, <2>2, <2>3
<1>3. CASE ImportRequest \/ ImportStep(Importer) \/ Embed(Importer)
  BY <1>3, ImportRequestPlaced, ImportPlaced, EmbedPlaced, InActors
<1>4. ASSUME NEW e \in Editors, EditStep(e) PROVE Placement'
  BY <1>4, EditPlaced, EmbedPlaced, InActors DEF EditStep
<1>5. CASE Restart
  <2>1. th' = [a \in Actors |-> Resting] /\ UNCHANGED <<doc, job, brief, manual>>
    BY <1>5 DEF Restart
  <2>2. JobPlace'
    BY <2>1 DEF Placement, JobPlace
  <2> QED
    BY <2>1, <2>2, RestingPlaced, InActors DEF Placement
<1>6. CASE UNCHANGED vars
  BY <1>6 DEF vars, history, Placement, JobPlace
<1> QED
  BY <1>1, <1>2, <1>3, <1>4, <1>5, <1>6 DEF Next

LEMMA PlacementInit == Init => Placement
<1> SUFFICES ASSUME Init PROVE Placement
  OBVIOUS
<1>1. th = [a \in Actors |-> Resting] /\ job = [status |-> "none", version |-> 0]
  BY DEF Init
<1>2. JobPlace
  BY <1>1 DEF Init, JobPlace
<1> QED
  BY <1>1, <1>2, RestingPlaced, InActors DEF Placement

----------------------------------------------------------------------------
\* The record waits for a vector only while a thread is about to ask for it.
IndexServed ==
    doc.version # 0 => entry.state \in {"ready", "failed"} \/ \E a \in Actors : th[a].work = entry.hash

LEMMA ServedQuiet ==
    ASSUME IInv, IndexServed, UNCHANGED entry, doc.version = 0 => doc'.version = 0,
           \A b \in Actors : th[b].work # NoText => th'[b].work = th[b].work
    PROVE  IndexServed'
<1> SUFFICES ASSUME doc.version # 0, entry.state \notin {"ready", "failed"}
             PROVE  \E a \in Actors : th'[a].work = entry.hash
  BY DEF IndexServed
<1>1. PICK a \in Actors : th[a].work = entry.hash
  BY DEF IndexServed
<1>2. entry.hash \in Texts
  BY <1>1, Facts DEF IInv, IndexTrue
<1> QED
  BY <1>1, <1>2, Chunked

LEMMA ServedSave ==
    ASSUME IInv, NEW a \in Actors, NEW d, NEW r \in Thread, SaveDocument(a, d, r)
    PROVE  IndexServed'
<1>1. th'[a].work = Work(d.text)
  BY SaveShape
<1>2. CASE Indexed(d.text)
  BY <1>2 DEF SaveDocument, Prepare, Indexed, IndexServed
<1>3. CASE ~Indexed(d.text)
  <2>1. entry'.hash = d.text /\ th'[a].work = d.text
    BY <1>1, <1>3 DEF SaveDocument, Prepare, Work
  <2> QED
    BY <2>1 DEF IndexServed
<1> QED
  BY <1>2, <1>3

LEMMA ServedEmbed ==
    ASSUME IInv, IndexServed, NEW a \in Actors, Embed(a)
    PROVE  IndexServed'
<1>1. Only(a) /\ doc' = doc
  BY EmbedShape DEF Passes
<1>2. CASE UNCHANGED entry /\ (entry.hash # th[a].work \/ entry.state = "ready")
  BY <1>1, <1>2 DEF IndexServed, Only
<1>3. CASE entry'.state \in {"ready", "failed"}
  BY <1>3 DEF IndexServed
<1>4. entry \in [state : EntryStates, hash : Txt]
  BY DEF IInv, Typed
<1> QED
  BY <1>2, <1>3, <1>4 DEF Embed

\* The other steps of thread a are taken only when it has nothing to embed.
LEMMA ServedOther ==
    ASSUME IInv, IndexServed, NEW a \in Actors, Only(a), UNCHANGED <<entry, doc>>,
           th[a].work = NoText \/ th'[a].work = th[a].work
    PROVE  IndexServed'
<1>1. \A b \in Actors : th[b].work # NoText => th'[b].work = th[b].work
  BY DEF Only
<1> QED
  BY <1>1, ServedQuiet

LEMMA ServedImport ==
    ASSUME IInv, IndexServed, NEW a \in Actors, ImportStep(a)
    PROVE  IndexServed'
<1>0. th \in [Actors -> Thread] /\ th[a] \in Thread /\ th[a].work = NoText
  BY DEF IInv, Typed, ImportStep, ReadToImport, SaveProgress, CheckForChunk, SaveChunk, ReadForProgress,
     Activate, CheckForItem, ActivateItem, Activated, At
<1>1. ASSUME Refused(a), UNCHANGED <<doc, entry>> PROVE IndexServed'
  <2>1. Only(a)
    BY <1>1, RefusedShape DEF Passes, Rests
  <2> QED
    BY <1>0, <1>1, <2>1, ServedOther
<1>2. CASE SaveProgress(a)
  <2>1. CASE IsCurrent(a)
    <3> DEFINE N == Pieces[th[a].text]
               p == IF th[a].part < N THEN "chunk" ELSE "activate"
               d == [doc EXCEPT !.text = th[a].copy, !.expected = N, !.completed = th[a].part]
               q == [th[a] EXCEPT !.pc = p, !.part = @ + 1]
    <3>1. SaveDocument(a, d, q)
      BY <1>2, <2>1 DEF SaveProgress
    <3>2. p \in Pcs /\ th[a].part + 1 \in Nat
      BY <1>0 DEF Pcs, Loaded, Thread
    <3> HIDE DEF p, d
    <3>3. q \in Thread
      BY <1>0, <3>2 DEF Thread
    <3> QED
      BY <3>1, <3>3, ServedSave
  <2>2. CASE ~IsCurrent(a)
    BY <1>1, <1>2, <2>2 DEF SaveProgress
  <2> QED
    BY <2>1, <2>2
<1>3. CASE ReadToImport(a) \/ ReadForProgress(a)
  <2>1. CASE IsCurrent(a)
    BY <1>0, <1>3, <2>1, ServedOther DEF ReadToImport, ReadForProgress, Only
  <2>2. CASE ~IsCurrent(a)
    BY <1>1, <1>3, <2>2 DEF ReadToImport, ReadForProgress
  <2> QED
    BY <2>1, <2>2
<1>4. CASE CheckForChunk(a) \/ CheckForItem(a)
  <2>1. CASE IsCurrent(a)
    <3>1. Only(a)
      BY <1>0, <1>4, <2>1 DEF CheckForChunk, CheckForItem, Goto, Only
    <3> QED
      BY <1>0, <1>4, <3>1, ServedOther DEF CheckForChunk, CheckForItem
  <2>2. CASE ~IsCurrent(a)
    BY <1>1, <1>4, <2>2 DEF CheckForChunk, CheckForItem
  <2> QED
    BY <2>1, <2>2
<1>5. CASE SaveChunk(a) \/ Activate(a) \/ ActivateItem(a) \/ Activated(a)
  <2>1. Only(a) /\ UNCHANGED <<doc, entry>>
    BY <1>0, <1>5 DEF SaveChunk, Activate, ActivateItem, Activated, Goto, Only
  <2> QED
    BY <1>0, <2>1, ServedOther
<1> QED
  BY <1>2, <1>3, <1>4, <1>5 DEF ImportStep

LEMMA ServedJob ==
    ASSUME IInv, IndexServed,
           \/ StartJob \/ LoadDocument \/ BindJob \/ ReadForSummary \/ SaveSummary
           \/ ReadToFinish \/ Finish \/ Finalize \/ FailJob \/ JobFailed \/ HideItem(Worker)
           \/ JobBreaks \/ Rerun \/ Upload \/ Shutdown
           \/ \E x \in Texts : ParseDocument(x)
    PROVE  IndexServed'
<1> DEFINE a == Worker
<1>0. a \in Actors /\ th \in [Actors -> Thread] /\ th[a] \in Thread
  BY InActors DEF IInv, Typed
<1>1. ASSUME Refused(a), UNCHANGED <<doc, entry>>, th[a].work = NoText PROVE IndexServed'
  <2>1. Only(a)
    BY <1>0, <1>1, RefusedShape DEF Passes
  <2> QED
    BY <1>0, <1>1, <2>1, ServedOther
<1>2. CASE Upload \/ Shutdown
  <2>1. PICK p \in {"queued", "fail"} : th' = [th EXCEPT ![a].pc = p]
    BY <1>2 DEF Upload, Shutdown, Goto
  <2>2. Only(a) /\ th'[a].work = th[a].work
    BY <1>0, <2>1 DEF Only, Thread
  <2> QED
    BY <1>0, <1>2, <2>2, ServedOther DEF Upload, Shutdown
<1>3. CASE StartJob \/ BindJob \/ SaveSummary \/ FailJob \/ JobFailed \/ HideItem(a) \/ JobBreaks \/ Rerun
  <2>1. th[a].work = NoText /\ UNCHANGED <<doc, entry>>
    BY <1>3 DEF StartJob, BindJob, SaveSummary, FailJob, JobFailed, HideItem, JobBreaks, Rerun, At, Resting
  <2>2. Only(a)
    BY <1>0, <1>3 DEF StartJob, BindJob, SaveSummary, FailJob, JobFailed, HideItem, JobBreaks, Rerun, Goto, Only
  <2> QED
    BY <1>0, <2>1, <2>2, ServedOther
<1>4. CASE LoadDocument
  <2>1. th[a].work = NoText /\ UNCHANGED <<doc, entry>>
    BY <1>4 DEF LoadDocument, At
  <2>2. CASE doc.version = job.version
    BY <1>0, <1>4, <2>1, <2>2, ServedOther DEF LoadDocument, Only
  <2>3. CASE doc.version # job.version
    BY <1>1, <1>4, <2>1, <2>3 DEF LoadDocument
  <2> QED
    BY <2>2, <2>3
<1>5. CASE ReadForSummary \/ ReadToFinish
  <2>1. th[a].work = NoText /\ UNCHANGED <<doc, entry>>
    BY <1>5 DEF ReadForSummary, ReadToFinish, At
  <2>2. CASE IsCurrent(a)
    <3>1. Only(a)
      BY <1>0, <1>5, <2>2 DEF ReadForSummary, ReadToFinish, Only
    <3> QED
      BY <1>0, <2>1, <3>1, ServedOther
  <2>3. CASE ~IsCurrent(a)
    BY <1>1, <1>5, <2>1, <2>3 DEF ReadForSummary, ReadToFinish
  <2> QED
    BY <2>2, <2>3
<1>6. CASE Finish
  <2> DEFINE N == Pieces[th[a].text]
             d == [doc EXCEPT !.text = th[a].copy, !.expected = N, !.completed = N]
             q == [th[a] EXCEPT !.pc = "finalize"]
  <2>1. q \in Thread
    BY <1>0 DEF Thread, Pcs, Loaded
  <2>2. CASE SaveDocument(a, d, q)
    BY <1>0, <2>1, <2>2, ServedSave
  <2>3. CASE Refused(a) /\ UNCHANGED <<doc, entry>>
    BY <1>1, <1>6, <2>3 DEF Finish, At
  <2> QED
    BY <1>6, <2>2, <2>3 DEF Finish
<1>7. CASE Finalize
  <2>1. th[a].work = NoText /\ UNCHANGED <<doc, entry>>
    BY <1>7 DEF Finalize, At
  <2>2. CASE th' = [th EXCEPT ![a] = Resting]
    BY <1>0, <2>1, <2>2, ServedOther DEF Only
  <2> QED
    BY <1>1, <1>7, <2>1, <2>2 DEF Finalize
<1>8. ASSUME NEW x \in Texts, ParseDocument(x) PROVE IndexServed'
  <2> DEFINE q == [th[a] EXCEPT !.pc = "bind", !.version = 1]
             d == [version |-> 1, text |-> x, expected |-> 0, completed |-> 0]
  <2>1. SaveDocument(a, d, q)
    BY <1>8 DEF ParseDocument
  <2>2. 1 \in Numbers
    BY Bounds DEF Numbers
  <2>3. q \in Thread
    BY <1>0, <2>2 DEF Thread, Pcs, Loaded
  <2> HIDE DEF d, q
  <2> QED
    BY <1>0, <2>1, <2>3, ServedSave
<1> QED
  BY <1>2, <1>3, <1>4, <1>5, <1>6, <1>7, <1>8

LEMMA ServedEdit ==
    ASSUME IInv, IndexServed, NEW e \in Editors, EditStep(e)
    PROVE  IndexServed'
<1>0. e \in Actors /\ th \in [Actors -> Thread]
  BY InActors DEF IInv, Typed
<1>1. CASE Embed(e)
  BY <1>0, <1>1, ServedEmbed
<1>2. CASE Outdate(e) \/ HideItem(e) \/ Answered(e)
  <2>1. th[e].work = NoText /\ UNCHANGED <<doc, entry>>
    BY <1>2 DEF Outdate, HideItem, Answered, At
  <2>2. Only(e)
    BY <1>0, <1>2 DEF Outdate, HideItem, Answered, Only
  <2> QED
    BY <1>0, <2>1, <2>2, ServedOther
<1>3. ASSUME NEW x \in Texts, NEW p \in {"outdate", "hiding"}, NewVersion(e, x, p) PROVE IndexServed'
  <2> DEFINE d == [version |-> doc.version + 1, text |-> x, expected |-> 0, completed |-> 0]
             q == [Resting EXCEPT !.pc = p, !.version = doc.version + 1]
  <2>1. SaveDocument(e, d, q) /\ doc.version \in Nat /\ doc.version + 1 \in Numbers
    BY <1>3, Bounds DEF NewVersion, Numbers
  <2>2. q \in Thread
    BY <1>3, <2>1, RestingKnows DEF Thread, Pcs, Resting
  <2> HIDE DEF d, q
  <2> QED
    BY <1>0, <2>1, <2>2, ServedSave
<1> QED
  BY <1>1, <1>2, <1>3 DEF EditStep, Update, ConfirmBrief

\* Work is lost only with the process.
LEMMA OnlyRestartLoses ==
    ASSUME Next, ~Restart
    PROVE  lost' = lost
  BY DEF Next, JobStep, EditStep, ImportStep, Upload, Shutdown, Rerun, JobBreaks, ImportRequest, StartJob,
     LoadDocument, BindJob, ReadForSummary, SaveSummary, ReadToFinish, Finish, Finalize, FailJob, JobFailed,
     ParseDocument, HideItem, Embed, ReadToImport, SaveProgress, CheckForChunk, SaveChunk, ReadForProgress,
     Activate, CheckForItem, ActivateItem, Activated, Update, ConfirmBrief, NewVersion, Outdate, Answered, history

\* Nothing waits for a vector when nobody works, unless the process was lost.
LEMMA ServedInductive ==
    IInv /\ (~lost => IndexServed) /\ [Next]_vars => (~lost => IndexServed)'
<1> SUFFICES ASSUME IInv, ~lost => IndexServed, [Next]_vars, ~lost' PROVE IndexServed'
  OBVIOUS
<1>1. CASE Restart
  <2>1. ~lost /\ ~InFlight /\ th' = [a \in Actors |-> Resting] /\ UNCHANGED <<doc, entry>>
    BY <1>1 DEF Restart
  <2>2. \A b \in Actors : th[b].work = NoText
    BY <2>1 DEF InFlight, Resting
  <2> QED
    BY <2>1, <2>2, ServedQuiet
<1>2. CASE UNCHANGED vars
  BY <1>2 DEF vars, history, IndexServed
<1>3. CASE ~Restart /\ Next
  <2>0. ~lost
    BY <1>3, OnlyRestartLoses
  <2>1. CASE ImportRequest
    <3>1. Importer \in Actors /\ th[Importer].work = NoText /\ UNCHANGED <<doc, entry>>
      BY <2>1, InActors DEF ImportRequest, Resting
    <3>2. Only(Importer)
      BY <2>1, <3>1 DEF ImportRequest, Only, IInv, Typed
    <3> QED
      BY <2>0, <3>1, <3>2, ServedOther
  <2>2. CASE ImportStep(Worker) \/ ImportStep(Importer) \/ Embed(Worker) \/ Embed(Importer)
    BY <2>0, <2>2, ServedImport, ServedEmbed, InActors
  <2>3. CASE \E e \in Editors : EditStep(e)
    BY <2>0, <2>3, ServedEdit
  <2>4. CASE ~ImportStep(Worker) /\ ~Embed(Worker) /\ (Upload \/ Shutdown \/ Rerun \/ JobStep \/ JobBreaks)
    BY <2>0, <2>4, ServedJob DEF JobStep
  <2> QED
    BY <1>3, <2>1, <2>2, <2>3, <2>4 DEF Next
<1> QED
  BY <1>1, <1>2, <1>3

----------------------------------------------------------------------------
\* A save of progress of the version it works for.
LEMMA ProgressShape ==
    ASSUME IInv, NEW a \in Actors, SaveProgress(a), IsCurrent(a)
    PROVE  /\ Only(a) /\ th'[a].version = th[a].version /\ th'[a].text = th[a].text
           /\ th[a].pc = "save_progress" /\ th'[a].part = th[a].part + 1
           /\ th'[a].pc = IF th[a].part < Pieces[th[a].text] THEN "chunk" ELSE "activate"
           /\ doc'.version = doc.version /\ doc'.text = th[a].copy
           /\ doc'.expected = Pieces[th[a].text] /\ doc'.completed = th[a].part
           /\ UNCHANGED <<items, job, brief, manual>>
<1> DEFINE N == Pieces[th[a].text]
           p == IF th[a].part < N THEN "chunk" ELSE "activate"
           d == [doc EXCEPT !.text = th[a].copy, !.expected = N, !.completed = th[a].part]
           q == [th[a] EXCEPT !.pc = p, !.part = @ + 1]
<1>0. th[a] \in Thread /\ th[a].pc = "save_progress" /\ UNCHANGED <<items, job, brief, manual>>
  BY DEF IInv, Typed, SaveProgress, At, history
<1>1. SaveDocument(a, d, q)
  BY DEF SaveProgress
<1>2. p \in Pcs /\ th[a].part + 1 \in Nat
  BY <1>0 DEF Pcs, Loaded, Thread
<1>3. d.version = doc.version /\ d.text = th[a].copy /\ d.expected = N /\ d.completed = th[a].part
  BY DEF IInv, Typed
<1> HIDE DEF p, d, N
<1>4. q.pc = p /\ q.version = th[a].version /\ q.text = th[a].text /\ q.part = th[a].part + 1
  BY <1>0 DEF Thread
<1>5. q \in Thread
  BY <1>0, <1>2 DEF Thread
<1> HIDE DEF q
<1>6. /\ Only(a) /\ doc' = d /\ th'[a].pc = q.pc /\ th'[a].version = q.version /\ th'[a].text = q.text
      /\ th'[a].part = q.part
  BY <1>1, <1>5, SaveShape
<1> QED
  BY <1>0, <1>3, <1>4, <1>6 DEF p, N

\* Whatever else an import does to its thread.
LEMMA ImportShape ==
    ASSUME IInv, NEW a \in Actors, ImportStep(a)
    PROVE  /\ Only(a) /\ doc'.version = doc.version
           /\ \/ th'[a].pc \in OnItsWay \cup Activating
              \/ th'[a].pc \in {"fail", "finish"} /\ a = Worker
              \/ th'[a] = Resting /\ a # Worker
<1>0. th \in [Actors -> Thread] /\ th[a] \in Thread
  BY DEF IInv, Typed
<1>1. ASSUME Refused(a) PROVE Only(a) /\ (IF a = Worker THEN th'[a].pc = "fail" ELSE th'[a] = Resting)
  BY <1>1, RefusedShape DEF Passes, Rests
<1>2. CASE SaveProgress(a)
  <2>1. CASE IsCurrent(a)
    BY <1>2, <2>1, ProgressShape DEF OnItsWay
  <2>2. CASE ~IsCurrent(a)
    BY <1>1, <1>2, <2>2 DEF SaveProgress
  <2> QED
    BY <2>1, <2>2
<1>3. CASE ReadToImport(a)
  <2>1. CASE IsCurrent(a)
    <3>1. Only(a) /\ th'[a].pc = "save_progress" /\ doc' = doc
      BY <1>0, <1>3, <2>1 DEF ReadToImport, Only, Thread
    <3> QED
      BY <3>1 DEF OnItsWay
  <2>2. CASE ~IsCurrent(a)
    BY <1>1, <1>3, <2>2 DEF ReadToImport
  <2> QED
    BY <2>1, <2>2
<1>4. CASE CheckForChunk(a) \/ SaveChunk(a) \/ ReadForProgress(a)
  <2>1. CASE Refused(a) /\ doc' = doc
    BY <1>1, <2>1
  <2>2. CASE \E p \in OnItsWay : Passes(a, p) /\ doc' = doc
    BY <2>2 DEF Passes
  <2> QED
    BY <1>4, <2>1, <2>2, GotoPasses DEF CheckForChunk, SaveChunk, ReadForProgress, OnItsWay
<1>5. CASE Activate(a) \/ ActivateItem(a)
  <2>1. Only(a) /\ th'[a].pc = "activating" /\ doc' = doc
    BY <1>0, <1>5 DEF Activate, ActivateItem, Only, Thread
  <2> QED
    BY <2>1 DEF Activating
<1>6. CASE CheckForItem(a)
  <2>1. CASE IsCurrent(a)
    <3>1. Only(a) /\ th'[a].pc = "save_item" /\ doc' = doc
      BY <1>0, <1>6, <2>1 DEF CheckForItem, Only, Thread
    <3> QED
      BY <3>1 DEF Activating
  <2>2. CASE ~IsCurrent(a)
    BY <1>1, <1>6, <2>2 DEF CheckForItem
  <2> QED
    BY <2>1, <2>2
<1>7. CASE Activated(a)
  <2>1. CASE a = Worker
    BY <1>7, <2>1, GotoPasses DEF Activated, Passes
  <2>2. CASE a # Worker
    BY <1>7, <2>2, RestingRests DEF Activated, Rests
  <2> QED
    BY <2>1, <2>2
<1> QED
  BY <1>2, <1>3, <1>4, <1>5, <1>6, <1>7 DEF ImportStep

----------------------------------------------------------------------------
(* What the job made active is the job's to complete or to hide. *)

Lists(r, v, p) == \E i \in r.todo : i.version = v /\ i.part = p
WillHide(r, v, p) == (r.pc = "outdate" /\ r.version # v) \/ (r.pc = "hiding" /\ Lists(r, v, p))

\* the job is at work; it is hiding what it made; or it has completed, and its
\* version stands or an editor is about to hide the item
Owned(v, p) ==
    \/ th[Worker].pc \in Loaded \cup {"load", "fail"}
    \/ th[Worker].pc = "hiding" /\ Lists(th[Worker], v, p)
    \/ /\ th[Worker].pc \in {"idle", "queued"} /\ job.status = "completed"
       /\ doc.version = v \/ \E e \in Editors : WillHide(th[e], v, p)
ByJob == {k \in [version : Versions \ manual, part : Parts] : items[k.version][k.part].status = "active"}
ActiveOwned == \A k \in ByJob : k.version = job.version /\ Owned(k.version, k.part)

LEMMA ByJobIs ==
    ASSUME NEW k \in ByJob
    PROVE  /\ k.version \in Versions /\ k.version \notin manual /\ k.part \in Parts
           /\ items[k.version][k.part].status = "active" /\ Saved(k).status = "active"
           /\ k = [version |-> k.version, part |-> k.part]
  BY DEF ByJob, Saved

\* A save of one item, as its key sees it.
LEMMA SavedItem ==
    ASSUME IInv, NEW i, NEW status, SaveItem(i, status), NEW v \in Versions, NEW p \in Parts
    PROVE  /\ v = i.version /\ p = i.part => items'[v][p] = [status |-> status, text |-> i.text]
           /\ ~(v = i.version /\ p = i.part) => items'[v][p] = items[v][p]
  BY DEF IInv, Typed, SaveItem

LEMMA FewerByJob ==
    ASSUME IInv, manual \subseteq manual',
           \/ UNCHANGED items
           \/ \E i, status : SaveItem(i, status) /\ (status # "active" \/ i.version \in manual)
    PROVE  ByJob' \subseteq ByJob
<1> SUFFICES ASSUME NEW v \in Versions \ manual, NEW p \in Parts, items'[v][p].status = "active"
             PROVE  items[v][p].status = "active"
  BY DEF ByJob
<1>1. CASE UNCHANGED items
  BY <1>1
<1>2. ASSUME NEW i, NEW status, SaveItem(i, status), status # "active" \/ i.version \in manual
      PROVE  items[v][p].status = "active"
  <2>1. /\ v = i.version /\ p = i.part => items'[v][p] = [status |-> status, text |-> i.text]
        /\ ~(v = i.version /\ p = i.part) => items'[v][p] = items[v][p]
    BY <1>2, SavedItem
  <2> QED
    BY <1>2, <2>1
<1> QED
  BY <1>1, <1>2

\* Whoever neither makes an item active nor touches the job, the document's
\* version, the worker or an editor.
LEMMA OwnedFrame ==
    ASSUME ActiveOwned, ByJob' \subseteq ByJob, job' = job, doc'.version = doc.version,
           \A b \in Editors \cup {Worker} :
               th'[b].pc = th[b].pc /\ th'[b].version = th[b].version /\ th'[b].todo = th[b].todo
    PROVE  ActiveOwned'
  BY DEF ActiveOwned, Owned, WillHide, Lists

\* While the job is at work it only matters whose items they are.
LEMMA OwnedAtWork ==
    ASSUME th'[Worker].pc \in Loaded \cup {"load", "fail"}, \A k \in ByJob' : k.version = job'.version
    PROVE  ActiveOwned'
  BY DEF ActiveOwned, Owned

LEMMA OwnedSubmit ==
    ASSUME IInv, Placement, ActiveOwned,
           Upload \/ Shutdown \/ StartJob \/ Rerun \/ JobBreaks \/ FailJob \/ JobFailed
    PROVE  ActiveOwned'
<1>0. /\ Worker \in Actors /\ JobPlace /\ WorkerPlace(th[Worker], job)
      /\ job \in [status : JobStates, version : Numbers] /\ th \in [Actors -> Thread]
      /\ UNCHANGED <<manual, items, doc>>
  BY InActors DEF Placement, Upload, Shutdown, StartJob, Rerun, JobBreaks, FailJob, JobFailed, history,
     IInv, Typed
<1>1. ByJob' = ByJob
  BY <1>0 DEF ByJob
<1>2. \A k \in ByJob : k.version \in 1 .. MaxVersion /\ k.version = job.version /\ Owned(k.version, k.part)
  BY ByJobIs DEF ActiveOwned, Versions
<1>3. ASSUME NEW p \in {"load", "fail"}, Goto(Worker, p), job'.version = job.version PROVE ActiveOwned'
  <2>1. th'[Worker].pc = p
    BY <1>0, <1>3, GotoPasses DEF Passes
  <2> QED
    BY <1>1, <1>2, <1>3, <2>1, OwnedAtWork
\* resting or queued with a job that has completed
<1>4. ASSUME Only(Worker), th[Worker].pc \in {"idle", "queued"}, th'[Worker].pc \in {"idle", "queued"}, job' = job
      PROVE  ActiveOwned'
  <2>1. \A e \in Editors : th'[e] = th[e]
    BY <1>4, Threads DEF Only, Actors
  <2> QED
    BY <1>0, <1>1, <1>2, <1>4, <2>1 DEF ActiveOwned, Owned, Loaded
<1>5. CASE Upload
  <2>1. ByJob = {}
    BY <1>0, <1>2, <1>5 DEF Upload, JobPlace
  <2> QED
    BY <1>1, <2>1 DEF ActiveOwned
<1>6. CASE Shutdown
  BY <1>3, <1>6 DEF Shutdown
<1>7. CASE StartJob
  <2>1. CASE th' = [th EXCEPT ![Worker] = Resting] /\ UNCHANGED job
    <3>1. Rests(Worker) /\ Resting.pc = "idle"
      BY <1>0, <2>1, RestingRests DEF Resting
    <3> QED
      BY <1>4, <1>7, <2>1, <3>1 DEF Rests, StartJob, At
  <2>2. CASE job' = [job EXCEPT !.status = "running"] /\ Goto(Worker, "load")
    BY <1>0, <1>3, <2>2
  <2> QED
    BY <1>7, <2>1, <2>2 DEF StartJob
<1>8. CASE Rerun
  <2>1. Passes(Worker, "queued") /\ job' = job
    BY <1>0, <1>8, GotoPasses DEF Rerun
  <2>2. th[Worker].pc = "idle"
    BY <1>8 DEF Rerun, Resting
  <2> QED
    BY <1>4, <2>1, <2>2 DEF Passes
<1>9. CASE JobBreaks
  BY <1>3, <1>9 DEF JobBreaks
<1>10. CASE FailJob
  <2> DEFINE T == {i \in ItemsOf({job.version} \ {0}) : Shown(i)}
  <2>1. th' = [th EXCEPT ![Worker] = [Resting EXCEPT !.pc = "hiding", !.todo = T]] /\ job' = job
    BY <1>10 DEF FailJob
  <2>2. \A k \in ByJob : \E i \in T : i.version = k.version /\ i.part = k.part
    <3> SUFFICES ASSUME NEW k \in ByJob PROVE \E i \in T : i.version = k.version /\ i.part = k.part
      OBVIOUS
    <3> DEFINE i == [version |-> k.version, part |-> k.part, text |-> Saved(k).text]
    <3>1. k \in [version : {job.version} \ {0}, part : Parts] /\ Saved(k).status = "active"
      BY <1>2, ByJobIs DEF ByJob
    <3>2. i \in ItemsOf({job.version} \ {0})
      BY <3>1 DEF ItemsOf
    <3>3. Shown(i)
      BY <3>1 DEF Shown, Saved
    <3> QED
      BY <3>2, <3>3
  <2> HIDE DEF T
  <2>3. th'[Worker].pc = "hiding" /\ th'[Worker].todo = T
    BY <1>0, <2>1 DEF Resting
  <2> QED
    BY <1>1, <1>2, <2>1, <2>2, <2>3 DEF ActiveOwned, Owned, Lists
<1>11. CASE JobFailed
  <2>1. ByJob = {}
    BY <1>2, <1>11 DEF Owned, JobFailed, At, Lists, Loaded
  <2> QED
    BY <1>1, <2>1 DEF ActiveOwned
<1> QED
  BY <1>5, <1>6, <1>7, <1>8, <1>9, <1>10, <1>11

LEMMA OwnedJob ==
    ASSUME IInv, Placement, ActiveOwned,
           \/ LoadDocument \/ BindJob \/ ReadForSummary \/ SaveSummary \/ ReadToFinish
           \/ Finish \/ Finalize \/ HideItem(Worker) \/ \E x \in Texts : ParseDocument(x)
    PROVE  ActiveOwned'
<1> DEFINE r == th[Worker]
<1>0. /\ Worker \in Actors /\ JobPlace /\ WorkerPlace(r, job) /\ r \in Thread
      /\ manual' = manual /\ job \in [status : JobStates, version : Numbers]
      /\ th \in [Actors -> Thread]
  BY InActors DEF Placement, LoadDocument, BindJob, ReadForSummary, SaveSummary, ReadToFinish,
     Finish, Finalize, HideItem, ParseDocument, history, IInv, Typed
<1>1. \A k \in ByJob : k.version \in Versions /\ k.version = job.version /\ Owned(k.version, k.part)
  BY ByJobIs DEF ActiveOwned
\* a step within the run of the job makes nothing active
<1>2. ASSUME th'[Worker].pc \in Loaded \cup {"load", "fail"}, ByJob' \subseteq ByJob,
             job'.version = job.version \/ job.version = 0
      PROVE  ActiveOwned'
  <2>1. \A k \in ByJob : k.version # 0
    BY <1>1 DEF Versions
  <2> QED
    BY <1>1, <1>2, <2>1, OwnedAtWork
<1>3. ASSUME UNCHANGED <<items>> PROVE ByJob' = ByJob
  BY <1>0, <1>3 DEF ByJob
<1>4. ASSUME Refused(Worker), UNCHANGED <<items, job>> PROVE ActiveOwned'
  <2>1. th'[Worker].pc = "fail"
    BY <1>0, <1>4, RefusedShape DEF Passes
  <2> QED
    BY <1>2, <1>3, <1>4, <2>1
<1>5. CASE LoadDocument
  <2>1. CASE doc.version = job.version
    <3>1. th'[Worker].pc = "summary" /\ UNCHANGED <<items, job>>
      BY <1>0, <1>5, <2>1 DEF LoadDocument, Thread
    <3> QED
      BY <1>2, <1>3, <3>1 DEF Loaded
  <2>2. CASE doc.version # job.version
    BY <1>4, <1>5, <2>2 DEF LoadDocument
  <2> QED
    BY <2>1, <2>2
<1>6. CASE BindJob
  <2>1. th'[Worker].pc = "summary" /\ UNCHANGED items
    BY <1>0, <1>6, GotoPasses DEF BindJob, Passes
  <2>2. job.version = 0
    BY <1>0, <1>6 DEF BindJob, At, WorkerPlace, Loaded
  <2> QED
    BY <1>2, <1>3, <2>1, <2>2 DEF Loaded
<1>7. CASE ReadForSummary \/ ReadToFinish
  <2>1. CASE IsCurrent(Worker)
    <3>1. PICK p \in {"save_summary", "save_finish"} :
            th' = [th EXCEPT ![Worker].pc = p, ![Worker].copy = doc.text]
      BY <1>7, <2>1 DEF ReadForSummary, ReadToFinish
    <3>2. th'[Worker].pc = p /\ UNCHANGED <<items, job>>
      BY <1>0, <1>7, <3>1, GotoPasses DEF ReadForSummary, ReadToFinish, Passes
    <3> QED
      BY <1>2, <1>3, <3>2 DEF Loaded
  <2>2. CASE ~IsCurrent(Worker)
    BY <1>4, <1>7, <2>2 DEF ReadForSummary, ReadToFinish
  <2> QED
    BY <2>1, <2>2
<1>8. CASE SaveSummary
  <2>1. th'[Worker].pc = "import" /\ job' = job
    BY <1>0, <1>8, GotoPasses DEF SaveSummary, Passes
  <2>2. ByJob' \subseteq ByJob
    <3>1. SaveItem([version |-> r.version, part |-> 0, text |-> r.copy], "staging")
      BY <1>8 DEF SaveSummary
    <3> QED
      BY <1>0, <3>1, FewerByJob
  <2> QED
    BY <1>2, <2>1, <2>2 DEF Loaded
<1>9. CASE Finish
  <2> DEFINE N == Pieces[r.text]
             d == [doc EXCEPT !.text = r.copy, !.expected = N, !.completed = N]
             q == [r EXCEPT !.pc = "finalize"]
  <2>1. UNCHANGED <<items, job>>
    BY <1>9 DEF Finish
  <2>2. CASE SaveDocument(Worker, d, q)
    <3>1. q \in Thread /\ q.pc = "finalize"
      BY <1>0 DEF Thread, Pcs, Loaded
    <3>2. th'[Worker].pc = "finalize"
      BY <1>0, <2>2, <3>1, SaveShape
    <3> QED
      BY <1>2, <1>3, <2>1, <3>2 DEF Loaded
  <2>3. CASE Refused(Worker)
    BY <1>4, <2>1, <2>3
  <2> QED
    BY <1>9, <2>2, <2>3 DEF Finish
<1>10. CASE Finalize
  <2>1. r.pc = "finalize" /\ UNCHANGED <<items, doc>>
    BY <1>10 DEF Finalize, At
  <2>2. CASE IsCurrent(Worker) /\ job' = [status |-> "completed", version |-> r.version]
             /\ th' = [th EXCEPT ![Worker] = Resting]
    <3>1. r.version = job.version /\ doc.version = r.version
      BY <1>0, <2>1, <2>2 DEF WorkerPlace, Loaded, IsCurrent
    <3>2. th'[Worker].pc = "idle" /\ job'.status = "completed" /\ job'.version = job.version
      BY <1>0, <2>2, <3>1 DEF Resting
    <3> QED
      BY <1>1, <1>3, <2>1, <3>1, <3>2 DEF ActiveOwned, Owned
  <2>3. CASE Refused(Worker) /\ UNCHANGED job
    BY <1>4, <2>1, <2>3
  <2> QED
    BY <1>10, <2>2, <2>3 DEF Finalize
<1>11. CASE HideItem(Worker)
  <2>1. PICK i \in r.todo : SaveItem(i, "stale") /\ th' = [th EXCEPT ![Worker].todo = @ \ {i}]
    BY <1>11 DEF HideItem
  <2>2. r.pc = "hiding" /\ job' = job
    BY <1>11 DEF HideItem, At
  <2>3. th'[Worker].pc = "hiding" /\ th'[Worker].todo = r.todo \ {i}
    BY <1>0, <2>1, <2>2 DEF Thread
  <2>4. ByJob' \subseteq ByJob
    BY <1>0, <2>1, FewerByJob
  <2>5. ASSUME NEW k \in ByJob' PROVE Lists(th'[Worker], k.version, k.part)
    <3>1. k.version \in Versions /\ k.part \in Parts /\ items'[k.version][k.part].status = "active"
      BY DEF ByJob
    <3>2. k.version = i.version /\ k.part = i.part
            => items'[k.version][k.part] = [status |-> "stale", text |-> i.text]
      BY <2>1, <3>1, SavedItem
    <3>3. Lists(r, k.version, k.part)
      BY <1>1, <2>2, <2>4 DEF Owned, Loaded
    <3>4. ~(k.version = i.version /\ k.part = i.part)
      BY <3>1, <3>2
    <3> QED
      BY <2>3, <3>3, <3>4 DEF Lists
  <2> QED
    BY <1>1, <2>2, <2>3, <2>4, <2>5 DEF ActiveOwned, Owned
<1>12. ASSUME NEW x \in Texts, ParseDocument(x) PROVE ActiveOwned'
  <2> DEFINE q == [r EXCEPT !.pc = "bind", !.version = 1]
             d == [version |-> 1, text |-> x, expected |-> 0, completed |-> 0]
  <2>1. SaveDocument(Worker, d, q) /\ UNCHANGED <<job, items>>
    BY <1>12 DEF ParseDocument
  <2>2. 1 \in Numbers
    BY Bounds DEF Numbers
  <2>3. q \in Thread /\ q.pc = "bind"
    BY <1>0, <2>2 DEF Thread, Pcs, Loaded
  <2> HIDE DEF d, q
  <2>4. th'[Worker].pc = "bind"
    BY <1>0, <2>1, <2>3, SaveShape
  <2> QED
    BY <1>2, <1>3, <2>1, <2>4 DEF Loaded
<1> QED
  BY <1>5, <1>6, <1>7, <1>8, <1>9, <1>10, <1>11, <1>12

\* An import by the worker makes items of the job's version active; one by hand
\* only items of a version it has marked.
LEMMA OwnedImport ==
    ASSUME IInv, Placement, ActiveOwned, NEW a \in {Worker, Importer}, ImportStep(a)
    PROVE  ActiveOwned'
<1> DEFINE r == th[a]
<1>0. /\ a \in Actors /\ ImportPlace(r) /\ r \in Thread /\ th \in [Actors -> Thread]
      /\ UNCHANGED <<manual, job>>
      /\ WorkerPlace(th[Worker], job) /\ ImporterPlace(th[Importer], manual)
  BY InActors DEF Placement, ImportStep, ReadToImport, SaveProgress, CheckForChunk, SaveChunk,
     ReadForProgress, Activate, CheckForItem, ActivateItem, Activated, history, IInv, Typed
<1>1. doc'.version = doc.version /\ Only(a)
  BY <1>0, ImportShape
<1>2. \/ UNCHANGED items
      \/ \E i : SaveItem(i, "staging")
      \/ SaveItem(r.pick, "active") /\ r.pc = "save_item" /\ r.pick.version = r.version
  BY <1>0 DEF ImportStep, ReadToImport, SaveProgress, CheckForChunk, SaveChunk, ReadForProgress, Activate,
     CheckForItem, ActivateItem, Activated, At, ImportPlace
<1>3. r.pc \in OnItsWay \cup Activating
  BY DEF ImportStep, ReadToImport, SaveProgress, CheckForChunk, SaveChunk, ReadForProgress, Activate,
     CheckForItem, ActivateItem, Activated, At, OnItsWay, Activating
<1>4. CASE a = Importer
  <2>1. r.version \in manual
    BY <1>0, <1>3, <1>4 DEF ImporterPlace, OnItsWay, Activating
  <2>2. ByJob' \subseteq ByJob
    BY <1>0, <1>2, <2>1, FewerByJob
  <2>3. \A b \in Editors \cup {Worker} : th'[b] = th[b]
    BY <1>1, <1>4, Threads, InActors DEF Only
  <2> QED
    BY <1>0, <1>1, <2>2, <2>3, OwnedFrame
<1>5. CASE a = Worker
  <2>1. r.version = job.version
    BY <1>0, <1>3, <1>5 DEF WorkerPlace, OnItsWay, Activating, Loaded
  <2>2. th'[Worker].pc \in Loaded \cup {"fail"}
    BY <1>0, <1>5, ImportShape DEF OnItsWay, Activating, Loaded
  <2>3. ASSUME NEW k \in ByJob' PROVE k.version = job.version
    <3>1. k.version \in Versions /\ k.part \in Parts /\ items'[k.version][k.part].status = "active"
      BY DEF ByJob
    <3>2. k \in ByJob => k.version = job.version
      BY DEF ActiveOwned
    <3>3. items[k.version][k.part].status = "active" => k \in ByJob
      BY <1>0 DEF ByJob
    <3>4. ASSUME items'[k.version][k.part] = items[k.version][k.part] PROVE k.version = job.version
      BY <3>1, <3>2, <3>3, <3>4
    <3>5. ASSUME NEW i, SaveItem(i, "staging") PROVE k.version = job.version
      <4>1. /\ k.version = i.version /\ k.part = i.part
                => items'[k.version][k.part] = [status |-> "staging", text |-> i.text]
            /\ ~(k.version = i.version /\ k.part = i.part)
                => items'[k.version][k.part] = items[k.version][k.part]
        BY <3>1, <3>5, SavedItem
      <4> QED
        BY <3>1, <3>4, <4>1
    <3>6. CASE SaveItem(r.pick, "active") /\ r.pick.version = r.version
      <4>1. ~(k.version = r.pick.version /\ k.part = r.pick.part)
                => items'[k.version][k.part] = items[k.version][k.part]
        BY <3>1, <3>6, SavedItem
      <4> QED
        BY <2>1, <3>4, <3>6, <4>1
    <3> QED
      BY <1>2, <3>4, <3>5, <3>6
  <2> QED
    BY <1>0, <2>2, <2>3, OwnedAtWork
<1> QED
  BY <1>4, <1>5

LEMMA OwnedEdit ==
    ASSUME IInv, Placement, ActiveOwned, NEW e \in Editors,
           Outdate(e) \/ HideItem(e) \/ Answered(e) \/ \E x \in Texts : Update(e, x) \/ ConfirmBrief(e, x)
    PROVE  ActiveOwned'
<1> DEFINE r == th[e]
<1>0. /\ e \in Actors /\ th \in [Actors -> Thread] /\ r \in Thread /\ UNCHANGED <<job, manual>>
  BY InActors DEF IInv, Typed, Outdate, HideItem, Answered, Update, ConfirmBrief, NewVersion, history
<1>1. \A k \in ByJob : k.version \in Versions /\ k.version = job.version /\ Owned(k.version, k.part)
  BY ByJobIs DEF ActiveOwned
\* What was to be hidden still is, or it was e's to hide and e is about to.
<1>2. ASSUME Only(e), ByJob' \subseteq ByJob,
             \A k \in ByJob' : \/ doc.version = k.version /\ doc'.version = doc.version
                               \/ doc.version = k.version /\ WillHide(th'[e], k.version, k.part)
                               \/ doc.version # k.version /\ (WillHide(r, k.version, k.part)
                                                               => WillHide(th'[e], k.version, k.part))
      PROVE  ActiveOwned'
  <2>1. th'[Worker] = th[Worker] /\ \A f \in Editors : f # e => th'[f] = th[f]
    BY <1>2, Threads, InActors DEF Only
  <2> SUFFICES ASSUME NEW k \in ByJob' PROVE k.version = job'.version /\ Owned(k.version, k.part)'
    BY DEF ActiveOwned
  <2>2. k.version = job'.version /\ Owned(k.version, k.part)
    BY <1>0, <1>1, <1>2
  <2>3. CASE th[Worker].pc \in Loaded \cup {"load", "fail"} \/ (th[Worker].pc = "hiding" /\ Lists(th[Worker], k.version, k.part))
    BY <2>1, <2>2, <2>3 DEF Owned
  <2>4. CASE th[Worker].pc \in {"idle", "queued"} /\ job.status = "completed"
    <3>1. doc.version = k.version \/ \E f \in Editors : WillHide(th[f], k.version, k.part)
      BY <2>2, <2>4 DEF Owned, Loaded
    <3>2. doc'.version = k.version \/ \E f \in Editors : WillHide(th'[f], k.version, k.part)
      BY <1>2, <2>1, <3>1
    <3> QED
      BY <1>0, <2>1, <2>2, <2>4, <3>2 DEF Owned
  <2> QED
    BY <2>2, <2>3, <2>4 DEF Owned
<1>3. CASE Outdate(e)
  <2> DEFINE T == {i \in ItemsOf(Versions \ {r.version}) : Shown(i)}
  <2>1. th' = [th EXCEPT ![e] = [@ EXCEPT !.pc = "hiding", !.todo = T]] /\ UNCHANGED <<doc, items>>
    BY <1>3 DEF Outdate
  <2>2. ByJob' = ByJob
    BY <1>0, <2>1 DEF ByJob
  <2>3. \A k \in ByJob : k.version # r.version => \E i \in T : i.version = k.version /\ i.part = k.part
    <3> SUFFICES ASSUME NEW k \in ByJob, k.version # r.version
                 PROVE  \E i \in T : i.version = k.version /\ i.part = k.part
      OBVIOUS
    <3> DEFINE i == [version |-> k.version, part |-> k.part, text |-> Saved(k).text]
    <3>1. k \in [version : Versions \ {r.version}, part : Parts] /\ Saved(k).status = "active"
      BY ByJobIs DEF ByJob
    <3>2. i \in ItemsOf(Versions \ {r.version})
      BY <3>1 DEF ItemsOf
    <3>3. Shown(i)
      BY <3>1 DEF Shown, Saved
    <3> QED
      BY <3>2, <3>3
  <2> HIDE DEF T
  <2>4. Only(e) /\ th'[e].pc = "hiding" /\ th'[e].todo = T /\ r.pc = "outdate"
    BY <1>0, <1>3, <2>1 DEF Only, Thread, Outdate, At
  <2>5. \A k \in ByJob : WillHide(r, k.version, k.part) => WillHide(th'[e], k.version, k.part)
    BY <2>3, <2>4 DEF WillHide, Lists
  <2> QED
    BY <1>2, <2>1, <2>2, <2>4, <2>5
<1>4. CASE HideItem(e)
  <2>1. PICK i \in r.todo : SaveItem(i, "stale") /\ th' = [th EXCEPT ![e].todo = @ \ {i}]
    BY <1>4 DEF HideItem
  <2>2. r.pc = "hiding" /\ doc' = doc
    BY <1>4 DEF HideItem, At
  <2>3. Only(e) /\ th'[e].pc = "hiding" /\ th'[e].todo = r.todo \ {i}
    BY <1>0, <2>1, <2>2 DEF Only, Thread
  <2>4. ByJob' \subseteq ByJob
    BY <1>0, <2>1, FewerByJob
  <2>5. ASSUME NEW k \in ByJob', WillHide(r, k.version, k.part) PROVE WillHide(th'[e], k.version, k.part)
    <3>1. k.version \in Versions /\ k.part \in Parts /\ items'[k.version][k.part].status = "active"
      BY DEF ByJob
    <3>2. k.version = i.version /\ k.part = i.part
            => items'[k.version][k.part] = [status |-> "stale", text |-> i.text]
      BY <2>1, <3>1, SavedItem
    <3>3. ~(k.version = i.version /\ k.part = i.part)
      BY <3>1, <3>2
    <3> QED
      BY <2>2, <2>3, <2>5, <3>3 DEF WillHide, Lists
  <2> QED
    BY <1>2, <2>2, <2>3, <2>4, <2>5
<1>5. CASE Answered(e)
  <2>1. Rests(e) /\ UNCHANGED <<doc, items>> /\ r.pc = "hiding" /\ r.todo = {}
    BY <1>0, <1>5, RestingRests DEF Answered, At
  <2>2. ByJob' = ByJob
    BY <1>0, <2>1 DEF ByJob
  <2>3. \A v, p : ~WillHide(r, v, p)
    BY <2>1 DEF WillHide, Lists
  <2> QED
    BY <1>2, <2>1, <2>2, <2>3 DEF Rests
<1>6. ASSUME NEW x \in Texts, NEW p \in {"outdate", "hiding"}, NewVersion(e, x, p),
             p = "hiding" => brief = "open", UNCHANGED items
      PROVE  ActiveOwned'
  <2> DEFINE d == [version |-> doc.version + 1, text |-> x, expected |-> 0, completed |-> 0]
             q == [Resting EXCEPT !.pc = p, !.version = doc.version + 1]
  <2>1. SaveDocument(e, d, q) /\ doc.version \in Nat /\ doc.version + 1 \in Numbers /\ r = Resting
    BY <1>6, Bounds DEF NewVersion, Numbers
  <2>2. q \in Thread /\ q.pc = p /\ q.version = doc.version + 1
    BY <1>6, <2>1, RestingKnows DEF Thread, Pcs, Resting
  <2> HIDE DEF d, q
  <2>3. Only(e) /\ th'[e].pc = p /\ th'[e].version = doc.version + 1
    BY <1>0, <2>1, <2>2, SaveShape
  <2>4. ByJob' = ByJob
    BY <1>0, <1>6 DEF ByJob
  <2>5. p = "hiding" => ByJob = {}
    BY <1>1, <1>6, ByJobIs DEF Placement, JobPlace, Versions
  <2>6. \A v, k : ~WillHide(r, v, k)
    BY <2>1 DEF WillHide, Resting
  <2>7. \A k \in ByJob : k.version = doc.version => WillHide(th'[e], k.version, k.part)
    BY <1>6, <2>1, <2>3, <2>5 DEF WillHide
  <2> QED
    BY <1>1, <1>2, <2>3, <2>4, <2>6, <2>7
<1>7. ASSUME NEW x \in Texts, Update(e, x) \/ ConfirmBrief(e, x) PROVE ActiveOwned'
  BY <1>6, <1>7 DEF Update, ConfirmBrief, NewVersion
<1> QED
  BY <1>3, <1>4, <1>5, <1>7

LEMMA OwnedQuiet ==
    ASSUME IInv, Placement, ActiveOwned, ImportRequest \/ \E a \in Actors : Embed(a)
    PROVE  ActiveOwned'
<1>1. CASE ImportRequest
  <2>1. UNCHANGED <<items, job, doc>> /\ manual \subseteq manual'
    BY <1>1 DEF ImportRequest
  <2>2. \A b \in Editors \cup {Worker} : th'[b] = th[b]
    BY <1>1, Threads, InActors DEF ImportRequest, IInv, Typed
  <2>3. ByJob' \subseteq ByJob
    BY <2>1, FewerByJob
  <2> QED
    BY <2>1, <2>2, <2>3, OwnedFrame
<1>2. ASSUME NEW a \in Actors, Embed(a) PROVE ActiveOwned'
  <2>1. Passes(a, th[a].pc) /\ UNCHANGED <<doc, items, job, manual>>
    BY <1>2, EmbedShape
  <2>2. \A b \in Editors \cup {Worker} :
          th'[b].pc = th[b].pc /\ th'[b].version = th[b].version /\ th'[b].todo = th[b].todo
    BY <2>1, InActors DEF Passes, Only
  <2>3. ByJob' \subseteq ByJob
    BY <2>1, FewerByJob
  <2> QED
    BY <2>1, <2>2, <2>3, OwnedFrame
<1> QED
  BY <1>1, <1>2

LEMMA OwnedInductive ==
    IInv /\ Placement /\ (~lost => ActiveOwned) /\ [Next]_vars => (~lost => ActiveOwned)'
<1> SUFFICES ASSUME IInv, Placement, ~lost => ActiveOwned, [Next]_vars, ~lost' PROVE ActiveOwned'
  OBVIOUS
<1>1. CASE Restart
  <2>1. ~lost /\ ~InFlight /\ th' = [a \in Actors |-> Resting] /\ UNCHANGED <<doc, items, job, manual>>
    BY <1>1 DEF Restart
  <2>2. \A b \in Actors : th'[b] = th[b]
    BY <2>1 DEF InFlight
  <2>3. ByJob' \subseteq ByJob
    BY <2>1, FewerByJob
  <2> QED
    BY <2>1, <2>2, <2>3, InActors, OwnedFrame
<1>2. CASE UNCHANGED vars
  BY <1>2 DEF vars, history, ActiveOwned, ByJob, Owned, WillHide, Lists
<1>3. CASE ~Restart /\ Next
  <2>0. ActiveOwned
    BY <1>3, OnlyRestartLoses
  <2>1. CASE ImportRequest \/ Embed(Worker) \/ Embed(Importer) \/ \E e \in Editors : Embed(e)
    BY <2>0, <2>1, OwnedQuiet, InActors
  <2>2. CASE ImportStep(Worker) \/ ImportStep(Importer)
    BY <2>0, <2>2, OwnedImport
  <2>3. ASSUME NEW e \in Editors, EditStep(e), ~Embed(e) PROVE ActiveOwned'
    BY <2>0, <2>3, OwnedEdit DEF EditStep
  <2>4. CASE Upload \/ Shutdown \/ StartJob \/ Rerun \/ JobBreaks \/ FailJob \/ JobFailed
    BY <2>0, <2>4, OwnedSubmit
  <2>5. CASE ~ImportStep(Worker) /\ ~Embed(Worker) /\ ~(StartJob \/ FailJob \/ JobFailed) /\ JobStep
    BY <2>0, <2>5, OwnedJob DEF JobStep
  <2> QED
    BY <1>3, <2>1, <2>2, <2>3, <2>4, <2>5 DEF Next
<1> QED
  BY <1>1, <1>2, <1>3

----------------------------------------------------------------------------
(* What the job has made of the first version when it completes, while an  *)
(* import by hand stages, counts and activates the same items again.       *)

Kept(p) == items[1][p].status \in {"staging", "active"}
Staged(k) == \A p \in 0 .. k : Kept(p)
IsActive(p) == items[1][p].status = "active"
WillActivate(r, p) ==
    \/ r.pc \in OnItsWay
    \/ r.pc \in Activating /\ Lists(r, 1, p)
    \/ r.pc = "save_item" /\ r.pick.part = p
Shows(A) ==
    \A p \in 0 .. Pieces[doc.text] : Kept(p) /\ (IsActive(p) \/ \E a \in A : WillActivate(th[a], p))
WillCount(r) == r.pc \in OnItsWay \ {"activate"}
Counted ==
    /\ doc.expected = Pieces[doc.text]
    /\ doc.completed = Pieces[doc.text] \/ WillCount(th[Importer])

\* by where the worker is
JobDid(r) ==
    /\ r.pc = "import" => Kept(0)
    /\ r.pc \in {"save_progress", "progress"} => Staged(r.part)
    /\ r.pc \in {"chunk", "save_chunk"} => Staged(r.part - 1)
    /\ r.pc = "activate" => Staged(Pieces[doc.text])
    /\ r.pc \in Activating => Shows({Worker, Importer})
    /\ r.pc \in {"finish", "save_finish", "finalize"} => Shows({Importer})
    /\ r.pc = "finalize" => Counted
JobTrue ==
    doc.version = 1 =>
        /\ JobDid(th[Worker])
        /\ job.status = "completed" => Shows({Importer}) /\ Counted

\* A step of an import whose version stands.
LEMMA ImportMoves ==
    ASSUME IInv, NEW a \in Actors, ImportStep(a), IsCurrent(a)
    PROVE  \/ /\ th[a].pc = "import" /\ th'[a].pc = "save_progress" /\ th'[a].part = 0
              /\ UNCHANGED <<items, doc>>
           \/ /\ SaveProgress(a) /\ UNCHANGED items
           \/ /\ <<th[a].pc, th'[a].pc>> \in {<<"chunk", "save_chunk">>, <<"progress", "save_progress">>}
              /\ th'[a].part = th[a].part /\ UNCHANGED <<items, doc>>
           \/ /\ th[a].pc = "save_chunk" /\ th'[a].pc = "progress" /\ th'[a].part = th[a].part
              /\ SaveItem([version |-> th[a].version, part |-> th[a].part, text |-> th[a].text], "staging")
              /\ UNCHANGED doc
           \/ /\ th[a].pc = "activate" /\ th'[a].pc = "activating" /\ th'[a].todo = ItemsOf({th[a].version})
              /\ UNCHANGED <<items, doc>>
           \/ /\ th[a].pc = "activating" /\ th'[a].pc = "save_item" /\ UNCHANGED <<items, doc>>
              /\ \E i \in th[a].todo : th'[a].pick = i /\ th'[a].todo = th[a].todo \ {i}
           \/ /\ th[a].pc = "save_item" /\ th'[a].pc = "activating" /\ th'[a].todo = th[a].todo
              /\ SaveItem(th[a].pick, "active") /\ UNCHANGED doc
           \/ /\ th[a].pc = "activating" /\ th[a].todo = {} /\ UNCHANGED <<items, doc>>
              /\ th'[a].pc = IF a = Worker THEN "finish" ELSE "idle"
<1>0. th \in [Actors -> Thread] /\ th[a] \in Thread
  BY DEF IInv, Typed
<1>1. CASE ReadToImport(a)
  BY <1>0, <1>1 DEF ReadToImport, At, Thread
<1>2. CASE SaveProgress(a)
  BY <1>2 DEF SaveProgress
<1>3. CASE CheckForChunk(a) \/ ReadForProgress(a)
  <2>1. PICK p : Passes(a, p) /\ <<th[a].pc, p>> \in {<<"chunk", "save_chunk">>, <<"progress", "save_progress">>}
    BY <1>3, GotoPasses DEF CheckForChunk, ReadForProgress, At
  <2> QED
    BY <1>3, <2>1 DEF Passes, CheckForChunk, ReadForProgress
<1>4. CASE SaveChunk(a)
  <2>1. Passes(a, "progress")
    BY <1>4, GotoPasses DEF SaveChunk
  <2> QED
    BY <1>4, <2>1 DEF Passes, SaveChunk, At
<1>5. CASE Activate(a)
  BY <1>0, <1>5 DEF Activate, At, Thread
<1>6. CASE CheckForItem(a)
  <2>1. PICK i \in th[a].todo : th' = [th EXCEPT ![a].pc = "save_item", ![a].todo = @ \ {i}, ![a].pick = i]
    BY <1>6 DEF CheckForItem
  <2>2. th'[a].pc = "save_item" /\ th'[a].todo = th[a].todo \ {i} /\ th'[a].pick = i
    BY <1>0, <2>1 DEF Thread
  <2> QED
    BY <1>6, <2>2 DEF CheckForItem, At
<1>7. CASE ActivateItem(a)
  <2>1. th'[a].pc = "activating" /\ th'[a].todo = th[a].todo
    BY <1>0, <1>7 DEF ActivateItem, Thread
  <2> QED
    BY <1>7, <2>1 DEF ActivateItem, At
<1>8. CASE Activated(a)
  <2>1. th'[a].pc = IF a = Worker THEN "finish" ELSE "idle"
    BY <1>0, <1>8 DEF Activated, Goto, Resting, Thread
  <2> QED
    BY <1>8, <2>1 DEF Activated, At
<1> QED
  BY <1>1, <1>2, <1>3, <1>4, <1>5, <1>6, <1>7, <1>8 DEF ImportStep

\* A save in the first version is seen at its part.
LEMMA SavedFirst ==
    ASSUME IInv, NEW i, NEW status, SaveItem(i, status), i.version = 1, NEW p \in Parts
    PROVE  /\ p = i.part => items'[1][p].status = status
           /\ p # i.part => items'[1][p] = items[1][p]
<1>1. 1 \in Versions
  BY Bounds DEF Versions
<1>2. /\ i.version = i.version /\ p = i.part => items'[i.version][p] = [status |-> status, text |-> i.text]
      /\ ~(i.version = i.version /\ p = i.part) => items'[i.version][p] = items[i.version][p]
  BY <1>1, SavedItem
<1> QED
  BY <1>2

\* What an import of the standing first version has begun it ends: every part
\* it finds, or stages, will be active when it is through.
LEMMA ActivationKept ==
    ASSUME IInv, Placement, NEW a \in {Worker, Importer}, ImportStep(a), doc.version = 1, th[a].version = 1,
           NEW p \in Parts, Kept(p)
    PROVE  /\ Kept(p)'
           /\ IsActive(p) \/ WillActivate(th[a], p) => IsActive(p)' \/ WillActivate(th'[a], p)
<1> DEFINE r == th[a]
<1>0. a \in Actors /\ ImportPlace(r) /\ IsCurrent(a) /\ 1 \in Versions
  BY InActors, Bounds DEF Placement, IsCurrent, Versions
<1>1. \/ /\ r.pc = "import" /\ th'[a].pc = "save_progress" /\ UNCHANGED items
      \/ SaveProgress(a)
      \/ /\ <<r.pc, th'[a].pc>> \in {<<"chunk", "save_chunk">>, <<"progress", "save_progress">>}
         /\ UNCHANGED items
      \/ /\ r.pc = "save_chunk" /\ th'[a].pc = "progress"
         /\ SaveItem([version |-> r.version, part |-> r.part, text |-> r.text], "staging")
      \/ /\ r.pc = "activate" /\ th'[a].pc = "activating" /\ th'[a].todo = ItemsOf({r.version})
         /\ UNCHANGED items
      \/ /\ r.pc = "activating" /\ th'[a].pc = "save_item" /\ UNCHANGED items
         /\ \E i \in r.todo : th'[a].pick = i /\ th'[a].todo = r.todo \ {i}
      \/ /\ r.pc = "save_item" /\ th'[a].pc = "activating" /\ th'[a].todo = r.todo
         /\ SaveItem(r.pick, "active")
      \/ /\ r.pc = "activating" /\ r.todo = {} /\ UNCHANGED items
  BY <1>0, ImportMoves
\* no item is saved and the thread is before its list is made
<1>2. ASSUME UNCHANGED items, th'[a].pc \in OnItsWay
      PROVE  /\ Kept(p)'
             /\ IsActive(p) \/ WillActivate(r, p) => IsActive(p)' \/ WillActivate(th'[a], p)
  BY <1>2 DEF Kept, WillActivate
<1>3. CASE r.pc = "import" /\ th'[a].pc = "save_progress" /\ UNCHANGED items
  BY <1>2, <1>3 DEF OnItsWay
<1>4. CASE SaveProgress(a)
  BY <1>0, <1>2, <1>4, ProgressShape DEF OnItsWay
<1>5. CASE /\ <<r.pc, th'[a].pc>> \in {<<"chunk", "save_chunk">>, <<"progress", "save_progress">>}
           /\ UNCHANGED items
  BY <1>2, <1>5 DEF OnItsWay
<1>6. CASE /\ r.pc = "save_chunk" /\ th'[a].pc = "progress"
           /\ SaveItem([version |-> r.version, part |-> r.part, text |-> r.text], "staging")
  <2>1. p = r.part => items'[1][p].status = "staging"
    BY <1>6, SavedFirst
  <2>2. p # r.part => items'[1][p] = items[1][p]
    BY <1>6, SavedFirst
  <2> QED
    BY <1>6, <2>1, <2>2 DEF Kept, WillActivate, OnItsWay
<1>7. CASE r.pc = "activate" /\ th'[a].pc = "activating" /\ th'[a].todo = ItemsOf({r.version}) /\ UNCHANGED items
  <2> DEFINE i == [version |-> 1, part |-> p, text |-> items[1][p].text]
  <2>1. i \in ItemsOf({r.version})
    <3> DEFINE k == [version |-> 1, part |-> p]
    <3>1. k \in [version : {r.version}, part : Parts] /\ k.version = 1 /\ k.part = p
      OBVIOUS
    <3>2. Saved(k) = items[1][p] /\ Saved(k).status # "none"
      BY <3>1 DEF Saved, Kept
    <3> HIDE DEF k
    <3>3. i = [version |-> k.version, part |-> k.part, text |-> Saved(k).text]
      BY <3>1, <3>2
    <3> QED
      BY <3>1, <3>2, <3>3 DEF ItemsOf
  <2>2. Lists(th'[a], 1, p)
    BY <1>7, <2>1 DEF Lists
  <2> QED
    BY <1>7, <2>2 DEF Kept, WillActivate, Activating
<1>8. CASE /\ r.pc = "activating" /\ th'[a].pc = "save_item" /\ UNCHANGED items
           /\ \E i \in r.todo : th'[a].pick = i /\ th'[a].todo = r.todo \ {i}
  <2>1. PICK i \in r.todo : th'[a].pick = i /\ th'[a].todo = r.todo \ {i}
    BY <1>8
  <2>2. WillActivate(r, p) => Lists(r, 1, p)
    BY <1>8 DEF WillActivate, OnItsWay
  <2>3. Lists(r, 1, p) => Lists(th'[a], 1, p) \/ th'[a].pick.part = p
    BY <2>1 DEF Lists
  <2> QED
    BY <1>8, <2>2, <2>3 DEF Kept, IsActive, WillActivate, Activating
<1>9. CASE r.pc = "save_item" /\ th'[a].pc = "activating" /\ th'[a].todo = r.todo /\ SaveItem(r.pick, "active")
  <2>1. r.pick.version = 1
    BY <1>0, <1>9 DEF ImportPlace
  <2>2. p = r.pick.part => items'[1][p].status = "active"
    BY <1>9, <2>1, SavedFirst
  <2>3. p # r.pick.part => items'[1][p] = items[1][p]
    BY <1>9, <2>1, SavedFirst
  <2>4. WillActivate(r, p) => Lists(th'[a], 1, p) \/ r.pick.part = p
    BY <1>9 DEF WillActivate, OnItsWay, Lists
  <2> QED
    BY <1>9, <2>2, <2>3, <2>4 DEF Kept, IsActive, WillActivate, Activating
<1>10. CASE r.pc = "activating" /\ r.todo = {} /\ UNCHANGED items
  <2>1. ~WillActivate(r, p)
    BY <1>10 DEF WillActivate, OnItsWay, Lists
  <2> QED
    BY <1>10, <2>1 DEF Kept, IsActive
<1> QED
  BY <1>1, <1>3, <1>4, <1>5, <1>6, <1>7, <1>8, <1>9, <1>10

\* While the first version stands no edit has happened.
LEMMA FirstStands ==
    ASSUME IInv, Placement, doc.version = 1
    PROVE  /\ 1 \in Versions /\ doc.text \in Texts /\ Pieces[doc.text] \in Nat
           /\ 0 .. Pieces[doc.text] \subseteq Parts
           /\ \A e \in Editors : th[e].pc = "idle"
           /\ \A a \in Actors : th[a].pc \in Loaded => th[a].version = 1 /\ IsCurrent(a)
           /\ \A a \in Actors : th[a].pc \in Importing => th[a].text = doc.text
           /\ \A a \in Actors : th[a].pc \in Copied => th[a].copy = doc.text
<1>1. 1 \in Versions /\ doc.text \in Texts /\ doc.text = written[1]
  BY Bounds DEF Versions, IInv, DocTrue, Given
<1>2. Pieces[doc.text] \in 0 .. MaxPieces /\ MaxPieces \in Nat
  BY <1>1, Chunked
<1>3. \A a \in Actors : /\ th[a].version <= 1 /\ th[a].version \in Nat
                        /\ th[a].pc \in Loaded => th[a].version \in 1 .. 1
                        /\ th[a].pc \in Importing => th[a].text = written[th[a].version]
                        /\ th[a].pc \in Copied => th[a].copy = written[th[a].version]
  BY Bounds DEF IInv, ThreadsKnow, Knows, Typed, Thread, Numbers
<1>4. \A a \in Actors : th[a].pc \in Loaded => th[a].version = 1 /\ IsCurrent(a)
  BY <1>3 DEF IsCurrent
<1>5. Importing \subseteq Loaded /\ Copied \subseteq Loaded
  BY DEF Importing, Copied, Loaded
<1>6. \A e \in Editors : th[e].pc = "idle"
  BY <1>3, InActors DEF Placement, EditorPlace
<1>7. 0 .. Pieces[doc.text] \subseteq Parts
  BY <1>2 DEF Parts
<1> QED
  BY <1>1, <1>2, <1>3, <1>4, <1>5, <1>6, <1>7

\* What a step of another than the worker owes it.
LEMMA JobTrueFrame ==
    ASSUME IInv, Placement, JobTrue, doc.version = 1, doc'.version = 1, doc'.text = doc.text,
           job'.status = job.status, th'[Worker].pc = th[Worker].pc, th'[Worker].part = th[Worker].part,
           th'[Worker].todo = th[Worker].todo, th'[Worker].pick = th[Worker].pick,
           \A p \in Parts : Kept(p) =>
               /\ Kept(p)'
               /\ IsActive(p) \/ WillActivate(th[Importer], p) => IsActive(p)' \/ WillActivate(th'[Importer], p),
           Counted => Counted'
    PROVE  JobTrue'
<1> DEFINE N == Pieces[doc.text]
           r == th[Worker]
<1>0. 0 .. N \subseteq Parts /\ N \in Nat
  BY FirstStands
<1>1. \A p : WillActivate(r, p) => WillActivate(th'[Worker], p)
  BY DEF WillActivate, Lists
<1>2. Shows({Importer}) => Shows({Importer})'
  BY <1>0 DEF Shows
<1>3. Shows({Worker, Importer}) => Shows({Worker, Importer})'
  BY <1>0, <1>1 DEF Shows
<1>4. ASSUME NEW k, 0 .. k \subseteq Parts, Staged(k) PROVE Staged(k)'
  BY <1>4 DEF Staged
<1>5. /\ r.pc \in {"save_progress", "progress"} => 0 .. r.part \subseteq Parts
      /\ r.pc \in {"chunk", "save_chunk"} => 0 .. r.part - 1 \subseteq Parts
  <2>1. r.pc \in {"save_progress", "progress", "chunk", "save_chunk"} => r.text = doc.text
    BY FirstStands, InActors DEF Importing
  <2>2. /\ r.pc \in {"save_progress", "progress"} => r.part \in 0 .. N
        /\ r.pc \in {"chunk", "save_chunk"} => r.part \in 1 .. N
    BY <2>1 DEF Placement, ImportPlace
  <2>3. \A k \in 0 .. N : 0 .. k \subseteq 0 .. N
    BY <1>0
  <2>4. \A k \in 1 .. N : k - 1 \in 0 .. N
    BY <1>0
  <2> QED
    BY <1>0, <2>2, <2>3, <2>4
<1>6. JobDid(r) /\ (job.status = "completed" => Shows({Importer}) /\ Counted)
  BY DEF JobTrue
<1>7. r.pc = "import" => Kept(0)'
  BY <1>0, <1>6 DEF JobDid
<1>8. r.pc \in {"save_progress", "progress"} => Staged(r.part)'
  BY <1>4, <1>5, <1>6 DEF JobDid
<1>9. r.pc \in {"chunk", "save_chunk"} => Staged(r.part - 1)'
  BY <1>4, <1>5, <1>6 DEF JobDid
<1>10. r.pc = "activate" => Staged(Pieces[doc.text])'
  BY <1>0, <1>4, <1>6 DEF JobDid
<1>11. JobDid(th[Worker])'
  BY <1>2, <1>3, <1>6, <1>7, <1>8, <1>9, <1>10 DEF JobDid, Staged
<1> QED
  BY <1>2, <1>6, <1>11 DEF JobTrue

LEMMA JobTrueImporter ==
    ASSUME IInv, Placement, JobTrue, ImportStep(Importer)
    PROVE  JobTrue'
<1> DEFINE r == th[Importer]
<1>0. Importer \in Actors /\ Only(Importer) /\ doc'.version = doc.version /\ job' = job
  BY InActors, ImportShape DEF ImportStep, ReadToImport, SaveProgress, CheckForChunk, SaveChunk, ReadForProgress,
     Activate, CheckForItem, ActivateItem, Activated, history
<1>1. r.pc \in OnItsWay \cup Activating /\ r.pc \in Loaded
  BY DEF ImportStep, ReadToImport, SaveProgress, CheckForChunk, SaveChunk, ReadForProgress, Activate,
     CheckForItem, ActivateItem, Activated, At, OnItsWay, Activating, Loaded
<1> SUFFICES ASSUME doc.version = 1 PROVE JobTrue'
  BY <1>0 DEF JobTrue
<1>2. r.version = 1 /\ IsCurrent(Importer)
  BY <1>0, <1>1, FirstStands
<1>3. \A p \in Parts : Kept(p) =>
        /\ Kept(p)'
        /\ IsActive(p) \/ WillActivate(r, p) => IsActive(p)' \/ WillActivate(th'[Importer], p)
  BY <1>2, ActivationKept
<1>4. th'[Worker] = th[Worker]
  BY <1>0, Threads, InActors DEF Only
<1>5. doc'.text = doc.text /\ (Counted => Counted')
  <2>1. CASE SaveProgress(Importer)
    <3>1. /\ r.pc = "save_progress" /\ th'[Importer].pc = IF r.part < Pieces[r.text] THEN "chunk" ELSE "activate"
          /\ doc'.text = r.copy /\ doc'.expected = Pieces[r.text] /\ doc'.completed = r.part
      BY <1>0, <1>2, <2>1, ProgressShape
    <3>2. r.text = doc.text /\ r.copy = doc.text /\ Pieces[r.text] \in Nat
      BY <1>0, <3>1, FirstStands DEF Importing, Copied
    <3>3. r.part \in 0 .. Pieces[r.text]
      BY <3>1 DEF Placement, ImportPlace
    <3>4. CASE r.part < Pieces[r.text]
      BY <3>1, <3>2, <3>4 DEF Counted, WillCount, OnItsWay
    <3>5. CASE ~(r.part < Pieces[r.text])
      <4>1. r.part = Pieces[r.text]
        BY <3>2, <3>3, <3>5
      <4> QED
        BY <3>1, <3>2, <4>1 DEF Counted
    <3> QED
      BY <3>4, <3>5
  <2>2. CASE doc' = doc /\ (WillCount(r) => WillCount(th'[Importer]))
    BY <2>2 DEF Counted
  <2> QED
    BY <1>0, <1>2, <2>1, <2>2, ImportMoves DEF WillCount, OnItsWay
<1> QED
  BY <1>0, <1>3, <1>4, <1>5, JobTrueFrame

\* A job that has not completed owes nothing where its worker has made nothing,
\* nor does one whose version has been superseded.
JobWorks == {"import", "save_progress", "chunk", "save_chunk", "progress", "activate", "activating",
             "save_item", "finish", "save_finish", "finalize"}
LEMMA JobTrueFree ==
    ASSUME doc'.version # 1 \/ (job'.status # "completed" /\ th'[Worker].pc \notin JobWorks)
    PROVE  JobTrue'
  BY DEF JobTrue, JobDid, JobWorks, Activating

\* Every chunk is staged before it is counted, all that is staged is activated.
LEMMA JobTrueWorker ==
    ASSUME IInv, Placement, JobTrue, ImportStep(Worker)
    PROVE  JobTrue'
<1> DEFINE r == th[Worker]
           q == th'[Worker]
           N == Pieces[doc.text]
<1>0. Worker \in Actors /\ Only(Worker) /\ doc'.version = doc.version /\ job' = job
  BY InActors, ImportShape DEF ImportStep, ReadToImport, SaveProgress, CheckForChunk, SaveChunk, ReadForProgress,
     Activate, CheckForItem, ActivateItem, Activated, history
<1>1. r.pc \in JobWorks /\ r.pc \in Loaded
  BY DEF ImportStep, ReadToImport, SaveProgress, CheckForChunk, SaveChunk, ReadForProgress, Activate,
     CheckForItem, ActivateItem, Activated, At, JobWorks, Loaded
<1> SUFFICES ASSUME doc.version = 1 PROVE JobTrue'
  BY <1>0 DEF JobTrue
<1>2. r.version = 1 /\ IsCurrent(Worker) /\ N \in Nat /\ 0 .. N \subseteq Parts
  BY <1>0, <1>1, FirstStands
<1>3. \A p \in Parts : Kept(p) =>
        /\ Kept(p)'
        /\ IsActive(p) \/ WillActivate(r, p) => IsActive(p)' \/ WillActivate(q, p)
  BY <1>2, ActivationKept
<1>4. th'[Importer] = th[Importer]
  BY <1>0, Threads, InActors DEF Only
<1>5. job'.status # "completed"
  <2>1. r.pc \notin {"idle", "queued"}
    BY <1>1 DEF Loaded
  <2> QED
    BY <1>0, <2>1 DEF Placement, WorkerPlace
<1>6. JobDid(r)
  BY <1>2 DEF JobTrue
<1>7. ASSUME q.pc = "save_progress", Staged(th[Worker].part)' PROVE JobTrue'
  BY <1>5, <1>7 DEF JobTrue, JobDid, Activating
<1>8. ASSUME q.pc = "progress", Staged(th[Worker].part)' PROVE JobTrue'
  BY <1>5, <1>8 DEF JobTrue, JobDid, Activating
<1>9. ASSUME q.pc \in {"chunk", "save_chunk"}, Staged(th[Worker].part - 1)' PROVE JobTrue'
  BY <1>5, <1>9 DEF JobTrue, JobDid, Activating
<1>10. ASSUME q.pc \in Activating, Shows({Worker, Importer})' PROVE JobTrue'
  BY <1>5, <1>10 DEF JobTrue, JobDid, Activating
<1>11. ASSUME NEW k \in 0 .. N, Staged(k) PROVE \A p \in 0 .. k : Kept(p)'
  <2>1. 0 .. k \subseteq Parts
    BY <1>2
  <2> QED
    BY <1>3, <1>11, <2>1 DEF Staged
<1>12. ASSUME doc' = doc, r.pc \in Activating, q.pc \in Activating PROVE JobTrue'
  <2>1. Shows({Worker, Importer})
    BY <1>6, <1>12 DEF JobDid
  <2>2. ASSUME NEW p \in 0 .. N
        PROVE  Kept(p)' /\ (IsActive(p)' \/ \E a \in {Worker, Importer} : WillActivate(th'[a], p))
    <3>1. p \in Parts /\ Kept(p) /\ (IsActive(p) \/ WillActivate(r, p) \/ WillActivate(th[Importer], p))
      BY <1>2, <2>1 DEF Shows
    <3> QED
      BY <1>3, <1>4, <3>1
  <2>3. Shows({Worker, Importer})'
    BY <1>12, <2>2 DEF Shows
  <2> QED
    BY <1>10, <1>12, <2>3
<1>13. CASE r.pc = "import" /\ q.pc = "save_progress" /\ q.part = 0
  <2>1. Kept(0) /\ 0 \in Parts
    BY <1>2, <1>6, <1>13 DEF JobDid
  <2>2. Kept(0)'
    BY <1>3, <2>1
  <2>3. Staged(th[Worker].part)'
    BY <1>13, <2>2 DEF Staged
  <2> QED
    BY <1>7, <1>13, <2>3
<1>14. CASE SaveProgress(Worker)
  <2>1. /\ r.pc = "save_progress" /\ q.part = r.part + 1
        /\ q.pc = IF r.part < Pieces[r.text] THEN "chunk" ELSE "activate"
        /\ doc'.text = r.copy
    BY <1>0, <1>2, <1>14, ProgressShape
  <2>2. r.text = doc.text /\ r.copy = doc.text
    BY <1>0, <2>1, FirstStands DEF Importing, Copied
  <2>3. r.part \in 0 .. N
    BY <2>1, <2>2 DEF Placement, ImportPlace
  <2>4. \A p \in 0 .. r.part : Kept(p)'
    BY <1>6, <1>11, <2>1, <2>3 DEF JobDid
  <2>5. CASE r.part < N
    <3>1. q.part - 1 = r.part
      BY <2>1, <2>3
    <3>2. Staged(th[Worker].part - 1)'
      BY <2>4, <3>1 DEF Staged
    <3> QED
      BY <1>9, <2>1, <2>2, <2>5, <3>2
  <2>6. CASE ~(r.part < N)
    <3>1. r.part = N
      BY <1>2, <2>3, <2>6
    <3>2. Staged(Pieces[doc.text])' /\ q.pc = "activate"
      BY <2>1, <2>2, <2>4, <2>6, <3>1 DEF Staged
    <3> QED
      BY <1>5, <3>2 DEF JobTrue, JobDid, Activating
  <2> QED
    BY <2>5, <2>6
<1>15. CASE <<r.pc, q.pc>> \in {<<"chunk", "save_chunk">>, <<"progress", "save_progress">>} /\ q.part = r.part
            /\ UNCHANGED <<items, doc>>
  <2>1. CASE r.pc = "chunk" /\ q.pc = "save_chunk"
    <3>1. Staged(r.part - 1)
      BY <1>6, <2>1 DEF JobDid
    <3>2. Staged(th[Worker].part - 1)'
      BY <1>15, <3>1 DEF Staged, Kept
    <3> QED
      BY <1>9, <2>1, <3>2
  <2>2. CASE r.pc = "progress" /\ q.pc = "save_progress"
    <3>1. Staged(r.part)
      BY <1>6, <2>2 DEF JobDid
    <3>2. Staged(th[Worker].part)'
      BY <1>15, <3>1 DEF Staged, Kept
    <3> QED
      BY <1>7, <2>2, <3>2
  <2> QED
    BY <1>15, <2>1, <2>2
<1>16. CASE /\ r.pc = "save_chunk" /\ q.pc = "progress" /\ q.part = r.part
            /\ SaveItem([version |-> r.version, part |-> r.part, text |-> r.text], "staging")
  <2>1. r.text = doc.text
    BY <1>0, <1>16, FirstStands DEF Importing
  <2>2. r.part \in 1 .. N
    BY <1>16, <2>1 DEF Placement, ImportPlace
  <2>3. r.part - 1 \in 0 .. N /\ r.part \in Parts
    BY <1>2, <2>2
  <2>4. \A p \in 0 .. r.part - 1 : Kept(p)'
    BY <1>6, <1>11, <1>16, <2>3 DEF JobDid
  <2>5. items'[1][r.part].status = "staging"
    BY <1>2, <1>16, <2>3, SavedFirst
  <2>6. \A p \in 0 .. r.part : p = r.part \/ p \in 0 .. r.part - 1
    BY <2>2
  <2>7. Staged(th[Worker].part)'
    BY <1>16, <2>4, <2>5, <2>6 DEF Staged, Kept
  <2> QED
    BY <1>8, <1>16, <2>7
<1>17. CASE r.pc = "activate" /\ q.pc = "activating" /\ UNCHANGED <<items, doc>>
  <2>1. Staged(N) /\ N \in 0 .. N
    BY <1>2, <1>6, <1>17 DEF JobDid
  <2>2. ASSUME NEW p \in 0 .. N PROVE Kept(p)' /\ (IsActive(p)' \/ WillActivate(q, p))
    <3>1. p \in Parts /\ Kept(p) /\ WillActivate(r, p)
      BY <1>2, <1>17, <2>1 DEF Staged, WillActivate, OnItsWay
    <3> QED
      BY <1>3, <3>1
  <2>3. Shows({Worker, Importer})'
    BY <1>17, <2>2 DEF Shows
  <2> QED
    BY <1>10, <1>17, <2>3 DEF Activating
<1>18. CASE /\ <<r.pc, q.pc>> \in {<<"activating", "save_item">>, <<"save_item", "activating">>}
            /\ UNCHANGED doc
  BY <1>12, <1>18 DEF Activating
<1>19. CASE r.pc = "activating" /\ r.todo = {} /\ UNCHANGED <<items, doc>> /\ q.pc = "finish"
  <2>1. Shows({Worker, Importer})
    BY <1>6, <1>19 DEF JobDid, Activating
  <2>2. \A p : ~WillActivate(r, p)
    BY <1>19 DEF WillActivate, OnItsWay, Lists
  <2>3. Shows({Importer})
    BY <2>1, <2>2 DEF Shows
  <2>4. Shows({Importer})'
    BY <1>4, <1>19, <2>3 DEF Shows, Kept, IsActive
  <2> QED
    BY <1>5, <1>19, <2>4 DEF JobTrue, JobDid, Activating
<1> QED
  BY <1>0, <1>2, <1>13, <1>14, <1>15, <1>16, <1>17, <1>18, <1>19, ImportMoves

\* The worker rests, waits, or is before it makes anything; nothing is saved.
LEMMA JobTrueSame ==
    ASSUME JobTrue, UNCHANGED <<doc, items>>, th'[Importer] = th[Importer], job'.status = job.status,
           th'[Worker].pc \notin JobWorks
    PROVE  JobTrue'
<1>1. ASSUME Shows({Importer}) PROVE Shows({Importer})'
  BY <1>1 DEF Shows, Kept, IsActive
<1>2. ASSUME Counted PROVE Counted'
  BY <1>2 DEF Counted
<1> QED
  BY <1>1, <1>2 DEF JobTrue, JobDid, JobWorks, Activating

LEMMA JobTrueSubmit ==
    ASSUME IInv, Placement, JobTrue,
           Upload \/ Shutdown \/ StartJob \/ Rerun \/ JobBreaks \/ FailJob \/ JobFailed
    PROVE  JobTrue'
<1> DEFINE r == th[Worker]
<1>0. /\ Worker \in Actors /\ WorkerPlace(r, job) /\ th \in [Actors -> Thread] /\ UNCHANGED <<doc, items>>
      /\ job \in [status : JobStates, version : Numbers] /\ Worker # Importer /\ Importer \in Actors
  BY InActors, Threads DEF Placement, Upload, Shutdown, StartJob, Rerun, JobBreaks, FailJob, JobFailed,
     IInv, Typed
<1>1. CASE Upload
  <2>1. job'.status = "queued" /\ th'[Worker].pc \in {"queued", "fail"}
    BY <1>0, <1>1, GotoPasses DEF Upload, Passes
  <2> QED
    BY <2>1, JobTrueFree DEF JobWorks
<1>2. CASE Shutdown
  <2>1. job'.status = "queued" /\ th'[Worker].pc = "fail"
    BY <1>0, <1>2, GotoPasses DEF Shutdown, Passes
  <2> QED
    BY <2>1, JobTrueFree DEF JobWorks
<1>3. CASE StartJob
  <2>1. CASE th' = [th EXCEPT ![Worker] = Resting] /\ UNCHANGED job
    <3>1. th'[Worker].pc = "idle" /\ th'[Importer] = th[Importer]
      BY <1>0, <2>1 DEF Resting
    <3> QED
      BY <1>0, <2>1, <3>1, JobTrueSame DEF JobWorks
  <2>2. CASE job' = [job EXCEPT !.status = "running"] /\ Goto(Worker, "load")
    <3>1. job'.status = "running" /\ th'[Worker].pc = "load"
      BY <1>0, <2>2, GotoPasses DEF Passes
    <3> QED
      BY <3>1, JobTrueFree DEF JobWorks
  <2> QED
    BY <1>3, <2>1, <2>2 DEF StartJob
<1>4. CASE Rerun
  <2>1. job' = job /\ th'[Worker].pc = "queued" /\ th'[Importer] = th[Importer]
    BY <1>0, <1>4, GotoPasses DEF Rerun, Passes, Only
  <2> QED
    BY <1>0, <2>1, JobTrueSame DEF JobWorks
<1>5. CASE JobBreaks
  <2>1. job' = job /\ job.status # "completed"
    BY <1>0, <1>5 DEF JobBreaks, WorkerPlace
  <2>2. th'[Worker].pc = "fail"
    BY <1>0, <1>5, GotoPasses DEF JobBreaks, Passes
  <2> QED
    BY <2>1, <2>2, JobTrueFree DEF JobWorks
<1>6. CASE FailJob
  <2>1. job' = job /\ job.status # "completed"
    BY <1>0, <1>6 DEF FailJob, WorkerPlace, At
  <2>2. th'[Worker].pc = "hiding"
    BY <1>0, <1>6 DEF FailJob, Resting
  <2> QED
    BY <2>1, <2>2, JobTrueFree DEF JobWorks
<1>7. CASE JobFailed
  <2>1. job'.status = "failed" /\ th'[Worker].pc = "idle"
    BY <1>0, <1>7 DEF JobFailed, Resting
  <2> QED
    BY <2>1, JobTrueFree DEF JobWorks
<1> QED
  BY <1>1, <1>2, <1>3, <1>4, <1>5, <1>6, <1>7

\* The summary is staged before the chunks, the counts are saved before the job
\* is completed (_save_summary, run_job).
LEMMA JobTrueRun ==
    ASSUME IInv, Placement, JobTrue,
           \/ LoadDocument \/ BindJob \/ ReadForSummary \/ SaveSummary \/ ReadToFinish
           \/ Finish \/ Finalize \/ HideItem(Worker) \/ \E x \in Texts : ParseDocument(x)
    PROVE  JobTrue'
<1> DEFINE r == th[Worker]
           N == Pieces[doc.text]
<1>0. /\ Worker \in Actors /\ Importer \in Actors /\ Worker # Importer /\ WorkerPlace(r, job) /\ r \in Thread
      /\ th \in [Actors -> Thread] /\ job \in [status : JobStates, version : Numbers]
  BY InActors, Threads DEF Placement, IInv, Typed
<1>1. /\ r.pc \notin {"idle", "queued"}
      /\ SaveSummary \/ ReadToFinish \/ Finish \/ Finalize => r.pc \in Loaded
  BY DEF LoadDocument, BindJob, ReadForSummary, SaveSummary, ReadToFinish, Finish, Finalize, HideItem,
     ParseDocument, At, Loaded
<1>2. job.status # "completed"
  BY <1>0, <1>1 DEF WorkerPlace
<1>3. ASSUME job'.status = job.status, th'[Worker].pc \notin JobWorks PROVE JobTrue'
  BY <1>2, <1>3, JobTrueFree
<1>4. ASSUME Refused(Worker), job' = job PROVE JobTrue'
  <2>1. th'[Worker].pc = "fail"
    BY <1>0, <1>4, RefusedShape DEF Passes
  <2> QED
    BY <1>3, <1>4, <2>1 DEF JobWorks
<1>5. CASE LoadDocument
  <2>1. CASE doc.version = job.version
    <3>1. th'[Worker].pc = "summary" /\ job' = job
      BY <1>0, <1>5, <2>1 DEF LoadDocument, Thread
    <3> QED
      BY <1>3, <3>1 DEF JobWorks
  <2>2. CASE doc.version # job.version
    BY <1>4, <1>5, <2>2 DEF LoadDocument
  <2> QED
    BY <2>1, <2>2
<1>6. CASE BindJob
  <2>1. th'[Worker].pc = "summary" /\ job'.status = job.status
    BY <1>0, <1>6, GotoPasses DEF BindJob, Passes
  <2> QED
    BY <1>3, <2>1 DEF JobWorks
<1>7. CASE ReadForSummary
  <2>1. CASE IsCurrent(Worker)
    <3>1. th'[Worker].pc = "save_summary" /\ job' = job
      BY <1>0, <1>7, <2>1 DEF ReadForSummary, Thread
    <3> QED
      BY <1>3, <3>1 DEF JobWorks
  <2>2. CASE ~IsCurrent(Worker)
    BY <1>4, <1>7, <2>2 DEF ReadForSummary
  <2> QED
    BY <2>1, <2>2
<1>8. CASE HideItem(Worker)
  <2>1. PICK i \in r.todo : th' = [th EXCEPT ![Worker].todo = @ \ {i}]
    BY <1>8 DEF HideItem
  <2>2. th'[Worker].pc = "hiding" /\ job' = job
    BY <1>0, <1>8, <2>1 DEF HideItem, At, Thread
  <2> QED
    BY <1>3, <2>2 DEF JobWorks
<1>9. ASSUME NEW x \in Texts, ParseDocument(x) PROVE JobTrue'
  <2> DEFINE q == [r EXCEPT !.pc = "bind", !.version = 1]
             d == [version |-> 1, text |-> x, expected |-> 0, completed |-> 0]
  <2>1. SaveDocument(Worker, d, q) /\ job' = job
    BY <1>9 DEF ParseDocument
  <2>2. 1 \in Numbers
    BY Bounds DEF Numbers
  <2>3. q \in Thread /\ q.pc = "bind"
    BY <1>0, <2>2 DEF Thread, Pcs, Loaded
  <2> HIDE DEF d, q
  <2>4. th'[Worker].pc = "bind"
    BY <1>0, <2>1, <2>3, SaveShape
  <2> QED
    BY <1>3, <2>1, <2>4 DEF JobWorks
<1>10. CASE SaveSummary
  <2>1. th'[Worker].pc = "import" /\ job' = job /\ doc' = doc
    BY <1>0, <1>10, GotoPasses DEF SaveSummary, Passes
  <2>2. ASSUME doc.version = 1 PROVE Kept(0)'
    <3>1. r.version = 1 /\ 0 \in Parts
      BY <1>0, <1>1, <1>10, <2>2, FirstStands
    <3>2. SaveItem([version |-> r.version, part |-> 0, text |-> r.copy], "staging")
      BY <1>10 DEF SaveSummary
    <3>3. items'[1][0].status = "staging"
      BY <3>1, <3>2, SavedFirst
    <3> QED
      BY <3>3 DEF Kept
  <2> QED
    BY <1>2, <2>1, <2>2 DEF JobTrue, JobDid, Activating
<1>11. CASE ReadToFinish
  <2>1. CASE IsCurrent(Worker)
    <3>1. r.pc = "finish" /\ UNCHANGED <<doc, items, job>>
      BY <1>11 DEF ReadToFinish, At
    <3>2. th'[Worker].pc = "save_finish" /\ th'[Importer] = th[Importer]
      BY <1>0, <1>11, <2>1 DEF ReadToFinish, Thread
    <3>3. doc.version = 1 => Shows({Importer})
      BY <3>1 DEF JobTrue, JobDid
    <3>4. doc.version = 1 => Shows({Importer})'
      BY <3>1, <3>2, <3>3 DEF Shows, Kept, IsActive
    <3> QED
      BY <1>2, <3>1, <3>2, <3>4 DEF JobTrue, JobDid, Activating
  <2>2. CASE ~IsCurrent(Worker)
    BY <1>4, <1>11, <2>2 DEF ReadToFinish
  <2> QED
    BY <2>1, <2>2
<1>12. CASE Finish
  <2>1. UNCHANGED <<items, job>> /\ r.pc = "save_finish"
    BY <1>12 DEF Finish, At
  <2> DEFINE n == Pieces[r.text]
             d == [doc EXCEPT !.text = r.copy, !.expected = n, !.completed = n]
             q == [r EXCEPT !.pc = "finalize"]
  <2>2. CASE SaveDocument(Worker, d, q)
    <3>1. q \in Thread /\ q.pc = "finalize"
      BY <1>0 DEF Thread, Pcs, Loaded
    <3>2. d.version = doc.version /\ d.text = r.copy /\ d.expected = n /\ d.completed = n
      BY DEF IInv, Typed
    <3> HIDE DEF d, q, n
    <3>3. Only(Worker) /\ doc' = d /\ th'[Worker].pc = "finalize"
      BY <1>0, <2>2, <3>1, SaveShape
    <3>4. th'[Importer] = th[Importer]
      BY <1>0, <3>3 DEF Only
    <3> SUFFICES ASSUME doc.version = 1 PROVE JobTrue'
      BY <3>2, <3>3 DEF JobTrue
    <3>5. r.text = doc.text /\ r.copy = doc.text
      BY <1>0, <2>1, FirstStands DEF Importing, Copied
    <3>6. Counted' /\ doc'.text = doc.text
      BY <3>2, <3>3, <3>5 DEF Counted, n
    <3>7. Shows({Importer})
      BY <2>1 DEF JobTrue, JobDid
    <3>8. Shows({Importer})'
      BY <2>1, <3>4, <3>6, <3>7 DEF Shows, Kept, IsActive
    <3> QED
      BY <1>2, <2>1, <3>3, <3>6, <3>8 DEF JobTrue, JobDid, Activating
  <2>3. CASE Refused(Worker)
    BY <1>4, <2>1, <2>3
  <2> QED
    BY <1>12, <2>2, <2>3 DEF Finish
<1>13. CASE Finalize
  <2>1. UNCHANGED <<doc, items>> /\ r.pc = "finalize"
    BY <1>13 DEF Finalize, At
  <2>2. CASE th' = [th EXCEPT ![Worker] = Resting]
    <3>1. th'[Worker].pc = "idle" /\ th'[Importer] = th[Importer]
      BY <1>0, <2>2 DEF Resting
    <3>2. doc.version = 1 => Shows({Importer}) /\ Counted
      BY <2>1 DEF JobTrue, JobDid
    <3>3. doc.version = 1 => Shows({Importer})'
      BY <2>1, <3>1, <3>2 DEF Shows, Kept, IsActive
    <3>4. doc.version = 1 => Counted'
      BY <2>1, <3>1, <3>2 DEF Counted
    <3> QED
      BY <2>1, <3>1, <3>3, <3>4 DEF JobTrue, JobDid, Activating
  <2>3. CASE Refused(Worker) /\ UNCHANGED job
    BY <1>4, <2>3
  <2> QED
    BY <1>13, <2>2, <2>3 DEF Finalize
<1> QED
  BY <1>5, <1>6, <1>7, <1>8, <1>9, <1>10, <1>11, <1>12, <1>13

\* An edit leaves the first version behind; until then the editors rest.
LEMMA JobTrueEdit ==
    ASSUME IInv, Placement, JobTrue, NEW e \in Editors,
           Outdate(e) \/ HideItem(e) \/ Answered(e) \/ \E x \in Texts : Update(e, x) \/ ConfirmBrief(e, x)
    PROVE  JobTrue'
<1>0. e \in Actors
  BY InActors
<1>1. CASE Outdate(e) \/ HideItem(e) \/ Answered(e)
  <2>1. doc' = doc /\ th[e].pc # "idle"
    BY <1>1 DEF Outdate, HideItem, Answered, At
  <2>2. doc.version # 1
    BY <2>1, FirstStands
  <2> QED
    BY <2>1, <2>2, JobTrueFree
<1>2. ASSUME NEW x \in Texts, NEW p \in {"outdate", "hiding"}, NewVersion(e, x, p) PROVE JobTrue'
  <2> DEFINE d == [version |-> doc.version + 1, text |-> x, expected |-> 0, completed |-> 0]
  <2>1. doc' = d /\ doc.version \in Nat \ {0}
    BY <1>2, Bounds DEF NewVersion, SaveDocument
  <2>2. doc'.version # 1
    BY <2>1
  <2> QED
    BY <2>2, JobTrueFree
<1> QED
  BY <1>1, <1>2 DEF Update, ConfirmBrief

\* An import by hand begins, and owes all of it; an answer of the provider.
LEMMA JobTrueQuiet ==
    ASSUME IInv, Placement, JobTrue, ImportRequest \/ \E a \in Actors : Embed(a)
    PROVE  JobTrue'
<1> SUFFICES ASSUME doc.version = 1, UNCHANGED <<doc, items, job>> PROVE JobTrue'
  <2>1. UNCHANGED <<doc, items, job>>
    BY EmbedShape DEF ImportRequest
  <2> QED
    BY <2>1, JobTrueFree
<1>1. ASSUME \A b \in {Worker} : th'[b].pc = th[b].pc /\ th'[b].part = th[b].part /\ th'[b].todo = th[b].todo
                                  /\ th'[b].pick = th[b].pick,
             \A p : WillActivate(th[Importer], p) => WillActivate(th'[Importer], p),
             WillCount(th[Importer]) => WillCount(th'[Importer])
      PROVE  JobTrue'
  <2>1. \A p \in Parts : Kept(p) =>
          /\ Kept(p)'
          /\ IsActive(p) \/ WillActivate(th[Importer], p) => IsActive(p)' \/ WillActivate(th'[Importer], p)
    BY <1>1 DEF Kept, IsActive
  <2>2. Counted => Counted'
    BY <1>1 DEF Counted
  <2> QED
    BY <1>1, <2>1, <2>2, JobTrueFrame
<1>2. CASE ImportRequest
  <2>1. /\ th[Importer] = Resting
        /\ th' = [th EXCEPT ![Importer].pc = "import", ![Importer].version = doc.version]
    BY <1>2 DEF ImportRequest
  <2>2. th'[Worker] = th[Worker] /\ th'[Importer].pc = "import"
    BY <2>1, Threads, InActors DEF IInv, Typed, Thread
  <2> QED
    BY <1>1, <2>2 DEF WillActivate, WillCount, OnItsWay
<1>3. ASSUME NEW a \in Actors, Embed(a) PROVE JobTrue'
  <2>1. \A b \in {Worker, Importer} :
          th'[b].pc = th[b].pc /\ th'[b].part = th[b].part /\ th'[b].todo = th[b].todo /\ th'[b].pick = th[b].pick
    BY <1>3, EmbedShape, InActors DEF Passes, Only
  <2> QED
    BY <1>1, <2>1 DEF WillActivate, WillCount, Lists
<1> QED
  BY <1>2, <1>3

LEMMA JobTrueInductive ==
    IInv /\ Placement /\ (~lost => JobTrue) /\ [Next]_vars => (~lost => JobTrue)'
<1> SUFFICES ASSUME IInv, Placement, ~lost => JobTrue, [Next]_vars, ~lost' PROVE JobTrue'
  OBVIOUS
<1>1. CASE Restart
  <2>1. ~lost /\ ~InFlight /\ th' = [a \in Actors |-> Resting] /\ UNCHANGED <<doc, items, job>>
    BY <1>1 DEF Restart
  <2>2. th'[Importer] = th[Importer] /\ th'[Worker].pc = "idle"
    BY <2>1, InActors DEF InFlight, Resting
  <2> QED
    BY <2>1, <2>2, JobTrueSame DEF JobWorks
<1>2. CASE UNCHANGED vars
  BY <1>2 DEF vars, history, JobTrue, JobDid, Shows, Staged, Counted, Kept, IsActive
<1>3. CASE ~Restart /\ Next
  <2>0. JobTrue
    BY <1>3, OnlyRestartLoses
  <2>1. CASE ImportRequest \/ Embed(Worker) \/ Embed(Importer) \/ \E e \in Editors : Embed(e)
    BY <2>0, <2>1, JobTrueQuiet, InActors
  <2>2. CASE ImportStep(Worker) \/ ImportStep(Importer)
    BY <2>0, <2>2, JobTrueWorker, JobTrueImporter
  <2>3. ASSUME NEW e \in Editors, EditStep(e), ~Embed(e) PROVE JobTrue'
    BY <2>0, <2>3, JobTrueEdit DEF EditStep
  <2>4. CASE Upload \/ Shutdown \/ StartJob \/ Rerun \/ JobBreaks \/ FailJob \/ JobFailed
    BY <2>0, <2>4, JobTrueSubmit
  <2>5. CASE ~ImportStep(Worker) /\ ~Embed(Worker) /\ ~(StartJob \/ FailJob \/ JobFailed) /\ JobStep
    BY <2>0, <2>5, JobTrueRun DEF JobStep
  <2> QED
    BY <1>3, <2>1, <2>2, <2>3, <2>4, <2>5 DEF Next
<1> QED
  BY <1>1, <1>2, <1>3

----------------------------------------------------------------------------

Search ==
    /\ IInv /\ Placement
    /\ ~lost => IndexServed
    /\ ~lost => ActiveOwned
    /\ ~lost => JobTrue

LEMMA SearchInit == Init => Search
<1> SUFFICES ASSUME Init PROVE IndexServed /\ ActiveOwned /\ JobTrue
  BY InitIInv, PlacementInit DEF Search
<1>1. th = [a \in Actors |-> Resting] /\ job = [status |-> "none", version |-> 0]
  BY DEF Init
<1>2. IndexServed
  BY DEF Init, IndexServed
<1>3. ActiveOwned
  <2>1. ByJob = {}
    BY DEF Init, ByJob, NoItem
  <2> QED
    BY <2>1 DEF ActiveOwned
<1>4. JobTrue
  BY <1>1, InActors DEF JobTrue, JobDid, Resting, Activating
<1> QED
  BY <1>2, <1>3, <1>4

LEMMA SearchInductive == Search /\ [Next]_vars => Search'
  BY NextIInv, PlacementInductive, ServedInductive, OwnedInductive, JobTrueInductive DEF Search

LEMMA SearchSearchable == Search => Searchable
<1> SUFFICES ASSUME Search, ~InFlight, ~lost PROVE
        /\ \A v \in Versions \ manual, p \in Parts : items[v][p].status = "active" =>
              job = [status |-> "completed", version |-> v] /\ doc.version = v
        /\ job = [status |-> "completed", version |-> doc.version] =>
              /\ doc.expected = Pieces[doc.text] /\ doc.completed = Pieces[doc.text]
              /\ \A p \in 0 .. Pieces[doc.text] : items[doc.version][p].status = "active"
        /\ doc.version # 0 => entry.state \in {"ready", "failed"}
  BY DEF Searchable
<1>0. IInv /\ Placement /\ IndexServed /\ ActiveOwned /\ JobTrue
  BY DEF Search
<1>1. \A a \in Actors : th[a] = Resting
  BY DEF InFlight
<1>2. ASSUME NEW v \in Versions \ manual, NEW p \in Parts, items[v][p].status = "active"
      PROVE  job = [status |-> "completed", version |-> v] /\ doc.version = v
  <2> DEFINE k == [version |-> v, part |-> p]
  <2>1. k \in ByJob
    BY <1>2 DEF ByJob
  <2>2. v = job.version /\ Owned(v, p)
    BY <1>0, <2>1 DEF ActiveOwned
  <2>3. \A e \in Editors : ~WillHide(th[e], v, p)
    BY <1>1, InActors DEF WillHide, Resting
  <2>4. th[Worker].pc = "idle"
    BY <1>1, InActors DEF Resting
  <2>5. job.status = "completed" /\ doc.version = v
    BY <2>2, <2>3, <2>4 DEF Owned, Loaded
  <2> QED
    BY <1>0, <2>2, <2>5 DEF IInv, Typed
<1>3. ASSUME job = [status |-> "completed", version |-> doc.version]
      PROVE  /\ doc.expected = Pieces[doc.text] /\ doc.completed = Pieces[doc.text]
             /\ \A p \in 0 .. Pieces[doc.text] : items[doc.version][p].status = "active"
  <2>1. doc.version = 1
    BY <1>0, <1>3 DEF Placement, JobPlace
  <2>2. Shows({Importer}) /\ Counted
    BY <1>0, <1>3, <2>1 DEF JobTrue
  <2>3. ~WillCount(th[Importer]) /\ \A p : ~WillActivate(th[Importer], p)
    BY <1>1, InActors DEF WillCount, WillActivate, Resting, OnItsWay, Activating
  <2> QED
    BY <2>1, <2>2, <2>3 DEF Shows, IsActive, Counted
<1>4. ASSUME doc.version # 0 PROVE entry.state \in {"ready", "failed"}
  <2>1. entry.hash \in Texts
    BY <1>0, <1>4, Facts, InActors DEF IInv, IndexTrue
  <2>2. \A a \in Actors : th[a].work # entry.hash
    BY <1>1, <2>1, Chunked DEF Resting
  <2> QED
    BY <1>0, <1>4, <2>2 DEF IndexServed
<1> QED
  BY <1>2, <1>3, <1>4

\* For any number of editors, imports by hand, reruns, versions and texts: once
\* nobody is at work and the process has not lost any, the items a job made are
\* active only if it completed and its version stands, a completed job of the
\* standing version has all its parts active and counted, and the record does
\* not wait for a vector (run_job, fail_job, invalidate_prior_version_chunks).
THEOREM SearchSeesWholeJobs == Spec => []Searchable
<1>1. Init => Search
  BY SearchInit
<1>2. Search /\ [Next]_vars => Search'
  BY SearchInductive
<1>3. Search => Searchable
  BY SearchSearchable
<1> QED
  BY <1>1, <1>2, <1>3, PTL DEF Spec

=============================================================================
