------------------------------- MODULE ExcelLog -------------------------------
(***************************************************************************)
(* Exports, and the trail that imports and exports leave: the rows of      *)
(* export_logs and excel_transaction_logs, and the rolling workbooks that  *)
(* append_excel_transactions loads, extends and saves as a whole, before   *)
(* get_db commits.  The handlers run in threads of one process; nothing    *)
(* orders them but the files themselves.                                   *)
(***************************************************************************)
EXTENDS Naturals, Sequences, FiniteSetsExt, SequencesExt, Functions, TLC

CONSTANTS
    Workers,    \* threads of the process
    RotateSize, \* EXCEL_LOG_ROTATE_MAX_BYTES, in rows
    MonthLength,\* ticks of the clock in a month
    MaxNow,     \* bound: the clock
    ImportRows, \* bound: how many rows a workbook that is imported has
    MaxBatches, \* bound: requests
    MaxCrashes  \* bound: crashes of the process

ASSUME ExcelLogConstantsOK ==
    /\ RotateSize \in Nat \ {0}
    /\ MonthLength \in Nat \ {0}
    /\ ImportRows \subseteq Nat
    /\ {MaxNow, MaxBatches, MaxCrashes} \subseteq Nat

VARIABLES
    now,      \* datetime.utcnow()
    logs,     \* the workbooks under EXCEL_LOG_DIR, by path
    exported, \* the workbooks under EXPORT_DIR: the batch each was written for
    batches,  \* the requests so far
    worker,   \* what each thread is at
    overlaps, \* ghost: the pairs of batches that appended at the same time
    crashes   \* crashes so far

vars == <<now, logs, exported, batches, worker, overlaps, crashes>>

BatchIds == 1..MaxBatches
Month(t) == t \div MonthLength

\* {timestamp}_{seq}.xlsx in the folder of its month.
Paths == [stamp : 0..MaxNow, seq : 1..MaxBatches]
NoPath == [stamp |-> 0, seq |-> 0]

\* A workbook is a sequence of batches.  images has those that are being saved
\* while it is open, and the one it holds once it is whole.  One that was
\* never finished has none, and is short or long by its size on the disk.
Workbook == [by : BatchIds, images : SUBSET Seq(BatchIds),
             state : {"whole", "open", "short", "long"}]

\* rows: those it appends to the log; log, file: where they and its own
\* workbook are.
Batch == [rows : ImportRows \union {0, 1}, log : Paths \union {NoPath},
          file : Nat,
          outcome : {"open", "committed", "rolled back"}]

NoFile == 0

Job == [at : {"idle", "appending", "numbering", "creating",
              "created", "loading", "saving", "closing", "done"},
        batch : 0..MaxBatches, path : [stamp : 0..MaxNow, seq : 0..MaxBatches],
        image : Seq(BatchIds)]

Idle == [at |-> "idle", batch |-> 0, path |-> NoPath, image |-> <<>>]

Init ==
    /\ now = 0
    /\ logs = <<>>
    /\ exported = <<>>
    /\ batches = <<>>
    /\ worker = [w \in Workers |-> Idle]
    /\ overlaps = {}
    /\ crashes = 0

At(w, place) == worker[w].at = place
Goes(w, place) == worker' = [worker EXCEPT ![w].at = place]

\* The request raises, or the commit does: get_db rolls back.
RollsBack(w) ==
    /\ batches' = [batches EXCEPT ![worker[w].batch].outcome = "rolled back"]
    /\ worker' = [worker EXCEPT ![w] = Idle]

-----------------------------------------------------------------------------

(* Requests *)

\* The time to the second, and eight digits of a uuid that tell two apart.
FileName(b) == b

Starts(w, rows, file) ==
    LET b == Len(batches) + 1 IN
    /\ At(w, "idle")
    /\ b \in BatchIds
    /\ batches' = Append(batches, [rows |-> rows, log |-> NoPath,
                                   file |-> file, outcome |-> "open"])
    /\ worker' = [worker EXCEPT ![w].batch = b,
                    ![w].at = IF rows = 0 THEN "done" ELSE "appending"]
    /\ UNCHANGED <<now, logs, overlaps, crashes>>

\* It writes its workbook, then its row of export_logs, and leaves one row in
\* the log however many it read.
Export(w) ==
    LET b == Len(batches) + 1 IN
    /\ Starts(w, 1, FileName(b))
    /\ exported' = [f \in DOMAIN exported \union {FileName(b)} |->
                        IF f = FileName(b) THEN b ELSE exported[f]]

\* The rows have been validated and written, or their errors collected.
Import(w) == \E n \in ImportRows : Starts(w, n, NoFile) /\ UNCHANGED exported

\* An empty workbook has no rows to append; the errors of an import for a
\* product go to excel_transaction_logs alone.
ImportUnlogged(w) == Starts(w, 0, NoFile) /\ UNCHANGED exported

-----------------------------------------------------------------------------

(* append_excel_transactions *)

Folder(t) == {p \in DOMAIN logs : Month(p.stamp) = Month(t)}

\* Near miss, used by no action: a workbook that is broken is passed over.
LatestReadable(t) ==
    LET whole == {p \in Folder(t) : logs[p].state \in {"whole", "open"}} IN
    {p \in whole : \A q \in whole : q.seq <= p.seq}

\* glob lists files in no order: of two with the highest number, either.
Latest(t) == {p \in Folder(t) : \A q \in Folder(t) : q.seq <= p.seq}

RowsOf(image) == SumFunction([k \in DOMAIN image |-> batches[image[k]].rows])

\* The sizes os.path.getsize may find to be RotateSize or more, and less.
\* What a save in progress has written so far is anything up to the whole.
Full(p) ==
    \/ logs[p].state = "long"
    \/ /\ logs[p].state \in {"whole", "open"}
       /\ \E i \in logs[p].images : RowsOf(i) >= RotateSize

\* Near miss, used by no action: at the limit there is still room.
RoomyAtLimit(p) ==
    \/ logs[p].state \in {"short", "open"}
    \/ /\ logs[p].state = "whole"
       /\ \A i \in logs[p].images : RowsOf(i) <= RotateSize

Roomy(p) ==
    \/ logs[p].state \in {"short", "open"}
    \/ /\ logs[p].state = "whole"
       /\ \A i \in logs[p].images : RowsOf(i) < RotateSize

Appends(w) == worker[w].at \in {"numbering", "creating", "created", "loading",
                                "saving", "closing"}

\* Both the folder and the latest file are those of one datetime.utcnow().
Locates(w, place, path) ==
    LET b == worker[w].batch IN
    /\ At(w, "appending")
    /\ worker' = [worker EXCEPT ![w].at = place, ![w].path = path]
    /\ overlaps' = overlaps
            \union {{b, worker[v].batch} : v \in {u \in Workers : Appends(u)}}
    /\ UNCHANGED <<now, logs, exported, batches, crashes>>

LocateLatest(w) == \E p \in Latest(now) : Roomy(p) /\ Locates(w, "loading", p)

LocateNone(w) ==
    /\ Latest(now) = {} \/ \E p \in Latest(now) : Full(p)
    /\ Locates(w, "numbering", [stamp |-> now, seq |-> 0])

\* Near miss, used by no action: the number of the last file once more.
LastSequenceNumber(t) == Max({p.seq : p \in Folder(t)} \union {0})

NextSequenceNumber(t) == Max({p.seq : p \in Folder(t)} \union {0}) + 1

\* _create_new_log_file names the file by the time the append began.
NumberFile(w) ==
    /\ At(w, "numbering")
    /\ worker' = [worker EXCEPT ![w].at = "creating",
            ![w].path.seq = NextSequenceNumber(worker[w].path.stamp)]
    /\ UNCHANGED <<now, logs, exported, batches, overlaps, crashes>>

SavingOn(p) == {w \in Workers : worker[w].path = p
                                /\ worker[w].at \in {"created", "closing"}}

\* Workbook.save truncates the file before it writes to it.
Open(w, place, image) ==
    LET p == worker[w].path
        busy == SavingOn(p) # {}
        book == [by |-> IF p \in DOMAIN logs /\ place = "closing"
                        THEN logs[p].by ELSE worker[w].batch,
                 images |-> {image} \union (IF busy THEN logs[p].images ELSE {}),
                 state |-> "open"]
    IN /\ logs' = [q \in DOMAIN logs \union {p} |-> IF q = p THEN book ELSE logs[q]]
       /\ worker' = [worker EXCEPT ![w].at = place, ![w].image = <<>>]
       /\ UNCHANGED <<now, exported, batches, overlaps, crashes>>

CreateFile(w) == At(w, "creating") /\ Open(w, "created", <<>>)

SaveFile(w) == At(w, "saving") /\ Open(w, "closing", worker[w].image)

\* Two saves of one file leave either workbook, or one that is none.
Close(w) ==
    LET p == worker[w].path IN
    \/ /\ SavingOn(p) # {w}
       /\ UNCHANGED logs
    \/ /\ SavingOn(p) = {w}
       /\ \/ \E i \in logs[p].images :
                logs' = [logs EXCEPT ![p].images = {i}, ![p].state = "whole"]
          \/ /\ Cardinality(logs[p].images) > 1
             /\ \E s \in {"short", "long"} :
                    logs' = [logs EXCEPT ![p].images = {}, ![p].state = s]

CloseCreated(w) ==
    /\ At(w, "created")
    /\ Close(w)
    /\ Goes(w, "loading")
    /\ UNCHANGED <<now, exported, batches, overlaps, crashes>>

CloseSaved(w) ==
    /\ At(w, "closing")
    /\ Close(w)
    /\ worker' = [worker EXCEPT ![w].at = "done", ![w].path = NoPath]
    /\ batches' = [batches EXCEPT ![worker[w].batch].log = worker[w].path]
    /\ UNCHANGED <<now, exported, overlaps, crashes>>

\* Near miss, used by no action: what the workbook held is not kept.
FreshImage(image, b) == <<b>>
Extended(image, b) == Append(image, b)

\* load_workbook, and the rows of the batch at its end.
Load(w) ==
    LET p == worker[w].path IN
    /\ At(w, "loading")
    /\ logs[p].state = "whole"
    /\ \E i \in logs[p].images :
        worker' = [worker EXCEPT ![w].at = "saving",
                                 ![w].image = Extended(i, worker[w].batch)]
    /\ UNCHANGED <<now, logs, exported, batches, overlaps, crashes>>

\* A workbook that is not finished is no zip file: load_workbook raises.
LoadFails(w) ==
    /\ At(w, "loading")
    /\ logs[worker[w].path].state # "whole"
    /\ RollsBack(w)
    /\ UNCHANGED <<now, logs, exported, overlaps, crashes>>

-----------------------------------------------------------------------------

(* The end of a request, the clock and the process *)

Commit(w) ==
    /\ At(w, "done")
    /\ batches' = [batches EXCEPT ![worker[w].batch].outcome = "committed"]
    /\ worker' = [worker EXCEPT ![w] = Idle]
    /\ UNCHANGED <<now, logs, exported, overlaps, crashes>>

\* The audit record or the commit fails: the row in the workbook stays.
CommitFails(w) ==
    /\ At(w, "done")
    /\ RollsBack(w)
    /\ UNCHANGED <<now, logs, exported, overlaps, crashes>>

Tick ==
    /\ now < MaxNow
    /\ now' = now + 1
    /\ UNCHANGED <<logs, exported, batches, worker, overlaps, crashes>>

\* The process ends: what was being saved stays as it is, and the database
\* forgets what was not committed.  With no request under way nothing changes.
Crash ==
    /\ \E w \in Workers : ~At(w, "idle")
    /\ crashes < MaxCrashes
    /\ crashes' = crashes + 1
    /\ worker' = [w \in Workers |-> Idle]
    /\ batches' = [b \in DOMAIN batches |->
            IF batches[b].outcome = "open"
            THEN [batches[b] EXCEPT !.outcome = "rolled back"] ELSE batches[b]]
    /\ \E size \in [{p \in DOMAIN logs : logs[p].state = "open"}
                    -> {"short", "long"}] :
        logs' = [p \in DOMAIN logs |->
            IF p \in DOMAIN size
            THEN [logs[p] EXCEPT !.images = {}, !.state = size[p]] ELSE logs[p]]
    /\ UNCHANGED <<now, exported, overlaps>>

Step(w) ==
    \/ LocateLatest(w) \/ LocateNone(w) \/ NumberFile(w)
    \/ CreateFile(w) \/ CloseCreated(w)
    \/ Load(w) \/ LoadFails(w) \/ SaveFile(w) \/ CloseSaved(w)
    \/ Commit(w) \/ CommitFails(w)

Next ==
    \/ \E w \in Workers : Export(w) \/ Import(w) \/ ImportUnlogged(w)
    \/ \E w \in Workers : Step(w)
    \/ Tick
    \/ Crash

Spec == Init /\ [][Next]_vars

==============================================================================
