-------------------------- MODULE ExcelLogProperties --------------------------
(* What holds of exports and of the rolling Excel log. *)
EXTENDS ExcelLog

\* Every variable has its type, and no file has a number above that of the
\* requests: _next_sequence_number gives each of them to one more request.
TypeOK ==
    /\ now \in 0..MaxNow
    /\ IsFiniteSet(DOMAIN logs) /\ DOMAIN logs \subseteq Paths
    /\ \A p \in DOMAIN logs : logs[p] \in Workbook
    /\ \A f \in DOMAIN exported : exported[f] \in DOMAIN batches
    /\ batches \in Seq(Batch) /\ Len(batches) <= MaxBatches
    /\ worker \in [Workers -> Job]
    /\ overlaps \subseteq SUBSET BatchIds
    /\ crashes \in 0..MaxCrashes

Overlapped(b) == \E o \in overlaps : b \in o
Broken(p) == logs[p].state \in {"short", "long"}
Mixed(p) == \E o \in overlaps : \A b \in o : batches[b].log \in {p, NoPath}

\* append_excel_transactions rewrites the whole workbook, without a lock.  The
\* rows of a request that was answered are still in the trail, unless its
\* append overlapped another one; the workbook around them is broken only by a
\* crash or by two appends at once.  excel_log_rotator.py:3: "Every Excel
\* import/export transaction is additionally appended".
LossNeedsOverlap ==
    \A b \in DOMAIN batches :
        LET p == batches[b].log IN
        /\ p # NoPath
        /\ batches[b].outcome = "committed"
        => \/ Overlapped(b)
           \/ Broken(p) /\ (crashes > 0 \/ Mixed(p))
           \/ /\ ~Broken(p)
              /\ \A i \in logs[p].images : \E k \in DOMAIN i : i[k] = b

\* The latest file is the one with the highest number, the Developer Logs list
\* sorts by the time in front of it: the two orders agree, and no number is
\* given twice in a month, unless the two files were begun by overlapping
\* requests (_next_sequence_number, _create_new_log_file).
FilesInOrder ==
    \A p, q \in DOMAIN logs :
        /\ p # q
        /\ Month(p.stamp) = Month(q.stamp)
        /\ p.seq <= q.seq
        => \/ {logs[p].by, logs[q].by} \in overlaps
           \/ p.seq < q.seq /\ p.stamp <= q.stamp

\* Rows are added to a workbook that is still below the limit, so that it
\* exceeds the limit by less than one batch: only an append that overlapped
\* another finds a workbook that has grown since it was measured
\* (excel_log_rotator.py:95, and 106: "the *next* call will rotate").
RotationBound ==
    \A p \in DOMAIN logs : \A i \in logs[p].images : \A k \in DOMAIN i :
        \/ Overlapped(i[k])
        \/ RowsOf(SubSeq(i, 1, k - 1)) < RotateSize

\* The one last workbook of the month, left short by a save that never ended,
\* and every append of the month is at its load.
Wedged(p) ==
    /\ logs[p].state = "short"
    /\ \A q \in Folder(p.stamp) : q.seq <= p.seq /\ (p.seq <= q.seq => q = p)
    /\ \A w \in Workers :
        Appends(w) /\ Month(worker[w].path.stamp) = Month(p.stamp) =>
            At(w, "loading") /\ worker[w].path = p

\* Nothing repairs a workbook that a crash left short: every later import or
\* export of that month loads it and raises, whoever asks and however often,
\* so that none with rows to append is committed before the month ends
\* (append_excel_transactions, excel_log_rotator.py:93-98).
WedgeLasts == [][\A p \in DOMAIN logs : Wedged(p) => Wedged(p)']_vars

==============================================================================
