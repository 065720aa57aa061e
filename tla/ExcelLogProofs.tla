---------------------------- MODULE ExcelLogProofs ----------------------------
(***************************************************************************)
(* Theorems about ExcelLog for every number of threads, requests, crashes  *)
(* and months: nothing repairs a workbook that was left short, the files   *)
(* of a month are in order and the rows of a request stay but for those of *)
(* overlapping requests, and workbooks rotate at their limit.              *)
(***************************************************************************)
EXTENDS ExcelLogProperties, FiniteSetTheorems, WellFoundedInduction, TLAPS

-----------------------------------------------------------------------------
(* Jobs and paths are records, whatever is in them.                         *)

IsPath(p) == DOMAIN p = {"stamp", "seq"}

IsJob(j) == DOMAIN j = {"at", "batch", "path", "image"} /\ IsPath(j.path)

Shaped ==
    /\ DOMAIN worker = Workers
    /\ \A w \in Workers : IsJob(worker[w])
    /\ \A p \in DOMAIN logs : IsPath(p)

\* A thread between two requests holds an empty job.
LEMMA IdleIsJob == IsJob(Idle) /\ Idle.at = "idle" /\ IsPath(NoPath)
BY DEF IsJob, Idle, NoPath, IsPath

-----------------------------------------------------------------------------
(* What a step makes of the job whose thread takes it.                      *)

\* The job of w, and only that one, becomes j.
Turns(w, j) ==
    /\ DOMAIN worker' = Workers
    /\ worker'[w] = j
    /\ \A v \in Workers : v # w => worker'[v] = worker[v]

\* It appends no more, or does not append yet.
Stops(j) == j.at \in {"idle", "appending", "done"}

\* It has just chosen its file.
Located(j) ==
    \/ /\ j.at = "loading"
       /\ \E p \in Latest(now) : Roomy(p) /\ j.path = p
    \/ /\ j.at = "numbering" /\ j.path.stamp = now
       /\ Latest(now) = {} \/ \E p \in Latest(now) : Full(p)

\* It was at i and has come to the next place of the same append.
GoesOn(i, j) ==
    /\ i.at \in {"numbering", "creating", "created", "loading", "saving"}
    /\ j.path.stamp = i.path.stamp
    /\ i.at = "loading" => logs[i.path].state = "whole"

\* A step is that of one job, which stops, chooses its file or goes on with it.
LEMMA JobSteps ==
    ASSUME Shaped, NEW w \in Workers,
           Export(w) \/ Import(w) \/ ImportUnlogged(w) \/ Step(w)
    PROVE  LET j == worker'[w] IN
           /\ Turns(w, j) /\ IsJob(j)
           /\ Stops(j) \/ Located(j) \/ GoesOn(worker[w], j)
<1> DEFINE i == worker[w]
<1> DEFINE j == worker'[w]
<1> DEFINE Goal == /\ Turns(w, j) /\ IsJob(j)
                   /\ Stops(j) \/ Located(j) \/ GoesOn(i, j)
<1>0. IsJob(i) /\ DOMAIN worker = Workers
  BY DEF Shaped
<1>1. ASSUME NEW rows, NEW file, Starts(w, rows, file) PROVE Goal
  BY <1>0, <1>1 DEF Starts, Turns, IsJob, Stops
<1>2. CASE LocateLatest(w)
  <2>1. PICK p \in Latest(now) : Roomy(p) /\ Locates(w, "loading", p)
    BY <1>2 DEF LocateLatest
  <2>2. IsPath(p)
    BY DEF Latest, Folder, Shaped
  <2> QED
    BY <1>0, <2>1, <2>2 DEF Locates, Turns, IsJob, Located
<1>3. CASE LocateNone(w)
  <2> DEFINE p == [stamp |-> now, seq |-> 0]
  <2>1. IsPath(p) /\ p.stamp = now
    BY DEF IsPath
  <2>2. Locates(w, "numbering", p)
    BY <1>3 DEF LocateNone
  <2>3. Latest(now) = {} \/ \E q \in Latest(now) : Full(q)
    BY <1>3 DEF LocateNone
  <2> HIDE DEF p
  <2> QED
    BY <1>0, <2>1, <2>2, <2>3 DEF Locates, Turns, IsJob, Located
<1>4. CASE NumberFile(w)
  <2>1. /\ i.at = "numbering"
        /\ worker' = [worker EXCEPT ![w].at = "creating",
                ![w].path.seq = NextSequenceNumber(worker[w].path.stamp)]
    BY <1>4 DEF NumberFile, At
  <2> QED
    BY <1>0, <2>1 DEF Turns, IsJob, IsPath, GoesOn
<1>5. ASSUME NEW place, NEW image, Open(w, place, image),
             i.at \in {"creating", "saving"}
      PROVE  Goal
  <2>1. worker' = [worker EXCEPT ![w].at = place, ![w].image = <<>>]
    BY <1>5 DEF Open
  <2> QED
    BY <1>0, <1>5, <2>1 DEF Turns, IsJob, GoesOn
<1>6. CASE CloseCreated(w)
  BY <1>0, <1>6 DEF CloseCreated, At, Goes, Turns, IsJob, GoesOn
<1>7. CASE CloseSaved(w)
  BY <1>0, <1>7, IdleIsJob DEF CloseSaved, Turns, IsJob, Stops
<1>8. CASE Load(w)
  <2>1. PICK image \in logs[i.path].images :
            worker' = [worker EXCEPT ![w].at = "saving",
                            ![w].image = Extended(image, worker[w].batch)]
    BY <1>8 DEF Load
  <2>2. i.at = "loading" /\ logs[i.path].state = "whole"
    BY <1>8 DEF Load, At
  <2> QED
    BY <1>0, <2>1, <2>2 DEF Turns, IsJob, GoesOn
<1>9. ASSUME worker' = [worker EXCEPT ![w] = Idle] PROVE Goal
  BY <1>0, <1>9, IdleIsJob DEF Turns, Stops
<1>10. CASE Export(w) \/ Import(w) \/ ImportUnlogged(w)
  BY <1>1, <1>10 DEF Export, Import, ImportUnlogged
<1>11. CASE CreateFile(w) \/ SaveFile(w)
  BY <1>5, <1>11 DEF CreateFile, SaveFile, At
<1>12. CASE LoadFails(w) \/ Commit(w) \/ CommitFails(w)
  BY <1>9, <1>12 DEF LoadFails, Commit, CommitFails, RollsBack
<1>13. Goal
  BY <1>2, <1>3, <1>4, <1>6, <1>7, <1>8, <1>10, <1>11, <1>12 DEF Step
<1> QED
  BY <1>13 DEF Goal

-----------------------------------------------------------------------------
(* What a step makes of the workbooks.                                      *)

\* They are as they were but for one, which the thread is creating or saving.
OnlyAt(p) ==
    /\ DOMAIN logs \subseteq DOMAIN logs'
    /\ DOMAIN logs' \subseteq DOMAIN logs \union {p}
    /\ \A q \in DOMAIN logs : q # p => logs'[q] = logs[q]

\* Only a thread that creates or saves a workbook changes it.
LEMMA BookSteps ==
    ASSUME NEW w \in Workers,
           Export(w) \/ Import(w) \/ ImportUnlogged(w) \/ Step(w)
    PROVE  \/ logs' = logs
           \/ /\ worker[w].at \in {"creating", "created", "saving", "closing"}
              /\ OnlyAt(worker[w].path)
<1> DEFINE p == worker[w].path
<1>1. ASSUME NEW place, NEW image, Open(w, place, image)
      PROVE  OnlyAt(p)
  BY <1>1 DEF Open, OnlyAt
<1>2. ASSUME Close(w) PROVE OnlyAt(p)
  <2>1. CASE logs' = logs
    BY <2>1 DEF OnlyAt
  <2>2. ASSUME NEW i, logs' = [logs EXCEPT ![p].images = {i}, ![p].state = "whole"]
        PROVE  OnlyAt(p)
    BY <2>2 DEF OnlyAt
  <2>3. ASSUME NEW s, logs' = [logs EXCEPT ![p].images = {}, ![p].state = s]
        PROVE  OnlyAt(p)
    BY <2>3 DEF OnlyAt
  <2> QED
    BY <1>2, <2>1, <2>2, <2>3 DEF Close
<1> HIDE DEF p
<1>3. CASE CreateFile(w) \/ SaveFile(w) \/ CloseCreated(w) \/ CloseSaved(w)
  BY <1>1, <1>2, <1>3 DEF CreateFile, SaveFile, CloseCreated, CloseSaved, At, p
<1>4. CASE Export(w) \/ Import(w) \/ ImportUnlogged(w)
  BY <1>4 DEF Export, Import, ImportUnlogged, Starts
<1>5. CASE LocateLatest(w) \/ LocateNone(w) \/ NumberFile(w) \/ Load(w)
            \/ LoadFails(w) \/ Commit(w) \/ CommitFails(w)
  BY <1>5 DEF LocateLatest, LocateNone, Locates, NumberFile, Load, LoadFails,
              Commit, CommitFails
<1> QED
  BY <1>3, <1>4, <1>5 DEF Step

\* A crash leaves the workbooks that were not being saved as they are.
LEMMA CrashSteps ==
    ASSUME Crash
    PROVE  /\ worker' = [w \in Workers |-> Idle]
           /\ DOMAIN logs' = DOMAIN logs
           /\ \A p \in DOMAIN logs : logs[p].state # "open" => logs'[p] = logs[p]
<1>1. PICK size \in [{p \in DOMAIN logs : logs[p].state = "open"} -> {"short", "long"}] :
        logs' = [p \in DOMAIN logs |->
            IF p \in DOMAIN size
            THEN [logs[p] EXCEPT !.images = {}, !.state = size[p]] ELSE logs[p]]
  BY DEF Crash
<1>2. worker' = [w \in Workers |-> Idle]
  BY DEF Crash
<1> QED
  BY <1>1, <1>2

\* Jobs and paths stay records.
LEMMA StepShaped == Shaped /\ [Next]_vars => Shaped'
<1> SUFFICES ASSUME Shaped, [Next]_vars PROVE Shaped'
  OBVIOUS
<1>1. ASSUME NEW w \in Workers,
             Export(w) \/ Import(w) \/ ImportUnlogged(w) \/ Step(w)
      PROVE  Shaped'
  <2>1. Turns(w, worker'[w]) /\ IsJob(worker'[w])
    BY <1>1, JobSteps
  <2>2. \A v \in Workers : IsJob(worker'[v])
    BY <2>1 DEF Turns, Shaped
  <2>3. IsPath(worker[w].path)
    BY DEF Shaped, IsJob
  <2>4. \A p \in DOMAIN logs' : IsPath(p)
    BY <1>1, <2>3, BookSteps DEF Shaped, OnlyAt
  <2> QED
    BY <2>1, <2>2, <2>4 DEF Shaped, Turns, IsJob
<1>2. CASE Crash
  <2>1. DOMAIN worker' = Workers /\ \A w \in Workers : worker'[w] = Idle
    BY <1>2, CrashSteps
  <2>2. DOMAIN logs' = DOMAIN logs
    BY <1>2, CrashSteps
  <2> QED
    BY <2>1, <2>2, IdleIsJob DEF Shaped, IsJob
<1>3. CASE Tick
  BY <1>3 DEF Tick, Shaped, IsJob
<1>4. CASE UNCHANGED vars
  BY <1>4 DEF vars, Shaped, IsJob
<1> QED
  BY <1>1, <1>2, <1>3, <1>4 DEF Next

-----------------------------------------------------------------------------
(* A month that is wedged stays wedged.                                     *)

\* No step of a thread repairs a workbook that was left short.
LEMMA WedgedStep ==
    ASSUME Shaped, NEW w \in Workers,
           Export(w) \/ Import(w) \/ ImportUnlogged(w) \/ Step(w),
           NEW p \in DOMAIN logs, Wedged(p)
    PROVE  Wedged(p)'
<1> DEFINE i == worker[w]
<1> DEFINE j == worker'[w]
<1>0. p \in Folder(p.stamp)
  BY DEF Folder
<1>1. Turns(w, j) /\ (Stops(j) \/ Located(j) \/ GoesOn(i, j))
  BY JobSteps
\* A job that writes a workbook is of another month.
<1>2. i.at \in {"numbering", "creating", "created", "saving", "closing"} =>
        Month(i.path.stamp) # Month(p.stamp)
  BY DEF Wedged, Appends, At
<1>3. /\ p \in DOMAIN logs' /\ logs'[p] = logs[p]
      /\ Folder(p.stamp)' = Folder(p.stamp)
  <2>1. CASE logs' = logs
    BY <2>1 DEF Folder
  <2>2. CASE /\ i.at \in {"creating", "created", "saving", "closing"}
             /\ OnlyAt(i.path)
    <3>1. Month(i.path.stamp) # Month(p.stamp)
      BY <1>2, <2>2
    <3>2. i.path # p
      BY <3>1
    <3> QED
      BY <2>2, <3>1, <3>2 DEF OnlyAt, Folder
  <2> QED
    BY <2>1, <2>2, BookSteps
\* Who locates the file of this month finds p, which is not full.
<1>4. ASSUME Month(now) = Month(p.stamp)
      PROVE  p \in Latest(now) /\ \A q \in Latest(now) : q = p
  <2>1. Folder(now) = Folder(p.stamp)
    BY <1>4 DEF Folder
  <2> QED
    BY <1>0, <2>1 DEF Latest, Wedged
<1>5. ~Full(p)
  BY DEF Full, Wedged
<1>6. ASSUME j.at \in {"numbering", "creating", "created", "loading", "saving",
                       "closing"},
             Month(j.path.stamp) = Month(p.stamp)
      PROVE  j.at = "loading" /\ j.path = p
  <2>1. CASE Located(j)
    <3>1. CASE /\ j.at = "loading"
               /\ \E q \in Latest(now) : Roomy(q) /\ j.path = q
      <4>1. j.path \in Latest(now) /\ Month(j.path.stamp) = Month(now)
        BY <3>1 DEF Latest, Folder
      <4> QED
        BY <1>4, <1>6, <3>1, <4>1
    <3>2. CASE /\ j.path.stamp = now
               /\ Latest(now) = {} \/ \E q \in Latest(now) : Full(q)
      BY <1>4, <1>5, <1>6, <3>2
    <3> QED
      BY <2>1, <3>1, <3>2 DEF Located
  <2>2. CASE GoesOn(i, j)
    <3>1. i.at = "loading" /\ Month(i.path.stamp) = Month(p.stamp)
      BY <1>2, <1>6, <2>2 DEF GoesOn
    <3>2. i.path = p
      BY <3>1 DEF Wedged, Appends
    <3>3. logs[p].state = "whole"
      BY <2>2, <3>1, <3>2 DEF GoesOn
    <3> QED
      BY <3>3 DEF Wedged
  <2>3. ~Stops(j)
    BY <1>6 DEF Stops
  <2> QED
    BY <1>1, <2>1, <2>2, <2>3
<1>7. ASSUME NEW v \in Workers, Appends(v)', Month(worker'[v].path.stamp) = Month(p.stamp)
      PROVE  At(v, "loading")' /\ worker'[v].path = p
  <2>1. CASE v = w
    BY <1>6, <1>7, <2>1 DEF Appends, At
  <2>2. CASE v # w
    BY <1>1, <1>7, <2>2 DEF Turns, Appends, At, Wedged
  <2> QED
    BY <2>1, <2>2
<1> QED
  BY <1>3, <1>7 DEF Wedged

\* Nor does the clock, or a crash.
LEMMA WedgedNext ==
    ASSUME Shaped, Next, NEW p \in DOMAIN logs, Wedged(p)
    PROVE  Wedged(p)'
<1>1. CASE Tick
  BY <1>1 DEF Tick, Wedged, Folder, Appends, At
<1>2. CASE Crash
  <2>1. logs'[p] = logs[p] /\ Folder(p.stamp)' = Folder(p.stamp)
    BY <1>2, CrashSteps DEF Wedged, Folder
  <2>2. \A w \in Workers : ~Appends(w)'
    BY <1>2, CrashSteps, IdleIsJob DEF Appends
  <2> QED
    BY <2>1, <2>2 DEF Wedged
<1> QED
  BY <1>1, <1>2, WedgedStep DEF Next

\* Nothing repairs a workbook that was left short: as long as every append of
\* its month is at its load it stays the last and stays short, so that the next
\* one ends there too.
THEOREM ShortWorkbookWedges == Spec => WedgeLasts
<1>1. Init => Shaped
  BY IdleIsJob DEF Init, Shaped, IsJob
<1>2. Shaped /\ [Next]_vars => [\A p \in DOMAIN logs : Wedged(p) => Wedged(p)']_vars
  BY WedgedNext
<1> QED
  BY <1>1, <1>2, StepShaped, PTL DEF Spec, WedgeLasts

-----------------------------------------------------------------------------
(* The highest number.                                                      *)

\* A set of numbers with a bound has a highest one.
LEMMA MaxExists ==
    ASSUME NEW S, S \subseteq Nat, S # {}, NEW N \in Nat, \A s \in S : s <= N
    PROVE  Max(S) \in S /\ \A s \in S : s <= Max(S)
<1> DEFINE T == {N - s : s \in S}
<1>0. \A x, y \in Nat : <<x, y>> \in OpToRel(<, Nat) <=> x < y
  BY DEF OpToRel
<1>1. T \subseteq Nat
  <2>1. \A s \in S : N - s \in Nat
    OBVIOUS
  <2> QED
    BY <2>1
<1>2. T # {}
  <2>1. PICK s \in S : TRUE
    OBVIOUS
  <2>2. N - s \in T
    BY <2>1
  <2> QED
    BY <2>2
<1>3. PICK t \in T : \A y \in T : ~ (<<y, t>> \in OpToRel(<, Nat))
  BY <1>1, <1>2, WFMin, NatLessThanWellFounded
<1>4. PICK m \in S : t = N - m
  BY <1>3
<1>5. ASSUME NEW s \in S PROVE m >= s
  <2>1. N - s \in T /\ N - s \in Nat /\ t \in Nat
    BY <1>1
  <2>2. ~ (N - s < t)
    BY <1>0, <1>3, <2>1
  <2>3. s \in Nat /\ m \in Nat
    BY <1>4
  <2> QED
    BY <1>4, <2>2, <2>3
<1>6. Max(S) \in S /\ \A s \in S : Max(S) >= s
  BY <1>4, <1>5 DEF Max
<1> QED
  BY <1>6

-----------------------------------------------------------------------------
(* The files of a month.                                                    *)

Typed(p) == p \in [stamp : Nat, seq : Nat]

IsBook(b) == DOMAIN b = {"by", "images", "state"}

Tables ==
    /\ Shaped
    /\ now \in Nat
    /\ \A p \in DOMAIN logs : Typed(p) /\ IsBook(logs[p]) /\ p.stamp <= now
    /\ \A w \in Workers : Typed(worker[w].path) /\ worker[w].path.stamp <= now
    /\ \E n \in Nat : \A p \in DOMAIN logs : p.seq <= n

Met(a, b) == {a, b} \in overlaps

\* Requests that append at the same time have met, as overlaps records it.
AppendersMet ==
    \A v, w \in Workers :
        v # w /\ Appends(v) /\ Appends(w) => Met(worker[v].batch, worker[w].batch)

HasFile ==
    \A w \in Workers : worker[w].at \in {"created", "loading", "saving", "closing"} =>
        worker[w].path \in DOMAIN logs

Before(q, p) == q.seq < p.seq /\ q.stamp <= p.stamp

\* The file a job has yet to create comes after those of its month, except for
\* files of requests it has met.
ComesLast ==
    \A w \in Workers, q \in DOMAIN logs :
        LET p == worker[w].path IN
        /\ worker[w].at \in {"numbering", "creating"}
        /\ Month(q.stamp) = Month(p.stamp)
        => \/ Met(logs[q].by, worker[w].batch)
           \/ q.stamp <= p.stamp /\ (worker[w].at = "creating" => Before(q, p))

OrderInv == Tables /\ AppendersMet /\ HasFile /\ ComesLast /\ FilesInOrder

\* Two requests overlap each other.
LEMMA MetBoth == ASSUME NEW a, NEW b, Met(a, b) PROVE Met(b, a)
<1>1. {a, b} = {b, a}
  OBVIOUS
<1> QED
  BY <1>1 DEF Met

\* The number NumberFile gives is above all others of the month.
LEMMA NextIsNext ==
    ASSUME Tables, NEW t
    PROVE  /\ NextSequenceNumber(t) \in Nat
           /\ \A p \in Folder(t) : p.seq < NextSequenceNumber(t)
<1> DEFINE S == {p.seq : p \in Folder(t)} \union {0}
<1>1. \A p \in Folder(t) : p.seq \in Nat /\ p \in DOMAIN logs
  BY DEF Tables, Typed, Folder
<1>2. S \subseteq Nat /\ S # {}
  BY <1>1
<1>3. PICK n \in Nat : \A p \in DOMAIN logs : p.seq <= n
  BY DEF Tables
<1>4. \A s \in S : s <= n
  BY <1>1, <1>3
<1>5. Max(S) \in S /\ \A s \in S : s <= Max(S)
  <2> HIDE DEF S
  <2> QED
    BY <1>2, <1>3, <1>4, MaxExists
<1>6. Max(S) \in Nat
  BY <1>2, <1>5
<1>7. NextSequenceNumber(t) = Max(S) + 1
  BY DEF NextSequenceNumber
<1>8. \A p \in Folder(t) : p.seq <= Max(S)
  BY <1>5
<1> HIDE DEF S
<1> QED
  BY <1>1, <1>6, <1>7, <1>8

-----------------------------------------------------------------------------
(* What a step does to the files and to the job of its thread.              *)

BooksKept ==
    /\ DOMAIN logs' = DOMAIN logs
    /\ \A p \in DOMAIN logs : logs'[p].by = logs[p].by /\ IsBook(logs'[p])

Stays(w) == BooksKept /\ overlaps' = overlaps

Locating(w, j) ==
    /\ BooksKept
    /\ worker[w].at = "appending"
    /\ j.batch = worker[w].batch
    /\ \A v \in Workers : Appends(v) => {j.batch, worker[v].batch} \in overlaps'
    /\ overlaps \subseteq overlaps'
    /\ \/ j.at = "loading" /\ j.path \in DOMAIN logs
       \/ j.at = "numbering" /\ j.path = [stamp |-> now, seq |-> 0]

Numbering(w, j) ==
    /\ logs' = logs /\ overlaps' = overlaps
    /\ worker[w].at = "numbering" /\ j.at = "creating"
    /\ j.batch = worker[w].batch
    /\ j.path = [worker[w].path EXCEPT !.seq = NextSequenceNumber(worker[w].path.stamp)]

Creating(w, j) ==
    /\ worker[w].at = "creating" /\ j.at = "created"
    /\ j.batch = worker[w].batch /\ j.path = worker[w].path
    /\ overlaps' = overlaps
    /\ DOMAIN logs' = DOMAIN logs \union {j.path}
    /\ \A q \in DOMAIN logs : q # j.path => logs'[q] = logs[q]
    /\ logs'[j.path].by = j.batch /\ IsBook(logs'[j.path])

Continues(w, j) ==
    /\ BooksKept /\ overlaps' = overlaps
    /\ worker[w].at \in {"created", "loading", "saving"}
    /\ j.at \in {"loading", "saving", "closing"}
    /\ j.batch = worker[w].batch /\ j.path = worker[w].path

\* The end of a save changes neither the files nor who began them.
LEMMA CloseKeeps == ASSUME Tables, NEW w \in Workers, Close(w) PROVE BooksKept
<1> DEFINE p == worker[w].path
<1>0. \A q \in DOMAIN logs : IsBook(logs[q])
  BY DEF Tables
<1>1. CASE logs' = logs
  BY <1>0, <1>1 DEF BooksKept
<1>2. ASSUME NEW i, NEW s,
             logs' = [logs EXCEPT ![p].images = i, ![p].state = s]
      PROVE  BooksKept
  BY <1>0, <1>2 DEF BooksKept, IsBook
<1> HIDE DEF p
<1>3. \/ logs' = logs
      \/ \E i, s : logs' = [logs EXCEPT ![p].images = i, ![p].state = s]
  BY DEF Close, p
<1> QED
  BY <1>1, <1>2, <1>3

\* What a step does to the files, to the overlaps and to its job.
LEMMA OrderSteps ==
    ASSUME Tables, HasFile, NEW w \in Workers,
           Export(w) \/ Import(w) \/ ImportUnlogged(w) \/ Step(w)
    PROVE  LET j == worker'[w] IN
           /\ Turns(w, j) /\ IsJob(j) /\ now' = now
           /\ \/ Stays(w) /\ Stops(j) /\ j.path \in {worker[w].path, NoPath}
              \/ Locating(w, j)
              \/ Numbering(w, j)
              \/ Creating(w, j)
              \/ Continues(w, j)
<1> DEFINE i == worker[w]
<1> DEFINE j == worker'[w]
<1> DEFINE Goal == \/ Stays(w) /\ Stops(j) /\ j.path \in {i.path, NoPath}
                   \/ Locating(w, j)
                   \/ Numbering(w, j)
                   \/ Creating(w, j)
                   \/ Continues(w, j)
<1>0. /\ IsJob(i) /\ DOMAIN worker = Workers
      /\ \A p \in DOMAIN logs : IsBook(logs[p]) /\ IsPath(p)
  BY DEF Tables, Shaped
<1>k. logs' = logs => BooksKept
  BY <1>0 DEF BooksKept
<1>j. Turns(w, j) /\ IsJob(j)
  BY JobSteps DEF Tables
<1>n. now' = now
  BY DEF Export, Import, ImportUnlogged, Starts, Step, LocateLatest, LocateNone,
         Locates, NumberFile, CreateFile, SaveFile, Open, CloseCreated,
         CloseSaved, Load, LoadFails, Commit, CommitFails
<1> SUFFICES Goal
  BY <1>j, <1>n
<1>1. ASSUME NEW rows, NEW file, Starts(w, rows, file) PROVE Goal
  BY <1>0, <1>1, <1>k DEF Starts, IsJob, Stops, Stays
<1>2. ASSUME NEW place, NEW path, Locates(w, place, path)
      PROVE  /\ i.at = "appending"
             /\ j.at = place /\ j.path = path /\ j.batch = i.batch
             /\ BooksKept /\ overlaps \subseteq overlaps'
             /\ \A v \in Workers : Appends(v) => {j.batch, worker[v].batch} \in overlaps'
  <2>1. i.at = "appending" /\ j.at = place /\ j.path = path /\ j.batch = i.batch
    BY <1>0, <1>2 DEF Locates, IsJob, At
  <2>2. overlaps' = overlaps
            \union {{i.batch, worker[v].batch} : v \in {u \in Workers : Appends(u)}}
    BY <1>2 DEF Locates
  <2> QED
    BY <1>2, <1>k, <2>1, <2>2 DEF Locates
<1>3. CASE LocateLatest(w)
  <2>1. PICK p \in Latest(now) : Locates(w, "loading", p)
    BY <1>3 DEF LocateLatest
  <2>2. p \in DOMAIN logs
    BY DEF Latest, Folder
  <2> QED
    BY <1>2, <2>1, <2>2 DEF Locating
<1>4. CASE LocateNone(w)
  <2>1. Locates(w, "numbering", [stamp |-> now, seq |-> 0])
    BY <1>4 DEF LocateNone
  <2> QED
    BY <1>2, <2>1 DEF Locating
<1>5. CASE NumberFile(w)
  <2>1. /\ i.at = "numbering" /\ logs' = logs /\ overlaps' = overlaps
        /\ worker' = [worker EXCEPT ![w].at = "creating",
                ![w].path.seq = NextSequenceNumber(i.path.stamp)]
    BY <1>5 DEF NumberFile, At
  <2> QED
    BY <1>0, <2>1 DEF IsJob, IsPath, Numbering
<1>6. CASE CreateFile(w)
  <2>1. /\ i.at = "creating" /\ overlaps' = overlaps
        /\ worker' = [worker EXCEPT ![w].at = "created", ![w].image = <<>>]
    BY <1>6 DEF CreateFile, At, Open
  <2>2. j.at = "created" /\ j.batch = i.batch /\ j.path = i.path
    BY <1>0, <2>1 DEF IsJob
  <2>3. PICK images :
            logs' = [q \in DOMAIN logs \union {i.path} |->
                        IF q = i.path
                        THEN [by |-> i.batch, images |-> images, state |-> "open"]
                        ELSE logs[q]]
    BY <1>6 DEF CreateFile, Open
  <2> QED
    BY <2>1, <2>2, <2>3 DEF Creating, IsBook
<1>7. CASE SaveFile(w)
  <2>1. /\ i.at = "saving" /\ overlaps' = overlaps
        /\ worker' = [worker EXCEPT ![w].at = "closing", ![w].image = <<>>]
    BY <1>7 DEF SaveFile, At, Open
  <2>2. j.at = "closing" /\ j.batch = i.batch /\ j.path = i.path
    BY <1>0, <2>1 DEF IsJob
  <2>3. i.path \in DOMAIN logs
    BY <2>1 DEF HasFile
  <2>4. PICK images :
            logs' = [q \in DOMAIN logs \union {i.path} |->
                        IF q = i.path
                        THEN [by |-> logs[i.path].by, images |-> images, state |-> "open"]
                        ELSE logs[q]]
    BY <1>7, <2>3 DEF SaveFile, Open
  <2>5. BooksKept
    BY <1>0, <2>3, <2>4 DEF BooksKept, IsBook
  <2> QED
    BY <2>1, <2>2, <2>5 DEF Continues
<1>8. CASE CloseCreated(w)
  <2>1. j.at = "loading" /\ j.batch = i.batch /\ j.path = i.path /\ i.at = "created"
    BY <1>0, <1>8 DEF CloseCreated, At, Goes, IsJob
  <2>2. BooksKept /\ overlaps' = overlaps
    BY <1>8, CloseKeeps DEF CloseCreated
  <2> QED
    BY <2>1, <2>2 DEF Continues
<1>9. CASE CloseSaved(w)
  <2>1. j.at = "done" /\ j.path = NoPath
    BY <1>0, <1>9 DEF CloseSaved, IsJob
  <2>2. BooksKept /\ overlaps' = overlaps
    BY <1>9, CloseKeeps DEF CloseSaved
  <2> QED
    BY <2>1, <2>2 DEF Stays, Stops
<1>10. CASE Load(w)
  <2>1. PICK image \in logs[i.path].images :
            worker' = [worker EXCEPT ![w].at = "saving",
                            ![w].image = Extended(image, worker[w].batch)]
    BY <1>10 DEF Load
  <2>2. i.at = "loading" /\ logs' = logs /\ overlaps' = overlaps
    BY <1>10 DEF Load, At
  <2> QED
    BY <1>0, <1>k, <2>1, <2>2 DEF IsJob, Continues
<1>11. CASE LoadFails(w) \/ Commit(w) \/ CommitFails(w)
  <2>1. worker' = [worker EXCEPT ![w] = Idle] /\ logs' = logs /\ overlaps' = overlaps
    BY <1>11 DEF LoadFails, Commit, CommitFails, RollsBack
  <2>2. j = Idle
    BY <1>0, <2>1
  <2>3. Stops(j) /\ j.path = NoPath
    BY <2>2 DEF Idle, Stops
  <2> QED
    BY <1>k, <2>1, <2>3 DEF Stays
<1>12. CASE Export(w) \/ Import(w) \/ ImportUnlogged(w)
  BY <1>1, <1>12 DEF Export, Import, ImportUnlogged
<1> QED
  BY <1>3, <1>4, <1>5, <1>6, <1>7, <1>8, <1>9, <1>10, <1>11, <1>12 DEF Step

-----------------------------------------------------------------------------
(* The files of a month are in order.                                       *)

\* There are no files at first.
LEMMA InitOrder == ExcelLogConstantsOK /\ Init => OrderInv
<1> SUFFICES ASSUME Init PROVE OrderInv
  OBVIOUS
<1>1. /\ now = 0 /\ DOMAIN logs = {} /\ DOMAIN worker = Workers
      /\ \A w \in Workers : worker[w] = Idle
  BY DEF Init
<1>2. Typed(NoPath) /\ NoPath.stamp = 0
  BY DEF Typed, NoPath
<1>3. IsJob(Idle) /\ Idle.at = "idle" /\ Idle.path = NoPath
  BY IdleIsJob DEF Idle
<1>4. Tables
  <2>1. \E n \in Nat : \A p \in DOMAIN logs : p.seq <= n
    BY <1>1
  <2> QED
    BY <1>1, <1>2, <1>3, <2>1 DEF Tables, Shaped
<1>5. AppendersMet /\ HasFile /\ ComesLast
  BY <1>1, <1>3 DEF AppendersMet, HasFile, ComesLast, Appends
<1>6. FilesInOrder
  BY <1>1 DEF FilesInOrder
<1> QED
  BY <1>4, <1>5, <1>6 DEF OrderInv

\* The records of the files stay well-formed.
LEMMA StepTables ==
    ASSUME OrderInv, NEW w \in Workers,
           Export(w) \/ Import(w) \/ ImportUnlogged(w) \/ Step(w)
    PROVE  Tables'
<1> DEFINE i == worker[w]
<1> DEFINE j == worker'[w]
<1>0. /\ Tables /\ HasFile /\ Shaped /\ now \in Nat
      /\ \A p \in DOMAIN logs : Typed(p) /\ IsBook(logs[p]) /\ p.stamp <= now
      /\ \A v \in Workers : Typed(worker[v].path) /\ worker[v].path.stamp <= now
  BY DEF OrderInv, Tables
<1>1. /\ Turns(w, j) /\ now' = now
      /\ \/ Stays(w) /\ Stops(j) /\ j.path \in {i.path, NoPath}
         \/ Locating(w, j)
         \/ Numbering(w, j)
         \/ Creating(w, j)
         \/ Continues(w, j)
  BY <1>0, OrderSteps
<1>2. Shaped'
  BY <1>0, StepShaped DEF Next
<1>3. Typed(j.path) /\ j.path.stamp <= now
  <2>1. Typed(NoPath) /\ NoPath.stamp <= now
    BY <1>0 DEF Typed, NoPath
  <2>2. CASE Numbering(w, j)
    <3>1. NextSequenceNumber(i.path.stamp) \in Nat
      BY <1>0, NextIsNext
    <3> QED
      BY <1>0, <2>2, <3>1 DEF Numbering, Typed
  <2>3. CASE Locating(w, j)
    BY <1>0, <2>3 DEF Locating, Typed
  <2> QED
    BY <1>0, <1>1, <2>1, <2>2, <2>3 DEF Creating, Continues
<1>4. \A v \in Workers : Typed(worker'[v].path) /\ worker'[v].path.stamp <= now
  BY <1>0, <1>1, <1>3 DEF Turns
<1>5. \A p \in DOMAIN logs' : Typed(p) /\ IsBook(logs'[p]) /\ p.stamp <= now
  <2>1. CASE BooksKept
    BY <1>0, <2>1 DEF BooksKept
  <2>2. CASE logs' = logs
    BY <1>0, <2>2 DEF IsBook
  <2>3. CASE Creating(w, j)
    BY <1>0, <1>3, <2>3 DEF Creating
  <2> QED
    BY <1>1, <2>1, <2>2, <2>3 DEF Stays, Locating, Numbering, Continues
<1>6. \E n \in Nat : \A p \in DOMAIN logs' : p.seq <= n
  <2>1. PICK n \in Nat : \A p \in DOMAIN logs : p.seq <= n
    BY <1>0 DEF Tables
  <2>2. CASE DOMAIN logs' = DOMAIN logs
    BY <2>1, <2>2
  <2>3. CASE DOMAIN logs' = DOMAIN logs \union {j.path}
    <3>1. j.path.seq \in Nat /\ \A p \in DOMAIN logs : p.seq \in Nat
      BY <1>0, <1>3 DEF Typed
    <3>2. n + j.path.seq \in Nat
      BY <3>1
    <3>3. \A p \in DOMAIN logs' : p.seq <= n + j.path.seq
      BY <2>1, <2>3, <3>1
    <3> QED
      BY <3>2, <3>3
  <2> QED
    BY <1>1, <2>2, <2>3 DEF Stays, BooksKept, Locating, Numbering, Creating, Continues
<1> QED
  BY <1>0, <1>1, <1>2, <1>4, <1>5, <1>6 DEF Tables

\* Who appends at the same time has met, and no file is ever removed.
LEMMA StepMet ==
    ASSUME OrderInv, NEW w \in Workers,
           Export(w) \/ Import(w) \/ ImportUnlogged(w) \/ Step(w)
    PROVE  AppendersMet' /\ HasFile' /\ overlaps \subseteq overlaps'
<1> DEFINE i == worker[w]
<1> DEFINE j == worker'[w]
<1>1. /\ Turns(w, j)
      /\ \/ Stays(w) /\ Stops(j) /\ j.path \in {i.path, NoPath}
         \/ Locating(w, j)
         \/ Numbering(w, j)
         \/ Creating(w, j)
         \/ Continues(w, j)
  BY OrderSteps DEF OrderInv
<1>2. overlaps \subseteq overlaps' /\ DOMAIN logs \subseteq DOMAIN logs'
  BY <1>1 DEF Stays, BooksKept, Locating, Numbering, Creating, Continues
<1>3. ASSUME NEW v \in Workers, v # w, Appends(v), Appends(w)'
      PROVE  {j.batch, worker[v].batch} \in overlaps'
  <2>1. CASE Locating(w, j)
    BY <1>1, <1>3, <2>1 DEF Locating, Met, Turns
  <2>2. CASE ~Locating(w, j)
    <3>1. Appends(w) /\ j.batch = i.batch
      BY <1>1, <1>3, <2>2
      DEF Stays, Stops, Numbering, Creating, Continues, Appends
    <3>2. Met(i.batch, worker[v].batch)
      BY <1>3, <3>1 DEF OrderInv, AppendersMet
    <3> QED
      BY <1>1, <1>2, <1>3, <3>1, <3>2 DEF Met, Turns
  <2> QED
    BY <2>1, <2>2
<1>4. AppendersMet'
  <2> SUFFICES ASSUME NEW u \in Workers, NEW v \in Workers, u # v,
                      Appends(u)', Appends(v)'
               PROVE  Met(worker[u].batch, worker[v].batch)'
    BY DEF AppendersMet
  <2>1. CASE u = w
    <3>1. Appends(v) /\ worker'[v] = worker[v]
      BY <1>1, <2>1 DEF Turns, Appends
    <3> QED
      BY <1>3, <2>1, <3>1 DEF Met
  <2>2. CASE v = w
    <3>1. Appends(u) /\ worker'[u] = worker[u]
      BY <1>1, <2>2 DEF Turns, Appends
    <3>2. {worker'[v].batch, worker'[u].batch} \in overlaps'
      BY <1>3, <2>2, <3>1 DEF Met
    <3>3. {worker'[v].batch, worker'[u].batch} = {worker'[u].batch, worker'[v].batch}
      OBVIOUS
    <3> QED
      BY <3>2, <3>3 DEF Met
  <2>3. CASE u # w /\ v # w
    <3>1. /\ Appends(u) /\ worker'[u] = worker[u]
          /\ Appends(v) /\ worker'[v] = worker[v]
      BY <1>1, <2>3 DEF Turns, Appends
    <3> QED
      BY <1>2, <3>1 DEF OrderInv, AppendersMet, Met
  <2> QED
    BY <2>1, <2>2, <2>3
<1>5. HasFile'
  <2> SUFFICES ASSUME NEW v \in Workers,
                      worker'[v].at \in {"created", "loading", "saving", "closing"}
               PROVE  worker'[v].path \in DOMAIN logs'
    BY DEF HasFile
  <2>1. CASE v # w
    BY <1>1, <1>2, <2>1 DEF Turns, OrderInv, HasFile
  <2>2. CASE v = w
    BY <1>1, <1>2, <2>2 DEF Stops, Locating, Numbering, Creating, Continues, OrderInv, HasFile
  <2> QED
    BY <2>1, <2>2
<1> QED
  BY <1>2, <1>4, <1>5

\* A number that is taken from the folder stays the next one but for the files
\* of requests it met.
LEMMA StepComesLast ==
    ASSUME OrderInv, NEW w \in Workers,
           Export(w) \/ Import(w) \/ ImportUnlogged(w) \/ Step(w)
    PROVE  ComesLast'
<1> DEFINE i == worker[w]
<1> DEFINE j == worker'[w]
<1>0. Tables /\ HasFile /\ now \in Nat
  BY DEF OrderInv, Tables
<1>1. /\ Turns(w, j) /\ now' = now
      /\ \/ Stays(w) /\ Stops(j) /\ j.path \in {i.path, NoPath}
         \/ Locating(w, j)
         \/ Numbering(w, j)
         \/ Creating(w, j)
         \/ Continues(w, j)
  BY <1>0, OrderSteps
<1>2. overlaps \subseteq overlaps'
  BY StepMet
<1> SUFFICES ASSUME NEW v \in Workers, NEW q \in DOMAIN logs',
                    worker'[v].at \in {"numbering", "creating"},
                    Month(q.stamp) = Month(worker'[v].path.stamp)
             PROVE  \/ {logs'[q].by, worker'[v].batch} \in overlaps'
                    \/ /\ q.stamp <= worker'[v].path.stamp
                       /\ worker'[v].at = "creating" => Before(q, worker'[v].path)
  BY DEF ComesLast, Met, Before
<1>3. CASE v = w
  <2>1. CASE Locating(w, j)
    <3>1. j.at = "numbering" /\ j.path.stamp = now /\ q \in DOMAIN logs
      BY <1>3, <2>1 DEF Locating, BooksKept
    <3> QED
      BY <1>3, <3>1, <1>0 DEF Tables
  <2>2. CASE Numbering(w, j)
    <3>1. /\ q \in DOMAIN logs /\ logs'[q].by = logs[q].by
          /\ i.at = "numbering" /\ j.batch = i.batch
          /\ j.path = [i.path EXCEPT !.seq = NextSequenceNumber(i.path.stamp)]
      BY <2>2 DEF Numbering
    <3>2. /\ j.path.stamp = i.path.stamp
          /\ j.path.seq = NextSequenceNumber(i.path.stamp)
      BY <1>0, <3>1 DEF Tables, Typed
    <3>3. q.seq < j.path.seq
      BY <1>0, <1>3, <3>1, <3>2, NextIsNext DEF Folder
    <3>4. Met(logs[q].by, i.batch) \/ q.stamp <= i.path.stamp
      BY <1>3, <3>1, <3>2 DEF OrderInv, ComesLast
    <3> QED
      BY <1>2, <1>3, <3>1, <3>2, <3>3, <3>4 DEF Met, Before
  <2> QED
    BY <1>1, <1>3, <2>1, <2>2 DEF Stops, Creating, Continues
<1>4. CASE v # w
  <2>1. worker'[v] = worker[v]
    BY <1>1, <1>4 DEF Turns
  <2>2. CASE q \in DOMAIN logs /\ logs'[q].by = logs[q].by
    BY <1>2, <2>1, <2>2 DEF OrderInv, ComesLast, Met
  <2>3. CASE Creating(w, j) /\ q = j.path
    <3>1. Appends(w) /\ Appends(v) /\ logs'[q].by = i.batch
      BY <2>1, <2>3 DEF Creating, Appends
    <3> QED
      BY <1>2, <1>4, <2>1, <3>1 DEF OrderInv, AppendersMet, Met
  <2> QED
    BY <1>1, <2>2, <2>3
    DEF Stays, BooksKept, Locating, Numbering, Creating, Continues
<1> QED
  BY <1>3, <1>4

\* One pair of files, either of which may be the one that is created.
LEMMA StepFilesInOrder ==
    ASSUME OrderInv, NEW w \in Workers,
           Export(w) \/ Import(w) \/ ImportUnlogged(w) \/ Step(w)
    PROVE  FilesInOrder'
<1> DEFINE i == worker[w]
<1> DEFINE j == worker'[w]
<1>0. Tables /\ HasFile
  BY DEF OrderInv
<1>1. \/ Stays(w) /\ Stops(j) /\ j.path \in {i.path, NoPath}
      \/ Locating(w, j)
      \/ Numbering(w, j)
      \/ Creating(w, j)
      \/ Continues(w, j)
  BY <1>0, OrderSteps
<1>2. overlaps \subseteq overlaps'
  BY StepMet
<1> SUFFICES ASSUME NEW p \in DOMAIN logs', NEW q \in DOMAIN logs', p # q,
                    Month(p.stamp) = Month(q.stamp), p.seq <= q.seq
             PROVE  \/ {logs'[p].by, logs'[q].by} \in overlaps'
                    \/ p.seq < q.seq /\ p.stamp <= q.stamp
  BY DEF FilesInOrder
<1>3. CASE /\ p \in DOMAIN logs /\ logs'[p].by = logs[p].by
           /\ q \in DOMAIN logs /\ logs'[q].by = logs[q].by
  BY <1>2, <1>3 DEF OrderInv, FilesInOrder
<1>4. CASE Creating(w, j)
  <2>1. /\ i.at = "creating" /\ j.path = i.path /\ j.batch = i.batch
        /\ logs'[i.path].by = i.batch
        /\ DOMAIN logs' = DOMAIN logs \union {i.path}
        /\ \A r \in DOMAIN logs : r # i.path => logs'[r] = logs[r]
    BY <1>4 DEF Creating
  <2>2. CASE q = i.path
    <3>1. p \in DOMAIN logs /\ logs'[p].by = logs[p].by
      BY <2>1, <2>2
    <3>2. Met(logs[p].by, i.batch) \/ Before(p, i.path)
      BY <2>1, <2>2, <3>1 DEF OrderInv, ComesLast
    <3> QED
      BY <1>2, <2>1, <2>2, <3>1, <3>2 DEF Met, Before
  <2>3. CASE p = i.path
    <3>1. q \in DOMAIN logs /\ logs'[q].by = logs[q].by
      BY <2>1, <2>3
    <3>2. Met(logs[q].by, i.batch) \/ Before(q, i.path)
      BY <2>1, <2>3, <3>1 DEF OrderInv, ComesLast
    <3>3. ~Before(q, i.path)
      <4>1. q.seq \in Nat /\ i.path.seq \in Nat
        BY <1>0, <3>1 DEF Tables, Typed
      <4> QED
        BY <2>3, <4>1 DEF Before
    <3>4. Met(i.batch, logs[q].by)
      BY <3>2, <3>3, MetBoth
    <3> QED
      BY <1>2, <2>1, <2>3, <3>1, <3>4 DEF Met
  <2>4. CASE p # i.path /\ q # i.path
    BY <1>3, <2>1, <2>4
  <2> QED
    BY <2>2, <2>3, <2>4
<1> QED
  BY <1>1, <1>3, <1>4 DEF Stays, BooksKept, Locating, Numbering, Continues

\* A crash keeps the order of the files.
LEMMA CrashOrder == ASSUME OrderInv, Crash PROVE OrderInv'
<1>1. /\ \A w \in Workers : worker'[w] = Idle
      /\ DOMAIN logs' = DOMAIN logs /\ now' = now /\ overlaps' = overlaps
  BY CrashSteps DEF Crash
<1>2. \A p \in DOMAIN logs : IsBook(logs[p])
  BY DEF OrderInv, Tables
<1>3. \A p \in DOMAIN logs : IsBook(logs'[p]) /\ logs'[p].by = logs[p].by
  <2>1. PICK size \in [{p \in DOMAIN logs : logs[p].state = "open"} -> {"short", "long"}] :
          logs' = [p \in DOMAIN logs |->
              IF p \in DOMAIN size
              THEN [logs[p] EXCEPT !.images = {}, !.state = size[p]] ELSE logs[p]]
    BY DEF Crash
  <2> QED
    BY <1>2, <2>1 DEF IsBook
<1>4. Idle.at = "idle" /\ Idle.path = NoPath /\ Typed(NoPath) /\ NoPath.stamp = 0
  BY DEF Idle, NoPath, Typed
<1>5. Tables'
  <2>1. Shaped'
    BY StepShaped DEF Next, OrderInv, Tables
  <2>2. /\ now' \in Nat
        /\ \A p \in DOMAIN logs' : Typed(p) /\ IsBook(logs'[p]) /\ p.stamp <= now'
    BY <1>1, <1>3 DEF OrderInv, Tables
  <2>3. \A w \in Workers : Typed(worker'[w].path) /\ worker'[w].path.stamp <= now'
    BY <1>1, <1>4, <2>2
  <2>4. \E n \in Nat : \A p \in DOMAIN logs' : p.seq <= n
    BY <1>1 DEF OrderInv, Tables
  <2> QED
    BY <2>1, <2>2, <2>3, <2>4 DEF Tables
<1>6. AppendersMet' /\ HasFile' /\ ComesLast'
  BY <1>1, <1>4 DEF AppendersMet, HasFile, ComesLast, Appends
<1>7. FilesInOrder'
  BY <1>1, <1>3 DEF OrderInv, FilesInOrder
<1> QED
  BY <1>5, <1>6, <1>7 DEF OrderInv

\* Every step keeps the order of the files.
LEMMA StepOrder == OrderInv /\ [Next]_vars => OrderInv'
<1> SUFFICES ASSUME OrderInv, [Next]_vars PROVE OrderInv'
  OBVIOUS
<1>1. ASSUME NEW w \in Workers,
             Export(w) \/ Import(w) \/ ImportUnlogged(w) \/ Step(w)
      PROVE  OrderInv'
  BY <1>1, StepTables, StepMet, StepComesLast, StepFilesInOrder DEF OrderInv
<1>2. CASE Tick \/ UNCHANGED vars
  <2>1. logs' = logs /\ worker' = worker /\ overlaps' = overlaps
    BY <1>2 DEF Tick, vars
  <2>2. now \in Nat /\ now' \in Nat /\ now <= now'
    BY <1>2 DEF Tick, vars, OrderInv, Tables
  <2>3. Tables'
    <3>1. \A p \in DOMAIN logs : p.stamp \in Nat /\ p.stamp <= now'
      BY <2>2 DEF OrderInv, Tables, Typed
    <3>2. \A w \in Workers : worker[w].path.stamp <= now'
      BY <2>2 DEF OrderInv, Tables, Typed
    <3> QED
      BY <2>1, <2>2, <3>1, <3>2 DEF OrderInv, Tables, Shaped, IsBook, IsJob
  <2>4. AppendersMet' /\ HasFile' /\ ComesLast' /\ FilesInOrder'
    BY <2>1 DEF OrderInv, AppendersMet, HasFile, ComesLast, FilesInOrder, Met, Appends
  <2> QED
    BY <2>3, <2>4 DEF OrderInv
<1> QED
  BY <1>1, <1>2, CrashOrder DEF Next

\* However many threads append and wherever the process crashes, the numbers of
\* the files of a month follow the times in front of them, and none is given
\* twice, unless the two files were begun by requests that appended at once.
THEOREM LogFilesInOrder == Spec => []FilesInOrder
<1>1. Init => OrderInv
  BY InitOrder, ExcelLogConstantsOK
<1>2. OrderInv => FilesInOrder
  BY DEF OrderInv
<1> QED
  BY <1>1, <1>2, StepOrder, PTL DEF Spec

-----------------------------------------------------------------------------
(* The numbers of the files: there are no more of them than requests.       *)

\* The requests under way are different ones, and none begins two files.
OneFileEach ==
    /\ \A w \in Workers : ~At(w, "idle") => worker[w].batch \in DOMAIN batches
    /\ \A v, w \in Workers :
        v # w /\ ~At(v, "idle") /\ ~At(w, "idle") => worker[v].batch # worker[w].batch
    /\ \A p \in DOMAIN logs : logs[p].by \in DOMAIN batches
    /\ \A p, q \in DOMAIN logs : logs[p].by = logs[q].by => p = q
    /\ \A w \in Workers, p \in DOMAIN logs :
        worker[w].at \in {"appending", "numbering", "creating"} =>
            logs[p].by # worker[w].batch

\* Each number up to n was given in the month of t.
Given(t, n) == \A s \in 1..n : \E q \in Folder(t) : q.seq = s

NoGaps ==
    /\ \A p \in DOMAIN logs : Given(p.stamp, p.seq)
    /\ \A w \in Workers :
        At(w, "creating") => /\ worker[w].path \in Paths
                             /\ Given(worker[w].path.stamp, worker[w].path.seq - 1)

TypeInv == OrderInv /\ TypeOK /\ OneFileEach /\ NoGaps

\* The number NumberFile gives follows one that was given, if any was.
LEMMA NextFollows ==
    ASSUME Tables, NEW t
    PROVE  LET n == NextSequenceNumber(t) IN
           /\ n \in Nat \ {0}
           /\ n = 1 \/ \E p \in Folder(t) : p.seq = n - 1
<1> DEFINE S == {p.seq : p \in Folder(t)} \union {0}
<1>1. \A p \in Folder(t) : p.seq \in Nat /\ p \in DOMAIN logs
  BY DEF Tables, Typed, Folder
<1>2. S \subseteq Nat /\ S # {}
  BY <1>1
<1>3. PICK n \in Nat : \A p \in DOMAIN logs : p.seq <= n
  BY DEF Tables
<1>4. \A s \in S : s <= n
  BY <1>1, <1>3
<1>5. Max(S) \in S
  <2> HIDE DEF S
  <2> QED
    BY <1>2, <1>3, <1>4, MaxExists
<1>6. Max(S) \in Nat
  BY <1>2, <1>5
<1>7. NextSequenceNumber(t) = Max(S) + 1
  BY DEF NextSequenceNumber
<1>8. Max(S) = 0 \/ \E p \in Folder(t) : p.seq = Max(S)
  BY <1>5
<1> HIDE DEF S
<1> QED
  BY <1>6, <1>7, <1>8

\* Numbers that different requests gave are not more than the requests.
LEMMA Pigeons ==
    ASSUME NEW n \in Nat, NEW m \in Nat, NEW f \in [1..n -> 1..m],
           \A x, y \in 1..n : f[x] = f[y] => x = y
    PROVE  n <= m
<1>1. IsFiniteSet(1..n) /\ Cardinality(1..n) = n
  BY FS_Interval
<1>2. IsFiniteSet(1..m) /\ Cardinality(1..m) = m
  BY FS_Interval
<1> QED
  BY <1>1, <1>2, FS_PigeonHole

\* The number of a new file is not above the number of requests: each lower one
\* was given to another.
LEMMA NumbersFit ==
    ASSUME TypeInv, NEW w \in Workers, At(w, "numbering")
    PROVE  LET t == worker[w].path.stamp
               n == NextSequenceNumber(t)
           IN  n \in 1..MaxBatches /\ Given(t, n - 1)
<1> DEFINE t == worker[w].path.stamp
<1> DEFINE n == NextSequenceNumber(t)
<1> DEFINE m == Len(batches)
<1>0. /\ Tables /\ OneFileEach /\ NoGaps /\ m \in Nat /\ m <= MaxBatches
      /\ DOMAIN batches = 1..m /\ MaxBatches \in Nat
  BY ExcelLogConstantsOK DEF TypeInv, TypeOK, OrderInv
<1>1. n \in Nat \ {0} /\ (n = 1 \/ \E p \in Folder(t) : p.seq = n - 1)
  BY <1>0, NextFollows
<1>2. Given(t, n - 1)
  <2>1. CASE n = 1
    BY <2>1 DEF Given
  <2>2. ASSUME NEW p \in Folder(t), p.seq = n - 1 PROVE Given(t, n - 1)
    <3>1. p \in DOMAIN logs /\ Folder(p.stamp) = Folder(t)
      BY DEF Folder
    <3> QED
      BY <1>0, <2>2, <3>1 DEF NoGaps, Given
  <2> QED
    BY <1>1, <2>1, <2>2
<1> HIDE DEF n
<1> DEFINE F(s) == CHOOSE q \in Folder(t) : q.seq = s
<1>3. \A s \in 1..(n - 1) : F(s) \in DOMAIN logs /\ F(s).seq = s
  <2>1. \A s \in 1..(n - 1) : F(s) \in Folder(t) /\ F(s).seq = s
    BY <1>2 DEF Given
  <2> QED
    BY <2>1 DEF Folder
<1> HIDE DEF F
<1> DEFINE f == [s \in 1..n |-> IF s = n THEN worker[w].batch ELSE logs[F(s)].by]
<1>4. f \in [1..n -> 1..m]
  <2>1. worker[w].batch \in 1..m
    BY <1>0 DEF OneFileEach, At
  <2>2. ASSUME NEW s \in 1..n, s # n PROVE logs[F(s)].by \in 1..m
    <3>1. s \in 1..(n - 1)
      BY <1>1, <2>2
    <3> QED
      BY <1>0, <1>3, <3>1 DEF OneFileEach
  <2> QED
    BY <2>1, <2>2
<1>5. ASSUME NEW x \in 1..n, NEW y \in 1..n, f[x] = f[y] PROVE x = y
  <2>1. ASSUME NEW s \in 1..n, s # n
        PROVE  F(s) \in DOMAIN logs /\ F(s).seq = s /\ logs[F(s)].by # worker[w].batch
    <3>1. s \in 1..(n - 1)
      BY <1>1, <2>1
    <3> QED
      BY <1>0, <1>3, <3>1 DEF OneFileEach, At
  <2>2. CASE x # n /\ y # n
    <3>1. logs[F(x)].by = logs[F(y)].by
      BY <1>5, <2>2
    <3>2. F(x) = F(y)
      BY <1>0, <2>1, <2>2, <3>1 DEF OneFileEach
    <3> QED
      BY <2>1, <2>2, <3>2
  <2> QED
    BY <1>5, <2>1, <2>2
<1>6. n <= m
  <2> HIDE DEF f
  <2> QED
    BY <1>0, <1>1, <1>4, <1>5, Pigeons
<1> QED
  BY <1>0, <1>1, <1>2, <1>6 DEF n

\* What a step does to the requests.
Begins(j) ==
    /\ DOMAIN batches' = DOMAIN batches \union {Len(batches) + 1}
    /\ j.batch = Len(batches) + 1
    /\ j.at # "idle"

GoesOnOrEnds(i, j) ==
    /\ DOMAIN batches' = DOMAIN batches
    /\ i.at # "idle"
    /\ j.at = "idle" \/ (j.batch = i.batch /\ j.at # "appending")

\* A step begins a request, goes on with one or ends it.
LEMMA RequestSteps ==
    ASSUME Shaped, batches \in Seq(Batch), NEW w \in Workers,
           Export(w) \/ Import(w) \/ ImportUnlogged(w) \/ Step(w)
    PROVE  LET j == worker'[w] IN
           \/ Begins(j) /\ logs' = logs
           \/ GoesOnOrEnds(worker[w], j)
<1> DEFINE i == worker[w]
<1> DEFINE j == worker'[w]
<1> DEFINE Goal == (Begins(j) /\ logs' = logs) \/ GoesOnOrEnds(i, j)
<1>0. IsJob(i) /\ DOMAIN worker = Workers
  BY DEF Shaped
<1>1. ASSUME NEW rows, NEW file, Starts(w, rows, file) PROVE Goal
  <2>1. /\ j.batch = Len(batches) + 1
        /\ j.at \in {"done", "appending"}
        /\ logs' = logs
    BY <1>0, <1>1 DEF Starts, IsJob
  <2>2. DOMAIN batches' = DOMAIN batches \union {Len(batches) + 1}
    <3>1. batches' = Append(batches, [rows |-> rows, log |-> NoPath,
                                      file |-> file, outcome |-> "open"])
      BY <1>1 DEF Starts
    <3>2. DOMAIN batches = 1..Len(batches) /\ Len(batches) \in Nat
      OBVIOUS
    <3>3. DOMAIN batches' = 1..(Len(batches) + 1)
      BY <3>1
    <3> QED
      BY <3>2, <3>3
  <2> QED
    BY <2>1, <2>2 DEF Begins
<1>2. ASSUME worker' = [worker EXCEPT ![w] = Idle], DOMAIN batches' = DOMAIN batches,
             i.at # "idle"
      PROVE  Goal
  BY <1>0, <1>2, IdleIsJob DEF GoesOnOrEnds
<1>3. CASE Export(w) \/ Import(w) \/ ImportUnlogged(w)
  BY <1>1, <1>3 DEF Export, Import, ImportUnlogged
<1>4. CASE LocateLatest(w) \/ LocateNone(w)
  BY <1>0, <1>4 DEF LocateLatest, LocateNone, Locates, At, IsJob, GoesOnOrEnds
<1>5. CASE NumberFile(w)
  BY <1>0, <1>5 DEF NumberFile, At, IsJob, GoesOnOrEnds
<1>6. CASE CreateFile(w) \/ SaveFile(w)
  BY <1>0, <1>6 DEF CreateFile, SaveFile, Open, At, IsJob, GoesOnOrEnds
<1>7. CASE CloseCreated(w)
  BY <1>0, <1>7 DEF CloseCreated, At, Goes, IsJob, GoesOnOrEnds
<1>8. CASE CloseSaved(w)
  BY <1>0, <1>8 DEF CloseSaved, At, IsJob, GoesOnOrEnds
<1>9. CASE Load(w)
  BY <1>0, <1>9 DEF Load, At, IsJob, GoesOnOrEnds
<1>10. CASE LoadFails(w) \/ Commit(w) \/ CommitFails(w)
  BY <1>2, <1>10 DEF LoadFails, Commit, CommitFails, RollsBack, At
<1> QED
  BY <1>3, <1>4, <1>5, <1>6, <1>7, <1>8, <1>9, <1>10 DEF Step

\* Requests stay different and none begins a second file.
LEMMA StepOneFileEach ==
    ASSUME TypeInv, NEW w \in Workers,
           Export(w) \/ Import(w) \/ ImportUnlogged(w) \/ Step(w)
    PROVE  OneFileEach'
<1> DEFINE i == worker[w]
<1> DEFINE j == worker'[w]
<1> DEFINE m == Len(batches)
<1>0. /\ Tables /\ HasFile /\ Shaped /\ OneFileEach
      /\ batches \in Seq(Batch) /\ m \in Nat /\ DOMAIN batches = 1..m
  BY DEF TypeInv, OrderInv, TypeOK, Tables
<1>1. /\ Turns(w, j)
      /\ \/ Stays(w) /\ Stops(j)
         \/ Locating(w, j)
         \/ Numbering(w, j)
         \/ Creating(w, j)
         \/ Continues(w, j)
  BY <1>0, OrderSteps
<1>2. (Begins(j) /\ logs' = logs) \/ GoesOnOrEnds(i, j)
  BY <1>0, RequestSteps
<1>3. m + 1 \notin DOMAIN batches /\ DOMAIN batches \subseteq DOMAIN batches'
  BY <1>0, <1>2 DEF Begins, GoesOnOrEnds
<1>4. \A v \in Workers : v # w => worker'[v] = worker[v]
  BY <1>1 DEF Turns
<1>5. \A v \in Workers : worker'[v].at # "idle" => worker'[v].batch \in DOMAIN batches'
  <2>1. j.at # "idle" => j.batch \in DOMAIN batches'
    BY <1>0, <1>2, <1>3 DEF Begins, GoesOnOrEnds, OneFileEach, At
  <2> QED
    BY <1>0, <1>3, <1>4, <2>1 DEF OneFileEach, At
<1>6. ASSUME NEW v \in Workers, v # w, worker[v].at # "idle", j.at # "idle"
      PROVE  worker[v].batch # j.batch
  BY <1>0, <1>2, <1>3, <1>6 DEF Begins, GoesOnOrEnds, OneFileEach, At
<1>7. \A u, v \in Workers : u # v /\ worker'[u].at # "idle" /\ worker'[v].at # "idle"
        => worker'[u].batch # worker'[v].batch
  BY <1>0, <1>4, <1>6 DEF OneFileEach, At
<1>8. \/ DOMAIN logs' = DOMAIN logs /\ \A p \in DOMAIN logs : logs'[p].by = logs[p].by
      \/ Creating(w, j)
  BY <1>1 DEF Stays, BooksKept, Locating, Numbering, Continues
<1>9. \A p \in DOMAIN logs : logs[p].by \in DOMAIN batches
  BY <1>0 DEF OneFileEach
<1>10. Creating(w, j) => /\ i.batch \in DOMAIN batches
                         /\ \A p \in DOMAIN logs : logs[p].by # i.batch
  BY <1>0 DEF Creating, OneFileEach, At
<1>11. \A p \in DOMAIN logs' : logs'[p].by \in DOMAIN batches'
  BY <1>3, <1>8, <1>9, <1>10 DEF Creating
<1>12. \A p, q \in DOMAIN logs' : logs'[p].by = logs'[q].by => p = q
  BY <1>0, <1>8, <1>10 DEF Creating, OneFileEach
<1>13. ASSUME NEW v \in Workers, NEW p \in DOMAIN logs',
              worker'[v].at \in {"appending", "numbering", "creating"}
       PROVE  logs'[p].by # worker'[v].batch
  <2>1. CASE v = w
    <3>1. ~Creating(w, j)
      BY <1>13, <2>1 DEF Creating
    <3>2. p \in DOMAIN logs /\ logs'[p].by = logs[p].by
      BY <1>8, <3>1
    <3>3. CASE Begins(j)
      BY <1>3, <1>9, <2>1, <3>2, <3>3 DEF Begins
    <3>4. CASE GoesOnOrEnds(i, j)
      <4>1. j.at \in {"numbering", "creating"} /\ j.batch = i.batch
        BY <1>13, <2>1, <3>4 DEF GoesOnOrEnds
      <4>2. i.at \in {"appending", "numbering", "creating"}
        BY <1>1, <4>1 DEF Stops, Locating, Numbering, Creating, Continues
      <4> QED
        BY <1>0, <2>1, <3>2, <4>1, <4>2 DEF OneFileEach
    <3> QED
      BY <1>2, <3>3, <3>4
  <2>2. CASE v # w
    <3>1. CASE p \in DOMAIN logs /\ logs'[p].by = logs[p].by
      BY <1>0, <1>4, <1>13, <2>2, <3>1 DEF OneFileEach
    <3>2. CASE Creating(w, j) /\ p = j.path
      <4>1. i.at = "creating" /\ logs'[p].by = i.batch
        BY <3>2 DEF Creating
      <4>2. worker[v].at # "idle" /\ worker'[v] = worker[v]
        BY <1>4, <1>13, <2>2
      <4> QED
        BY <1>0, <2>2, <4>1, <4>2 DEF OneFileEach, At
    <3> QED
      BY <1>8, <3>1, <3>2 DEF Creating
  <2> QED
    BY <2>1, <2>2
<1> QED
  BY <1>5, <1>7, <1>11, <1>12, <1>13 DEF OneFileEach, At

\* The numbers of a month are given without gaps.
LEMMA StepNoGaps ==
    ASSUME TypeInv, NEW w \in Workers,
           Export(w) \/ Import(w) \/ ImportUnlogged(w) \/ Step(w)
    PROVE  NoGaps'
<1> DEFINE i == worker[w]
<1> DEFINE j == worker'[w]
<1>0. Tables /\ HasFile /\ NoGaps /\ worker \in [Workers -> Job] /\ MaxBatches \in Nat
  BY ExcelLogConstantsOK DEF TypeInv, OrderInv, TypeOK
<1>1. /\ Turns(w, j)
      /\ \/ Stays(w) /\ Stops(j)
         \/ Locating(w, j)
         \/ Numbering(w, j)
         \/ Creating(w, j)
         \/ Continues(w, j)
  BY <1>0, OrderSteps
<1>2. DOMAIN logs \subseteq DOMAIN logs'
  BY <1>1 DEF Stays, BooksKept, Locating, Numbering, Creating, Continues
<1>3. ASSUME NEW t, NEW n, Given(t, n) PROVE Given(t, n)'
  <2>1. Folder(t) \subseteq Folder(t)'
    BY <1>2 DEF Folder
  <2> QED
    BY <1>3, <2>1 DEF Given
<1>4. ASSUME NEW p \in DOMAIN logs' PROVE Given(p.stamp, p.seq)'
  <2>1. CASE p \in DOMAIN logs
    BY <1>0, <1>3, <2>1 DEF NoGaps
  <2>2. CASE Creating(w, j) /\ p = j.path
    <3>1. p \in Paths /\ Given(p.stamp, p.seq - 1)
      BY <1>0, <2>2 DEF Creating, NoGaps, At
    <3>2. p.seq \in 1..MaxBatches
      BY <3>1 DEF Paths
    <3>3. Given(p.stamp, p.seq - 1)'
      BY <1>3, <3>1
    <3>4. p \in Folder(p.stamp)'
      BY DEF Folder
    <3>5. \A s \in 1..p.seq : s \in 1..(p.seq - 1) \/ s = p.seq
      BY <1>0, <3>2
    <3> QED
      BY <3>3, <3>4, <3>5 DEF Given
  <2> QED
    BY <1>1, <2>1, <2>2 DEF Stays, BooksKept, Locating, Numbering, Creating, Continues
<1>5. ASSUME NEW v \in Workers, worker'[v].at = "creating"
      PROVE  /\ worker'[v].path \in Paths
             /\ \E t, n : /\ t = worker'[v].path.stamp
                         /\ n = worker'[v].path.seq - 1
                         /\ Given(t, n)'
  <2>1. CASE v # w
    <3>1. worker'[v] = worker[v]
      BY <1>1, <2>1 DEF Turns
    <3>2. worker[v].path \in Paths /\ Given(worker[v].path.stamp, worker[v].path.seq - 1)
      BY <1>0, <1>5, <3>1 DEF NoGaps, At
    <3> QED
      BY <1>3, <3>1, <3>2
  <2>2. CASE v = w
    <3> DEFINE n == NextSequenceNumber(i.path.stamp)
    <3>1. Numbering(w, j)
      BY <1>1, <1>5, <2>2 DEF Stops, Locating, Creating, Continues
    <3>2. n \in 1..MaxBatches /\ Given(i.path.stamp, n - 1)
      BY <3>1, NumbersFit DEF Numbering, At
    <3>3. i.path \in [stamp : 0..MaxNow, seq : 0..MaxBatches]
      BY <1>0 DEF Job
    <3> HIDE DEF n
    <3>4. j.path = [i.path EXCEPT !.seq = n]
      BY <3>1 DEF Numbering, n
    <3>5. j.path \in Paths /\ j.path.stamp = i.path.stamp /\ j.path.seq = n
      BY <3>2, <3>3, <3>4 DEF Paths
    <3> QED
      BY <1>3, <2>2, <3>2, <3>5
  <2> QED
    BY <2>1, <2>2
<1> QED
  BY <1>4, <1>5 DEF NoGaps, At, Given, Folder

\* Every step of a thread keeps the types.
LEMMA StepTypes ==
    ASSUME TypeInv, NEW w \in Workers,
           Export(w) \/ Import(w) \/ ImportUnlogged(w) \/ Step(w)
    PROVE  TypeOK'
<1> DEFINE i == worker[w]
<1> DEFINE m == Len(batches)
<1>0. /\ TypeOK /\ Tables /\ HasFile /\ OneFileEach /\ NoGaps
      /\ i \in Job /\ worker \in [Workers -> Job]
      /\ batches \in Seq(Batch) /\ m \in Nat /\ m <= MaxBatches
      /\ DOMAIN batches = 1..m /\ MaxBatches \in Nat /\ MaxNow \in Nat
      /\ now \in 0..MaxNow /\ IsFiniteSet(DOMAIN logs) /\ DOMAIN logs \subseteq Paths
  BY ExcelLogConstantsOK DEF TypeInv, OrderInv, TypeOK
<1>b. i.at # "idle" => i.batch \in 1..m /\ i.batch \in BatchIds
  BY <1>0 DEF OneFileEach, At, BatchIds
<1>p. i.at \in {"creating", "created", "loading", "saving", "closing"} => i.path \in Paths
  BY <1>0 DEF HasFile, NoGaps, At
<1>a. batches \in Seq(Batch) /\ \A b \in 1..m : batches[b] \in Batch
  <2>1. batches \in Seq(Batch)
    BY <1>0
  <2> QED
    BY <2>1
<1>i. Idle \in Job /\ NoPath \in [stamp : 0..MaxNow, seq : 0..MaxBatches]
  BY <1>0 DEF Idle, Job, NoPath
<1>e. \A f \in DOMAIN exported : exported[f] \in DOMAIN batches
  BY <1>0 DEF TypeOK
<1>n. now' = now /\ crashes' = crashes
  BY DEF Export, Import, ImportUnlogged, Starts, Step, LocateLatest, LocateNone,
         Locates, NumberFile, CreateFile, SaveFile, Open, CloseCreated,
         CloseSaved, Load, LoadFails, Commit, CommitFails
\* The requests.
<1> DEFINE RequestsFit == batches' \in Seq(Batch) /\ Len(batches') <= MaxBatches
<1> DEFINE WorkersFit == worker' \in [Workers -> Job]
<1> DEFINE BooksFit == /\ IsFiniteSet(DOMAIN logs') /\ DOMAIN logs' \subseteq Paths
                       /\ \A p \in DOMAIN logs' : logs'[p] \in Workbook
<1> DEFINE ExportedFit == \A f \in DOMAIN exported' : exported'[f] \in DOMAIN batches'
<1> DEFINE OverlapsFit == overlaps' \subseteq SUBSET BatchIds
<1>k. /\ logs' = logs => BooksFit
      /\ overlaps' = overlaps => OverlapsFit
      /\ batches' = batches => RequestsFit
      /\ exported' = exported /\ DOMAIN batches' = DOMAIN batches => ExportedFit
  BY <1>0, <1>e DEF TypeOK
<1>f. ASSUME NEW b, NEW r \in Batch, batches' = [batches EXCEPT ![b] = r]
      PROVE  RequestsFit /\ DOMAIN batches' = DOMAIN batches
  <2>1. batches \in [1..m -> Batch]
    BY <1>a
  <2>2. batches' \in [1..m -> Batch]
    BY <1>f, <2>1
  <2>3. batches' \in Seq(Batch)
    BY <1>0, <2>2
  <2>4. DOMAIN batches' = 1..m
    BY <2>2
  <2>5. Len(batches') = m
    BY <1>0, <2>3, <2>4
  <2> QED
    BY <1>0, <2>3, <2>4, <2>5
<1> DEFINE Goal == RequestsFit /\ WorkersFit /\ BooksFit /\ ExportedFit /\ OverlapsFit
<1> SUFFICES Goal
  BY <1>0, <1>n DEF TypeOK
<1>1. ASSUME NEW rows \in ImportRows \union {0, 1}, NEW file \in Nat, Starts(w, rows, file)
      PROVE  /\ RequestsFit /\ WorkersFit /\ BooksFit /\ OverlapsFit
             /\ DOMAIN batches' = 1..(m + 1)
  <2> DEFINE r == [rows |-> rows, log |-> NoPath, file |-> file, outcome |-> "open"]
  <2>1. r \in Batch
    BY DEF Batch
  <2> HIDE DEF r
  <2>2. batches' = Append(batches, r) /\ m + 1 \in 1..MaxBatches
    BY <1>1 DEF Starts, BatchIds, r
  <2>3. RequestsFit /\ DOMAIN batches' = 1..(m + 1)
    BY <1>0, <2>1, <2>2
  <2>4. worker' = [worker EXCEPT ![w].batch = m + 1,
                    ![w].at = IF rows = 0 THEN "done" ELSE "appending"]
    BY <1>1 DEF Starts
  <2>5. m + 1 \in 0..MaxBatches
    BY <1>0, <2>2
  <2>6. WorkersFit
    <3> DEFINE j == [i EXCEPT !.batch = m + 1, !.at = IF rows = 0 THEN "done" ELSE "appending"]
    <3>1. j \in Job
      BY <1>0, <2>5 DEF Job
    <3>2. worker' = [worker EXCEPT ![w] = j]
      BY <2>4
    <3> HIDE DEF j
    <3> QED
      BY <1>0, <3>1, <3>2
  <2> QED
    BY <1>1, <1>k, <2>3, <2>6 DEF Starts
<1>2. CASE Export(w)
  <2>1. m + 1 \in Nat /\ FileName(m + 1) = m + 1 /\ 1 \in ImportRows \union {0, 1}
    BY <1>0 DEF FileName
  <2>2. /\ Starts(w, 1, FileName(m + 1))
        /\ exported' = [f \in DOMAIN exported \union {FileName(m + 1)} |->
                            IF f = FileName(m + 1) THEN m + 1 ELSE exported[f]]
    BY <1>2 DEF Export
  <2>3. RequestsFit /\ WorkersFit /\ BooksFit /\ OverlapsFit /\ DOMAIN batches' = 1..(m + 1)
    BY <1>1, <2>1, <2>2
  <2>4. \A f \in DOMAIN exported' :
            \/ exported'[f] = m + 1
            \/ f \in DOMAIN exported /\ exported'[f] = exported[f]
    BY <2>2
  <2>5. ExportedFit
    BY <1>0, <1>e, <2>3, <2>4
  <2> QED
    BY <2>3, <2>5
<1>3. CASE Import(w) \/ ImportUnlogged(w)
  <2>1. NoFile \in Nat
    BY DEF NoFile
  <2>2. PICK rows \in ImportRows \union {0, 1} : Starts(w, rows, NoFile) /\ exported' = exported
    BY <1>3 DEF Import, ImportUnlogged
  <2>3. RequestsFit /\ WorkersFit /\ BooksFit /\ OverlapsFit /\ DOMAIN batches' = 1..(m + 1)
    BY <1>1, <2>1, <2>2
  <2>4. ExportedFit
    BY <1>0, <1>e, <2>2, <2>3
  <2> QED
    BY <2>3, <2>4
\* The append.
<1>4. ASSUME NEW place \in {"loading", "numbering"},
             NEW path \in [stamp : 0..MaxNow, seq : 0..MaxBatches],
             Locates(w, place, path)
      PROVE  Goal
  <2>1. worker' = [worker EXCEPT ![w].at = place, ![w].path = path]
    BY <1>4 DEF Locates
  <2>2. WorkersFit
    BY <1>0, <2>1 DEF Job
  <2>3. overlaps' = overlaps
            \union {{i.batch, worker[v].batch} : v \in {u \in Workers : Appends(u)}}
    BY <1>4 DEF Locates
  <2>4. \A v \in Workers : Appends(v) => worker[v].batch \in BatchIds
    BY <1>0 DEF Appends, OneFileEach, At, BatchIds
  <2>5. i.batch \in BatchIds
    BY <1>4, <1>b DEF Locates, At
  <2>6. OverlapsFit
    BY <1>0, <2>3, <2>4, <2>5 DEF TypeOK
  <2> QED
    BY <1>4, <1>k, <2>2, <2>6 DEF Locates
<1>5. CASE LocateLatest(w)
  <2>1. PICK p \in Latest(now) : Locates(w, "loading", p)
    BY <1>5 DEF LocateLatest
  <2>2. p \in [stamp : 0..MaxNow, seq : 0..MaxBatches]
    BY <1>0 DEF Latest, Folder, Paths
  <2> QED
    BY <1>4, <2>1, <2>2
<1>6. CASE LocateNone(w)
  <2>1. [stamp |-> now, seq |-> 0] \in [stamp : 0..MaxNow, seq : 0..MaxBatches]
    BY <1>0
  <2>2. Locates(w, "numbering", [stamp |-> now, seq |-> 0])
    BY <1>6 DEF LocateNone
  <2> QED
    BY <1>4, <2>1, <2>2
<1>7. CASE NumberFile(w)
  <2> DEFINE n == NextSequenceNumber(i.path.stamp)
  <2>1. n \in 1..MaxBatches
    BY <1>7, NumbersFit DEF NumberFile
  <2> HIDE DEF n
  <2>2. worker' = [worker EXCEPT ![w].at = "creating", ![w].path.seq = n]
    BY <1>7 DEF NumberFile, n
  <2>3. n \in 0..MaxBatches
    BY <1>0, <2>1
  <2>4. WorkersFit
    BY <1>0, <2>2, <2>3 DEF Job
  <2> QED
    BY <1>7, <1>k, <2>4 DEF NumberFile
<1>8. ASSUME NEW place \in {"created", "closing"}, NEW image \in Seq(BatchIds),
             i.at \in {"creating", "saving"}, Open(w, place, image)
      PROVE  Goal
  <2> DEFINE p == i.path
  <2> DEFINE busy == SavingOn(p) # {}
  <2> DEFINE book == [by |-> IF p \in DOMAIN logs /\ place = "closing"
                             THEN logs[p].by ELSE i.batch,
                      images |-> {image} \union (IF busy THEN logs[p].images ELSE {}),
                      state |-> "open"]
  <2>1. /\ logs' = [q \in DOMAIN logs \union {p} |-> IF q = p THEN book ELSE logs[q]]
        /\ worker' = [worker EXCEPT ![w].at = place, ![w].image = <<>>]
        /\ UNCHANGED <<now, exported, batches, overlaps, crashes>>
    BY <1>8 DEF Open
  <2>2. WorkersFit
    <3> DEFINE j == [i EXCEPT !.at = place, !.image = <<>>]
    <3>1. <<>> \in Seq(BatchIds)
      OBVIOUS
    <3>2. j \in Job
      BY <1>0, <3>1 DEF Job
    <3>3. worker' = [worker EXCEPT ![w] = j]
      BY <2>1
    <3> HIDE DEF j
    <3> QED
      BY <1>0, <3>2, <3>3
  <2>3. busy => p \in DOMAIN logs
    BY <1>0 DEF SavingOn, HasFile
  <2>4. \A q \in DOMAIN logs : logs[q] \in Workbook
    BY <1>0 DEF TypeOK
  <2>5. book \in Workbook
    <3>1. i.batch \in BatchIds
      BY <1>8, <1>b
    <3>2. p \in DOMAIN logs => logs[p].by \in BatchIds /\ logs[p].images \subseteq Seq(BatchIds)
      BY <2>4 DEF Workbook
    <3>3. {image} \union (IF busy THEN logs[p].images ELSE {}) \subseteq Seq(BatchIds)
      BY <2>3, <3>2
    <3>4. (IF p \in DOMAIN logs /\ place = "closing" THEN logs[p].by ELSE i.batch) \in BatchIds
      BY <3>1, <3>2
    <3> QED
      BY <3>3, <3>4 DEF Workbook
  <2>6. IsFiniteSet(DOMAIN logs \union {p})
    BY <1>0, FS_AddElement
  <2>7. p \in Paths
    BY <1>8, <1>p
  <2> HIDE DEF book
  <2>8. BooksFit
    BY <1>0, <2>1, <2>4, <2>5, <2>6, <2>7
  <2> QED
    BY <1>k, <2>1, <2>2, <2>8
<1>9. CASE CreateFile(w)
  <2>1. <<>> \in Seq(BatchIds)
    OBVIOUS
  <2>2. i.at = "creating" /\ Open(w, "created", <<>>)
    BY <1>9 DEF CreateFile, At
  <2> QED
    BY <1>8, <2>1, <2>2
<1>10. CASE SaveFile(w)
  <2>1. i.image \in Seq(BatchIds)
    BY <1>0 DEF Job
  <2> QED
    BY <1>8, <1>10, <2>1 DEF SaveFile, At
<1>11. ASSUME i.at \in {"created", "closing"}, Close(w) PROVE BooksFit
  <2> DEFINE p == i.path
  <2>1. p \in DOMAIN logs /\ logs[p] \in Workbook
    BY <1>0, <1>11 DEF HasFile, TypeOK
  <2>2. CASE logs' = logs
    BY <1>k, <2>2
  <2>3. ASSUME NEW images \in SUBSET Seq(BatchIds), NEW s \in {"whole", "short", "long"},
               logs' = [logs EXCEPT ![p].images = images, ![p].state = s]
        PROVE  BooksFit
    BY <1>0, <2>1, <2>3 DEF TypeOK, Workbook
  <2>4. \A image \in logs[p].images : image \in Seq(BatchIds)
    BY <2>1 DEF Workbook
  <2> HIDE DEF p
  <2>5. \/ logs' = logs
        \/ \E images \in SUBSET Seq(BatchIds), s \in {"whole", "short", "long"} :
                logs' = [logs EXCEPT ![p].images = images, ![p].state = s]
    <3>1. ASSUME NEW image \in logs[p].images,
                 logs' = [logs EXCEPT ![p].images = {image}, ![p].state = "whole"]
          PROVE  \E images \in SUBSET Seq(BatchIds), s \in {"whole", "short", "long"} :
                    logs' = [logs EXCEPT ![p].images = images, ![p].state = s]
      <4>1. {image} \in SUBSET Seq(BatchIds)
        BY <2>4
      <4> QED
        BY <3>1, <4>1
    <3>2. ASSUME NEW s \in {"short", "long"},
                 logs' = [logs EXCEPT ![p].images = {}, ![p].state = s]
          PROVE  \E images \in SUBSET Seq(BatchIds), u \in {"whole", "short", "long"} :
                    logs' = [logs EXCEPT ![p].images = images, ![p].state = u]
      <4>1. {} \in SUBSET Seq(BatchIds) /\ s \in {"whole", "short", "long"}
        OBVIOUS
      <4> QED
        BY <3>2, <4>1
    <3> QED
      BY <1>11, <3>1, <3>2 DEF Close, p
  <2> QED
    BY <2>2, <2>3, <2>5
<1>12. CASE CloseCreated(w)
  <2>1. worker' = [worker EXCEPT ![w].at = "loading"]
    BY <1>12 DEF CloseCreated, Goes
  <2>2. WorkersFit
    BY <1>0, <2>1 DEF Job
  <2> QED
    BY <1>11, <1>12, <1>k, <2>2 DEF CloseCreated, At
<1>13. CASE CloseSaved(w)
  <2>1. worker' = [worker EXCEPT ![w].at = "done", ![w].path = NoPath]
    BY <1>13 DEF CloseSaved
  <2>2. WorkersFit
    BY <1>0, <1>i, <2>1 DEF Job
  <2>3. i.at = "closing" /\ Close(w) /\ exported' = exported /\ overlaps' = overlaps
        /\ batches' = [batches EXCEPT ![i.batch].log = i.path]
    BY <1>13 DEF CloseSaved, At
  <2>4. batches[i.batch] \in Batch /\ i.path \in Paths
    BY <1>a, <1>b, <1>p, <2>3
  <2> DEFINE r == [batches[i.batch] EXCEPT !.log = i.path]
  <2>r. r \in Batch
    BY <2>4 DEF Batch
  <2>6. batches' = [batches EXCEPT ![i.batch] = r]
    BY <2>3
  <2> HIDE DEF r
  <2>5. RequestsFit /\ DOMAIN batches' = DOMAIN batches
    BY <1>f, <2>r, <2>6
  <2> QED
    BY <1>11, <1>k, <2>2, <2>3, <2>5
<1>14. CASE Load(w)
  <2>1. PICK image \in logs[i.path].images :
            worker' = [worker EXCEPT ![w].at = "saving",
                                     ![w].image = Extended(image, i.batch)]
    BY <1>14 DEF Load
  <2>2. i.at = "loading"
    BY <1>14 DEF Load, At
  <2>3. image \in Seq(BatchIds)
    BY <1>0, <2>2 DEF HasFile, TypeOK, Workbook
  <2>4. Extended(image, i.batch) \in Seq(BatchIds)
    BY <1>b, <2>2, <2>3 DEF Extended
  <2>5. WorkersFit
    BY <1>0, <2>1, <2>4 DEF Job
  <2> QED
    BY <1>14, <1>k, <2>5 DEF Load
<1>15. ASSUME NEW o \in {"committed", "rolled back"}, i.at # "idle",
              batches' = [batches EXCEPT ![i.batch].outcome = o],
              worker' = [worker EXCEPT ![w] = Idle],
              UNCHANGED <<logs, exported, overlaps>>
       PROVE  Goal
  <2> DEFINE r == [batches[i.batch] EXCEPT !.outcome = o]
  <2>1. batches[i.batch] \in Batch
    BY <1>a, <1>b, <1>15
  <2>r. r \in Batch
    BY <2>1 DEF Batch
  <2>4. batches' = [batches EXCEPT ![i.batch] = r]
    BY <1>15
  <2> HIDE DEF r
  <2>2. RequestsFit /\ DOMAIN batches' = DOMAIN batches
    BY <1>f, <2>r, <2>4
  <2>3. WorkersFit
    BY <1>0, <1>i, <1>15
  <2> QED
    BY <1>15, <1>k, <2>2, <2>3
<1>16. CASE LoadFails(w) \/ Commit(w) \/ CommitFails(w)
  BY <1>15, <1>16 DEF LoadFails, Commit, CommitFails, RollsBack, At
<1> QED
  BY <1>2, <1>3, <1>5, <1>6, <1>7, <1>9, <1>10, <1>12, <1>13, <1>14, <1>16 DEF Step

\* So does a crash.
LEMMA CrashTypes == ASSUME TypeInv, Crash PROVE TypeInv'
<1>0. TypeOK /\ OneFileEach /\ NoGaps
  BY DEF TypeInv
<1>1. /\ \A w \in Workers : worker'[w] = Idle
      /\ worker' = [w \in Workers |-> Idle]
      /\ now' = now /\ overlaps' = overlaps /\ exported' = exported
  BY CrashSteps DEF Crash
<1>2. PICK size \in [{p \in DOMAIN logs : logs[p].state = "open"} -> {"short", "long"}] :
        logs' = [p \in DOMAIN logs |->
            IF p \in DOMAIN size
            THEN [logs[p] EXCEPT !.images = {}, !.state = size[p]] ELSE logs[p]]
  BY DEF Crash
<1>3. /\ DOMAIN logs' = DOMAIN logs
      /\ \A p \in DOMAIN logs : logs'[p] \in Workbook /\ logs'[p].by = logs[p].by
  <2>1. \A p \in DOMAIN logs : logs[p] \in Workbook
    BY <1>0 DEF TypeOK
  <2>2. DOMAIN logs' = DOMAIN logs
    BY <1>2
  <2>3. ASSUME NEW p \in DOMAIN logs PROVE logs'[p] \in Workbook /\ logs'[p].by = logs[p].by
    <3>1. CASE p \in DOMAIN size
      <4>1. logs'[p] = [logs[p] EXCEPT !.images = {}, !.state = size[p]]
        BY <1>2, <3>1
      <4>2. size[p] \in {"short", "long"}
        BY <3>1
      <4> QED
        BY <2>1, <4>1, <4>2 DEF Workbook
    <3>2. CASE p \notin DOMAIN size
      BY <1>2, <2>1, <3>2
    <3> QED
      BY <3>1, <3>2
  <2> QED
    BY <2>2, <2>3
<1>4. /\ batches' \in Seq(Batch) /\ Len(batches') = Len(batches)
      /\ DOMAIN batches' = DOMAIN batches
  <2>1. batches \in Seq(Batch) /\ Len(batches) \in Nat
    BY <1>0 DEF TypeOK
  <2>2. DOMAIN batches = 1..Len(batches)
    BY <2>1
  <2>3. batches' = [b \in DOMAIN batches |->
            IF batches[b].outcome = "open"
            THEN [batches[b] EXCEPT !.outcome = "rolled back"] ELSE batches[b]]
    BY DEF Crash
  <2>4. ASSUME NEW b \in DOMAIN batches PROVE batches'[b] \in Batch
    <3>1. batches[b] \in Batch
      BY <2>1
    <3>2. [batches[b] EXCEPT !.outcome = "rolled back"] \in Batch
      BY <3>1 DEF Batch
    <3> QED
      BY <2>3, <3>1, <3>2
  <2>5. batches' \in [1..Len(batches) -> Batch]
    BY <2>2, <2>3, <2>4
  <2> QED
    BY <2>1, <2>2, <2>5
<1>5. Idle.at = "idle" /\ Idle \in Job
  BY ExcelLogConstantsOK DEF Idle, Job, NoPath
<1>6. crashes' \in 0..MaxCrashes
  <2>1. crashes \in 0..MaxCrashes /\ MaxCrashes \in Nat
    BY <1>0, ExcelLogConstantsOK DEF TypeOK
  <2>2. crashes < MaxCrashes /\ crashes' = crashes + 1
    BY DEF Crash
  <2> QED
    BY <2>1, <2>2
<1>7. TypeOK'
  BY <1>0, <1>1, <1>3, <1>4, <1>5, <1>6 DEF TypeOK
<1>8. OneFileEach'
  BY <1>0, <1>1, <1>3, <1>4, <1>5 DEF OneFileEach, At
<1>9. NoGaps'
  BY <1>0, <1>1, <1>3, <1>5 DEF NoGaps, At, Given, Folder
<1>10. OrderInv'
  BY CrashOrder DEF TypeInv
<1> QED
  BY <1>7, <1>8, <1>9, <1>10 DEF TypeInv

\* The types are invariant.
LEMMA StepTypeInv == TypeInv /\ [Next]_vars => TypeInv'
<1> SUFFICES ASSUME TypeInv, [Next]_vars PROVE TypeInv'
  OBVIOUS
<1>1. OrderInv'
  BY StepOrder DEF TypeInv
<1>2. ASSUME NEW w \in Workers,
             Export(w) \/ Import(w) \/ ImportUnlogged(w) \/ Step(w)
      PROVE  TypeInv'
  BY <1>1, <1>2, StepTypes, StepOneFileEach, StepNoGaps DEF TypeInv
<1>3. CASE Tick \/ UNCHANGED vars
  <2>1. UNCHANGED <<logs, exported, batches, worker, overlaps, crashes>>
    BY <1>3 DEF Tick, vars
  <2>2. now' \in 0..MaxNow
    BY <1>3, ExcelLogConstantsOK DEF Tick, vars, TypeInv, TypeOK
  <2>3. TypeOK'
    BY <2>1, <2>2 DEF TypeInv, TypeOK
  <2>4. OneFileEach' /\ NoGaps'
    BY <2>1 DEF TypeInv, OneFileEach, NoGaps, At, Given, Folder
  <2> QED
    BY <1>1, <2>3, <2>4 DEF TypeInv
<1> QED
  BY <1>2, <1>3, CrashTypes DEF Next

\* They hold at first.
LEMMA InitTypeInv == Init => TypeInv
<1> SUFFICES ASSUME Init PROVE TypeInv
  OBVIOUS
<1>1. /\ now = 0 /\ crashes = 0 /\ overlaps = {} /\ batches = <<>>
      /\ DOMAIN logs = {} /\ DOMAIN exported = {}
      /\ worker = [w \in Workers |-> Idle]
  BY DEF Init
<1>2. Idle.at = "idle" /\ Idle \in Job
  BY ExcelLogConstantsOK DEF Idle, Job, NoPath
<1>3. OrderInv
  BY InitOrder, ExcelLogConstantsOK
<1>4. TypeOK
  <2>1. IsFiniteSet(DOMAIN logs)
    BY <1>1, FS_EmptySet
  <2>2. batches \in Seq(Batch) /\ Len(batches) = 0
    BY <1>1
  <2> QED
    BY <1>1, <1>2, <2>1, <2>2, ExcelLogConstantsOK DEF TypeOK
<1>5. OneFileEach /\ NoGaps
  BY <1>1, <1>2 DEF OneFileEach, NoGaps, At
<1> QED
  BY <1>3, <1>4, <1>5 DEF TypeInv

\* Every variable keeps its type; in particular no file of a month gets a number
\* above that of the requests, though the numbers are read from the folder.
THEOREM TypesHold == Spec => []TypeOK
<1>1. TypeInv => TypeOK
  BY DEF TypeInv
<1> QED
  BY <1>1, InitTypeInv, StepTypeInv, PTL DEF Spec

-----------------------------------------------------------------------------
(* What a workbook holds, and how many rows.                                *)

Holds(image, b) == \E k \in DOMAIN image : image[k] = b

Known(image) == \A k \in DOMAIN image : image[k] \in DOMAIN batches

\* It exceeds the limit by less than one batch, but for those that overlapped.
Bounded(image) ==
    \A k \in DOMAIN image :
        \/ Overlapped(image[k])
        \/ RowsOf(SubSeq(image, 1, k - 1)) < RotateSize

\* Its rows are in p, or will be, if anywhere.
BoundTo(b, p) ==
    /\ b \in DOMAIN batches /\ batches[b].log \in {p, NoPath}
    /\ \A w \in Workers :
        ~At(w, "idle") /\ worker[w].batch = b =>
            \/ At(w, "done")
            \/ /\ worker[w].at \in {"creating", "created", "loading", "saving", "closing"}
               /\ worker[w].path = p

Collided(p) == \E o \in overlaps : \A b \in o : BoundTo(b, p)

\* Until it is done a request has no rows in a workbook.
LogsLater ==
    /\ \A o \in overlaps : o \subseteq DOMAIN batches
    /\ \A w \in Workers :
        ~At(w, "idle") /\ ~At(w, "done") => batches[worker[w].batch].log = NoPath
    /\ \A b \in DOMAIN batches : batches[b].log \in DOMAIN logs \union {NoPath}

\* The rows that are in a workbook stay there.
RowsKept ==
    \A b \in DOMAIN batches :
        LET p == batches[b].log IN
        p # NoPath =>
            \/ Overlapped(b)
            \/ Broken(p)
            \/ \A image \in logs[p].images : Holds(image, b)

\* What a request is about to save, or has begun to, keeps them.
SavesKeep ==
    \A w \in Workers :
        LET j == worker[w] IN
        /\ At(w, "saving") =>
            /\ Holds(j.image, j.batch) /\ Known(j.image) /\ Bounded(j.image)
            /\ \A b \in DOMAIN batches : batches[b].log = j.path =>
                    Overlapped(b) \/ Holds(j.image, b)
        /\ At(w, "creating") =>
            \A b \in DOMAIN batches : batches[b].log = j.path => Overlapped(b)

\* A request that appends alone finds its workbook as it left it, with room.
AloneWithBook ==
    \A w \in Workers :
        LET j == worker[w]
            book == logs[j.path]
        IN  ~Overlapped(j.batch) =>
            /\ At(w, "created") => book.images = {<<>>}
            /\ At(w, "closing") => \E i \in book.images : book.images = {i} /\ Holds(i, j.batch)
            /\ At(w, "loading") /\ book.state = "whole" =>
                    \A i \in book.images : RowsOf(i) < RotateSize

\* A workbook has two images, or is broken, because two saves collided.
BooksSound ==
    /\ \A p \in DOMAIN logs :
        /\ \A i \in logs[p].images : Known(i) /\ Bounded(i)
        /\ logs[p].state = "whole" => \E i \in logs[p].images : logs[p].images = {i}
        /\ logs[p].state = "open" => (\E i \in logs[p].images : logs[p].images = {i}) \/ Collided(p)
        /\ Broken(p) => logs[p].images = {} /\ (crashes > 0 \/ Collided(p))
    /\ \A w \in Workers :
        worker[w].at \in {"created", "closing"} => logs[worker[w].path].state = "open"

KeepInv == TypeInv /\ LogsLater /\ RowsKept /\ SavesKeep /\ AloneWithBook /\ BooksSound

-----------------------------------------------------------------------------
(* What a step makes of the requests and of the workbooks, once more.       *)

\* Each place of an append is reached by one action.
LEMMA ComesFrom ==
    ASSUME Shaped, NEW w \in Workers,
           Export(w) \/ Import(w) \/ ImportUnlogged(w) \/ Step(w)
    PROVE  LET j == worker'[w] IN
           /\ j.at = "numbering" => LocateNone(w)
           /\ j.at = "creating" => NumberFile(w)
           /\ j.at = "created" => CreateFile(w)
           /\ j.at = "loading" => LocateLatest(w) \/ CloseCreated(w)
           /\ j.at = "saving" => Load(w)
           /\ j.at = "closing" => SaveFile(w)
<1> DEFINE i == worker[w]
<1> DEFINE j == worker'[w]
<1>0. IsJob(i) /\ DOMAIN worker = Workers
  BY DEF Shaped
<1>1. ASSUME NEW rows, NEW file, Starts(w, rows, file) PROVE j.at \in {"done", "appending"}
  BY <1>0, <1>1 DEF Starts, IsJob
<1>2. Export(w) \/ Import(w) \/ ImportUnlogged(w) => j.at \in {"done", "appending"}
  BY <1>1 DEF Export, Import, ImportUnlogged
<1>3. LoadFails(w) \/ Commit(w) \/ CommitFails(w) => j.at = "idle"
  BY <1>0, IdleIsJob DEF LoadFails, Commit, CommitFails, RollsBack
<1>4. CloseSaved(w) => j.at = "done"
  BY <1>0 DEF CloseSaved, IsJob
<1>5. LocateLatest(w) => j.at = "loading"
  BY <1>0 DEF LocateLatest, Locates, IsJob
<1>6. LocateNone(w) => j.at = "numbering"
  BY <1>0 DEF LocateNone, Locates, IsJob
<1>7. NumberFile(w) => j.at = "creating"
  BY <1>0 DEF NumberFile, IsJob
<1>8. CreateFile(w) => j.at = "created"
  BY <1>0 DEF CreateFile, Open, IsJob
<1>9. CloseCreated(w) => j.at = "loading"
  BY <1>0 DEF CloseCreated, Goes, IsJob
<1>10. Load(w) => j.at = "saving"
  BY <1>0 DEF Load, IsJob
<1>11. SaveFile(w) => j.at = "closing"
  BY <1>0 DEF SaveFile, Open, IsJob
<1> QED
  BY <1>2, <1>3, <1>4, <1>5, <1>6, <1>7, <1>8, <1>9, <1>10, <1>11 DEF Step

\* The rows a request appends are given when it begins.
SameRows ==
    \A b \in DOMAIN batches : b \in DOMAIN batches' /\ batches'[b].rows = batches[b].rows

\* Only the end of its own append makes a request's rows those of a workbook.
LogsAsOf(i, j) ==
    /\ \A b \in DOMAIN batches :
        \/ batches'[b].log = batches[b].log
        \/ /\ b = i.batch /\ i.at = "closing" /\ j.at = "done"
           /\ batches'[b].log = i.path
    /\ \A b \in DOMAIN batches' : b \in DOMAIN batches \/ batches'[b].log = NoPath

\* A step changes the rows of no request, and the workbook of its own at most.
LEMMA BatchSteps ==
    ASSUME TypeInv, NEW w \in Workers,
           Export(w) \/ Import(w) \/ ImportUnlogged(w) \/ Step(w)
    PROVE  SameRows /\ LogsAsOf(worker[w], worker'[w])
<1> DEFINE i == worker[w]
<1> DEFINE j == worker'[w]
<1> DEFINE Goal == SameRows /\ LogsAsOf(i, j)
<1>0. /\ batches \in Seq(Batch) /\ DOMAIN batches = 1..Len(batches) /\ Len(batches) \in Nat
      /\ IsJob(i) /\ DOMAIN worker = Workers
  BY DEF TypeInv, TypeOK, OrderInv, Tables, Shaped
<1>1. \A b \in DOMAIN batches : DOMAIN batches[b] = {"rows", "log", "file", "outcome"}
  <2>1. \A b \in DOMAIN batches : batches[b] \in Batch
    BY <1>0
  <2> QED
    BY <2>1 DEF Batch
<1>2. batches' = batches => Goal
  BY DEF SameRows, LogsAsOf
<1>3. ASSUME NEW rows, NEW file, Starts(w, rows, file) PROVE Goal
  <2> DEFINE r == [rows |-> rows, log |-> NoPath, file |-> file, outcome |-> "open"]
  <2>1. batches' = Append(batches, r) /\ r.log = NoPath
    BY <1>3 DEF Starts
  <2> HIDE DEF r
  <2>2. /\ DOMAIN batches' = 1..(Len(batches) + 1)
        /\ batches'[Len(batches) + 1] = r
        /\ \A b \in 1..Len(batches) : batches'[b] = batches[b]
    BY <1>0, <2>1
  <2>3. \A b \in DOMAIN batches' : b \in DOMAIN batches \/ b = Len(batches) + 1
    BY <1>0, <2>2
  <2>4. \A b \in DOMAIN batches : b \in DOMAIN batches' /\ batches'[b] = batches[b]
    BY <1>0, <2>2
  <2> QED
    BY <2>1, <2>2, <2>3, <2>4 DEF SameRows, LogsAsOf
<1>4. ASSUME NEW o, batches' = [batches EXCEPT ![i.batch].outcome = o] PROVE Goal
  BY <1>1, <1>4 DEF SameRows, LogsAsOf
<1>5. CASE CloseSaved(w)
  <2>1. /\ i.at = "closing" /\ j.at = "done"
        /\ batches' = [batches EXCEPT ![i.batch].log = i.path]
    BY <1>0, <1>5 DEF CloseSaved, At, IsJob
  <2> QED
    BY <1>1, <2>1 DEF SameRows, LogsAsOf
<1>6. CASE Export(w) \/ Import(w) \/ ImportUnlogged(w)
  BY <1>3, <1>6 DEF Export, Import, ImportUnlogged
<1>7. CASE LoadFails(w) \/ Commit(w) \/ CommitFails(w)
  BY <1>4, <1>7 DEF LoadFails, Commit, CommitFails, RollsBack
<1>8. CASE LocateLatest(w) \/ LocateNone(w) \/ NumberFile(w) \/ CreateFile(w)
            \/ SaveFile(w) \/ CloseCreated(w) \/ Load(w)
  BY <1>2, <1>8 DEF LocateLatest, LocateNone, Locates, NumberFile, CreateFile,
                    SaveFile, Open, CloseCreated, Load
<1> QED
  BY <1>5, <1>6, <1>7, <1>8 DEF Step

\* It begins to write its workbook, which others may be writing.
Opens(w, image) ==
    LET i == worker[w]
        p == i.path
    IN  /\ i.at \in {"creating", "saving"} /\ OnlyAt(p)
        /\ image = IF i.at = "creating" THEN <<>> ELSE i.image
        /\ p \in DOMAIN logs' /\ logs'[p].state = "open"
        /\ \/ SavingOn(p) = {} /\ logs'[p].images = {image}
           \/ SavingOn(p) # {} /\ logs'[p].images = {image} \union logs[p].images
        /\ worker'[w].at \in {"created", "closing"} /\ worker'[w].path = p
        /\ worker'[w].batch = i.batch /\ batches' = batches

\* The last of those that write a workbook has done.
Closes(w) ==
    LET i == worker[w]
        p == i.path
    IN  /\ i.at \in {"created", "closing"} /\ OnlyAt(p) /\ SavingOn(p) = {w}
        /\ p \in DOMAIN logs' /\ p \in DOMAIN logs
        /\ \/ /\ logs'[p].state = "whole"
              /\ \E image \in logs[p].images : logs'[p].images = {image}
           \/ /\ logs'[p].state \in {"short", "long"} /\ logs'[p].images = {}
              /\ Cardinality(logs[p].images) > 1
        /\ worker'[w].at \in {"loading", "done"}

\* A step leaves the workbooks, begins to save one or ends its save.
LEMMA BookChanges ==
    ASSUME TypeInv, NEW w \in Workers,
           Export(w) \/ Import(w) \/ ImportUnlogged(w) \/ Step(w)
    PROVE  /\ \/ logs' = logs
              \/ \E image : Opens(w, image)
              \/ Closes(w)
           /\ CreateFile(w) \/ SaveFile(w) => \E image : Opens(w, image)
<1> DEFINE i == worker[w]
<1> DEFINE j == worker'[w]
<1> DEFINE p == i.path
<1> DEFINE Goal == logs' = logs \/ (\E image : Opens(w, image)) \/ Closes(w)
<1>0. /\ IsJob(i) /\ DOMAIN worker = Workers /\ HasFile
      /\ \A q \in DOMAIN logs : IsBook(logs[q])
  BY DEF TypeInv, OrderInv, Tables, Shaped
<1>1. ASSUME NEW place \in {"created", "closing"}, NEW image, Open(w, place, image),
             i.at \in {"creating", "saving"},
             image = IF i.at = "creating" THEN <<>> ELSE i.image
      PROVE  Opens(w, image)
  <2> DEFINE busy == SavingOn(p) # {}
  <2> DEFINE book == [by |-> IF p \in DOMAIN logs /\ place = "closing"
                             THEN logs[p].by ELSE i.batch,
                      images |-> {image} \union (IF busy THEN logs[p].images ELSE {}),
                      state |-> "open"]
  <2>1. /\ logs' = [q \in DOMAIN logs \union {p} |-> IF q = p THEN book ELSE logs[q]]
        /\ worker' = [worker EXCEPT ![w].at = place, ![w].image = <<>>]
        /\ batches' = batches
    BY <1>1 DEF Open
  <2>2. /\ book.state = "open"
        /\ \/ SavingOn(p) = {} /\ book.images = {image}
           \/ SavingOn(p) # {} /\ book.images = {image} \union logs[p].images
    OBVIOUS
  <2> HIDE DEF book
  <2>3. OnlyAt(p) /\ p \in DOMAIN logs' /\ logs'[p] = book
    BY <2>1 DEF OnlyAt
  <2>4. j.at = place /\ j.path = p /\ j.batch = i.batch
    BY <1>0, <2>1 DEF IsJob
  <2> QED
    BY <1>1, <2>1, <2>2, <2>3, <2>4 DEF Opens
<1>2. ASSUME Close(w), i.at \in {"created", "closing"}, j.at \in {"loading", "done"}
      PROVE  logs' = logs \/ Closes(w)
  <2>1. p \in DOMAIN logs /\ IsBook(logs[p])
    BY <1>0, <1>2 DEF HasFile
  <2>2. ASSUME SavingOn(p) = {w}, NEW image \in logs[p].images,
               logs' = [logs EXCEPT ![p].images = {image}, ![p].state = "whole"]
        PROVE  Closes(w)
    <3>1. logs'[p].images = {image} /\ logs'[p].state = "whole" /\ OnlyAt(p)
          /\ p \in DOMAIN logs'
      BY <2>1, <2>2 DEF IsBook, OnlyAt
    <3> QED
      BY <1>2, <2>1, <2>2, <3>1 DEF Closes
  <2>3. ASSUME SavingOn(p) = {w}, Cardinality(logs[p].images) > 1, NEW s \in {"short", "long"},
               logs' = [logs EXCEPT ![p].images = {}, ![p].state = s]
        PROVE  Closes(w)
    <3>1. logs'[p].images = {} /\ logs'[p].state = s /\ OnlyAt(p) /\ p \in DOMAIN logs'
      BY <2>1, <2>3 DEF IsBook, OnlyAt
    <3> QED
      BY <1>2, <2>1, <2>3, <3>1 DEF Closes
  <2> HIDE DEF p
  <2> QED
    BY <1>2, <2>2, <2>3 DEF Close, p
<1>3. CreateFile(w) \/ SaveFile(w) => \E image : Opens(w, image)
  BY <1>1 DEF CreateFile, SaveFile, At
<1> SUFFICES Goal
  BY <1>3
<1>4. CASE CloseCreated(w)
  <2>1. Close(w) /\ i.at = "created" /\ j.at = "loading"
    BY <1>0, <1>4 DEF CloseCreated, At, Goes, IsJob
  <2> QED
    BY <1>2, <2>1
<1>5. CASE CloseSaved(w)
  <2>1. Close(w) /\ i.at = "closing" /\ j.at = "done"
    BY <1>0, <1>5 DEF CloseSaved, At, IsJob
  <2> QED
    BY <1>2, <2>1
<1>6. CASE Export(w) \/ Import(w) \/ ImportUnlogged(w)
  BY <1>6 DEF Export, Import, ImportUnlogged, Starts
<1>7. CASE LocateLatest(w) \/ LocateNone(w) \/ NumberFile(w) \/ Load(w)
            \/ LoadFails(w) \/ Commit(w) \/ CommitFails(w)
  BY <1>7 DEF LocateLatest, LocateNone, Locates, NumberFile, Load, LoadFails,
              Commit, CommitFails
<1> QED
  BY <1>3, <1>4, <1>5, <1>6, <1>7 DEF Step

\* A workbook without rows has none.
LEMMA NoRows == RowsOf(<<>>) = 0
<1> DEFINE e == [k \in DOMAIN <<>> |-> batches[<<>>[k]].rows]
<1>1. DOMAIN e = {}
  OBVIOUS
<1> HIDE DEF e
<1> DEFINE body(f) == [s \in SUBSET {} |-> IF s = {} THEN 0
               ELSE e[CHOOSE x \in s : TRUE] + f[s \ {CHOOSE x \in s : TRUE}]]
<1> DEFINE iter == CHOOSE f : f = body(f)
<1>2. \E f : f = body(f)
  <2>1. [s \in SUBSET {} |-> 0] = body([s \in SUBSET {} |-> 0])
    OBVIOUS
  <2> QED
    BY <2>1
<1>3. iter = body(iter)
  BY <1>2
<1>4. iter[{}] = 0
  BY <1>3
<1>5. SumFunction(e) = iter[{}]
  BY <1>1 DEF SumFunction, SumFunctionOnSet, FoldFunctionOnSet, MapThenFoldSet
<1> QED
  BY <1>4, <1>5 DEF RowsOf, e

\* The size of a workbook does not change with the requests that come later.
LEMMA RowsOfStays ==
    ASSUME SameRows, NEW image, Known(image) PROVE RowsOf(image)' = RowsOf(image)
<1>1. [k \in DOMAIN image |-> batches'[image[k]].rows]
        = [k \in DOMAIN image |-> batches[image[k]].rows]
  BY DEF SameRows, Known
<1> QED
  BY <1>1 DEF RowsOf

\* Nor does its being bounded.
LEMMA BoundedStays ==
    ASSUME SameRows, overlaps \subseteq overlaps', NEW image \in Seq(BatchIds),
           Known(image), Bounded(image)
    PROVE  Known(image)' /\ Bounded(image)'
<1>1. Known(image)'
  BY DEF Known, SameRows
<1>2. ASSUME NEW k \in DOMAIN image
      PROVE  Overlapped(image[k])' \/ RowsOf(SubSeq(image, 1, k - 1))' < RotateSize
  <2>1. CASE Overlapped(image[k])
    BY <2>1 DEF Overlapped
  <2>2. CASE RowsOf(SubSeq(image, 1, k - 1)) < RotateSize
    <3> DEFINE s == SubSeq(image, 1, k - 1)
    <3>1. DOMAIN s = 1..(k - 1) /\ \A n \in 1..(k - 1) : n \in DOMAIN image /\ s[n] = image[n]
      OBVIOUS
    <3>2. Known(s)
      BY <3>1 DEF Known
    <3>3. RowsOf(s)' = RowsOf(s)
      BY <3>2, RowsOfStays
    <3> QED
      BY <2>2, <3>3
  <2> QED
    BY <1>2, <2>1, <2>2 DEF Bounded
<1> QED
  BY <1>1, <1>2 DEF Bounded

\* Two that append at the same time overlap.
LEMMA OthersMet ==
    ASSUME TypeInv, NEW v \in Workers, NEW w \in Workers, v # w, Appends(v), Appends(w)
    PROVE  Overlapped(worker[v].batch) /\ {worker[v].batch, worker[w].batch} \in overlaps
BY DEF TypeInv, OrderInv, AppendersMet, Met, Overlapped

\* A request that is bound to a workbook stays so.
LEMMA BoundStays ==
    ASSUME TypeInv, NEW w \in Workers,
           Export(w) \/ Import(w) \/ ImportUnlogged(w) \/ Step(w),
           NEW b, NEW p, BoundTo(b, p)
    PROVE  BoundTo(b, p)'
<1> DEFINE i == worker[w]
<1> DEFINE j == worker'[w]
<1>0. /\ Tables /\ HasFile /\ Shaped /\ batches \in Seq(Batch)
      /\ DOMAIN batches = 1..Len(batches) /\ Len(batches) \in Nat
  BY DEF TypeInv, TypeOK, OrderInv, Tables
<1>1. /\ Turns(w, j)
      /\ \/ Stays(w) /\ Stops(j)
         \/ Locating(w, j)
         \/ Numbering(w, j)
         \/ Creating(w, j)
         \/ Continues(w, j)
  BY <1>0, OrderSteps
<1>2. Begins(j) \/ GoesOnOrEnds(i, j)
  BY <1>0, RequestSteps
<1>3. SameRows /\ LogsAsOf(i, j)
  BY BatchSteps
<1>4. b \in DOMAIN batches' /\ batches'[b].log \in {p, NoPath}
  BY <1>3 DEF SameRows, LogsAsOf, BoundTo, At
<1>5. ASSUME NEW v \in Workers, worker'[v].at # "idle", worker'[v].batch = b
      PROVE  \/ worker'[v].at = "done"
             \/ /\ worker'[v].at \in {"creating", "created", "loading", "saving", "closing"}
                /\ worker'[v].path = p
  <2>1. CASE v # w
    BY <1>1, <1>5, <2>1 DEF Turns, BoundTo, At
  <2>2. CASE v = w
    <3>1. ~Begins(j)
      BY <1>0, <1>5, <2>2 DEF Begins, BoundTo
    <3>2. i.at # "idle" /\ j.batch = i.batch /\ j.at # "appending"
      BY <1>2, <1>5, <2>2, <3>1 DEF GoesOnOrEnds
    <3>3. \/ i.at = "done"
          \/ /\ i.at \in {"creating", "created", "loading", "saving", "closing"}
             /\ i.path = p
      BY <1>5, <2>2, <3>2 DEF BoundTo, At
    <3> QED
      BY <1>1, <1>5, <2>2, <3>2, <3>3 DEF Stops, Locating, Numbering, Creating, Continues
  <2> QED
    BY <2>1, <2>2
<1> QED
  BY <1>4, <1>5 DEF BoundTo, At

\* A collision is not forgotten.
LEMMA CollidedStays ==
    ASSUME TypeInv, NEW w \in Workers,
           Export(w) \/ Import(w) \/ ImportUnlogged(w) \/ Step(w),
           NEW p, Collided(p)
    PROVE  Collided(p)'
<1>1. PICK o \in overlaps : \A b \in o : BoundTo(b, p)
  BY DEF Collided
<1>2. \A b \in o : BoundTo(b, p)'
  BY <1>1, BoundStays
<1>3. o \in overlaps'
  BY <1>1, StepMet DEF TypeInv
<1> QED
  BY <1>2, <1>3 DEF Collided

\* A request has no workbook before its append ends.
LEMMA StepLogsLater ==
    ASSUME TypeInv, LogsLater, NEW w \in Workers,
           Export(w) \/ Import(w) \/ ImportUnlogged(w) \/ Step(w)
    PROVE  LogsLater'
<1> DEFINE i == worker[w]
<1> DEFINE j == worker'[w]
<1>0. /\ Tables /\ HasFile /\ Shaped /\ batches \in Seq(Batch) /\ OneFileEach
      /\ DOMAIN batches = 1..Len(batches) /\ Len(batches) \in Nat
  BY DEF TypeInv, TypeOK, OrderInv, Tables
<1>1. /\ Turns(w, j)
      /\ \/ Stays(w) /\ Stops(j)
         \/ Locating(w, j)
         \/ Numbering(w, j)
         \/ Creating(w, j)
         \/ Continues(w, j)
  BY <1>0, OrderSteps
<1>2. Begins(j) \/ GoesOnOrEnds(i, j)
  BY <1>0, RequestSteps
<1>3. SameRows /\ LogsAsOf(i, j)
  BY BatchSteps
<1>4. \A o \in overlaps' : o \subseteq DOMAIN batches
  <2>1. ASSUME NEW place, NEW path, Locates(w, place, path)
        PROVE  \A o \in overlaps' : o \subseteq DOMAIN batches
    <3>1. overlaps' = overlaps
              \union {{i.batch, worker[v].batch} : v \in {u \in Workers : Appends(u)}}
      BY <2>1 DEF Locates
    <3>2. i.batch \in DOMAIN batches
      BY <1>0, <2>1 DEF Locates, At, OneFileEach
    <3>3. \A v \in Workers : Appends(v) => worker[v].batch \in DOMAIN batches
      BY <1>0 DEF Appends, At, OneFileEach
    <3>4. \A o \in overlaps : o \subseteq DOMAIN batches
      BY DEF LogsLater
    <3> QED
      BY <3>1, <3>2, <3>3, <3>4
  <2>2. CASE LocateLatest(w) \/ LocateNone(w)
    BY <2>1, <2>2 DEF LocateLatest, LocateNone
  <2>3. overlaps' = overlaps \/ LocateLatest(w) \/ LocateNone(w)
    BY DEF Export, Import, ImportUnlogged, Starts, Step, NumberFile, CreateFile,
           SaveFile, Open, CloseCreated, CloseSaved, Load, LoadFails, Commit, CommitFails
  <2> QED
    BY <2>2, <2>3 DEF LogsLater
<1>5. \A o \in overlaps' : o \subseteq DOMAIN batches'
  BY <1>3, <1>4 DEF SameRows
<1>6. ASSUME NEW v \in Workers, worker'[v].at # "idle", worker'[v].at # "done"
      PROVE  batches'[worker'[v].batch].log = NoPath
  <2>1. CASE v # w
    <3>1. /\ worker'[v] = worker[v] /\ worker[v].batch \in DOMAIN batches
          /\ batches[worker[v].batch].log = NoPath
      BY <1>0, <1>1, <1>6, <2>1 DEF Turns, OneFileEach, LogsLater, At
    <3>2. i.at = "closing" => worker[v].batch # i.batch
      BY <1>0, <1>6, <2>1, <3>1 DEF OneFileEach, At
    <3> QED
      BY <1>3, <3>1, <3>2 DEF LogsAsOf
  <2>2. CASE v = w
    <3>1. CASE Begins(j)
      <4>1. j.batch \in DOMAIN batches' /\ j.batch \notin DOMAIN batches
        BY <1>0, <3>1 DEF Begins
      <4> QED
        BY <1>3, <2>2, <4>1 DEF LogsAsOf
    <3>2. CASE GoesOnOrEnds(i, j)
      <4>1. i.at # "idle" /\ j.batch = i.batch /\ j.at # "appending"
        BY <1>6, <2>2, <3>2 DEF GoesOnOrEnds
      <4>2. i.at # "done"
        BY <1>1, <1>6, <2>2, <4>1 DEF Stops, Locating, Numbering, Creating, Continues
      <4>3. i.batch \in DOMAIN batches /\ batches[i.batch].log = NoPath
        BY <1>0, <4>1, <4>2 DEF OneFileEach, LogsLater, At
      <4> QED
        BY <1>3, <1>6, <2>2, <4>1, <4>3 DEF LogsAsOf
    <3> QED
      BY <1>2, <3>1, <3>2
  <2> QED
    BY <2>1, <2>2
<1>7. DOMAIN logs \subseteq DOMAIN logs'
  BY <1>1 DEF Stays, BooksKept, Locating, Numbering, Creating, Continues
<1>8. \A b \in DOMAIN batches' : batches'[b].log \in DOMAIN logs' \union {NoPath}
  <2>1. i.at = "closing" => i.path \in DOMAIN logs
    BY <1>0 DEF HasFile
  <2>2. \A b \in DOMAIN batches : batches[b].log \in DOMAIN logs \union {NoPath}
    BY DEF LogsLater
  <2> QED
    BY <1>3, <1>7, <2>1, <2>2 DEF LogsAsOf
<1> QED
  BY <1>5, <1>6, <1>8 DEF LogsLater, At

\* Overlaps are remembered.
LEMMA StillOverlapped ==
    ASSUME TypeInv, NEW w \in Workers,
           Export(w) \/ Import(w) \/ ImportUnlogged(w) \/ Step(w)
    PROVE  overlaps \subseteq overlaps' /\ \A b : Overlapped(b) => Overlapped(b)'
<1>1. overlaps \subseteq overlaps'
  BY StepMet DEF TypeInv
<1> QED
  BY <1>1 DEF Overlapped

\* Every step of a thread keeps the rows of those that appended alone.
LEMMA StepRowsKept ==
    ASSUME KeepInv, NEW w \in Workers,
           Export(w) \/ Import(w) \/ ImportUnlogged(w) \/ Step(w)
    PROVE  RowsKept'
<1> DEFINE i == worker[w]
<1> DEFINE j == worker'[w]
<1>0. TypeInv /\ LogsLater /\ RowsKept /\ SavesKeep /\ AloneWithBook /\ BooksSound
  BY DEF KeepInv
<1>1. SameRows /\ LogsAsOf(i, j)
  BY <1>0, BatchSteps
<1>2. logs' = logs \/ (\E image : Opens(w, image)) \/ Closes(w)
  BY <1>0, BookChanges
<1>3. \A b : Overlapped(b) => Overlapped(b)'
  BY <1>0, StillOverlapped
<1> SUFFICES ASSUME NEW b \in DOMAIN batches', NEW p, p = batches'[b].log, p # NoPath,
                    ~Overlapped(b)', ~Broken(p)'
             PROVE  \A x \in logs'[p].images : Holds(x, b)
  BY DEF RowsKept
<1>4. b \in DOMAIN batches /\ ~Overlapped(b)
  BY <1>1, <1>3 DEF LogsAsOf
<1>5. CASE b = i.batch /\ i.at = "closing" /\ j.at = "done" /\ p = i.path
  <2>1. PICK x : logs[p].images = {x} /\ Holds(x, b)
    BY <1>0, <1>4, <1>5 DEF AloneWithBook, At
  <2>2. CASE logs' = logs
    BY <2>1, <2>2
  <2>3. CASE Closes(w)
    BY <1>5, <2>1, <2>3 DEF Closes, Broken
  <2>4. ~ \E image : Opens(w, image)
    BY <1>5 DEF Opens
  <2> QED
    BY <1>2, <2>2, <2>3, <2>4
<1>6. CASE batches[b].log = p
  <2>1. p \in DOMAIN logs
    BY <1>0, <1>4, <1>6 DEF LogsLater
  <2>2. Broken(p) \/ \A x \in logs[p].images : Holds(x, b)
    BY <1>0, <1>4, <1>6 DEF RowsKept
  <2>3. CASE logs'[p] = logs[p]
    BY <2>2, <2>3 DEF Broken
  <2>4. ASSUME NEW image, Opens(w, image), p = i.path PROVE \A x \in logs'[p].images : Holds(x, b)
    <3>1. i.at = "saving"
      BY <1>0, <1>4, <1>6, <2>4 DEF Opens, SavesKeep, At
    <3>2. Holds(image, b)
      BY <1>0, <1>4, <1>6, <2>4, <3>1 DEF Opens, SavesKeep, At
    <3>3. SavingOn(p) # {} => logs[p].state = "open"
      BY <1>0 DEF SavingOn, BooksSound
    <3> QED
      BY <2>2, <2>4, <3>2, <3>3 DEF Opens, Broken
  <2>5. CASE Closes(w) /\ p = i.path
    <3>1. logs[p].state = "open"
      BY <1>0, <2>5 DEF Closes, BooksSound
    <3> QED
      BY <2>2, <2>5, <3>1 DEF Closes, Broken
  <2>6. logs'[p] = logs[p] \/ (p = i.path /\ ((\E image : Opens(w, image)) \/ Closes(w)))
    BY <1>2, <2>1 DEF Opens, Closes, OnlyAt
  <2> QED
    BY <2>3, <2>4, <2>5, <2>6
<1> QED
  BY <1>1, <1>4, <1>5, <1>6 DEF LogsAsOf

\* The image that Load makes is bounded as the one it read is.
LEMMA ExtendedIs ==
    ASSUME NEW x \in Seq(BatchIds), NEW b \in BatchIds
    PROVE  LET y == Extended(x, b) IN
           /\ y \in Seq(BatchIds) /\ DOMAIN y = 1..(Len(x) + 1)
           /\ DOMAIN x = 1..Len(x) /\ Len(x) \in Nat
           /\ y[Len(x) + 1] = b
           /\ \A k \in 1..Len(x) : y[k] = x[k]
           /\ \A k \in 1..Len(x) : SubSeq(y, 1, k - 1) = SubSeq(x, 1, k - 1)
           /\ SubSeq(y, 1, Len(x) + 1 - 1) = x
<1> DEFINE y == Extended(x, b)
<1>1. /\ y \in Seq(BatchIds) /\ DOMAIN y = 1..(Len(x) + 1)
      /\ DOMAIN x = 1..Len(x) /\ Len(x) \in Nat
      /\ y[Len(x) + 1] = b
      /\ \A k \in 1..Len(x) : y[k] = x[k]
  BY DEF Extended
<1> HIDE DEF y
<1>2. ASSUME NEW k \in 1..Len(x) PROVE SubSeq(y, 1, k - 1) = SubSeq(x, 1, k - 1)
  <2>1. Len(y) = Len(x) + 1
    BY <1>1
  <2>2. SubSeq(y, 1, k - 1) = [n \in 1..(k - 1) |-> y[n]]
    BY <1>1, <2>1
  <2>3. SubSeq(x, 1, k - 1) = [n \in 1..(k - 1) |-> x[n]]
    BY <1>1
  <2>4. \A n \in 1..(k - 1) : n \in 1..Len(x)
    BY <1>1
  <2> QED
    BY <1>1, <2>2, <2>3, <2>4
<1>3. SubSeq(y, 1, Len(x) + 1 - 1) = x
  <2>1. Len(y) = Len(x) + 1 /\ Len(x) + 1 - 1 = Len(x)
    BY <1>1
  <2>2. SubSeq(y, 1, Len(x)) = [n \in 1..Len(x) |-> y[n]]
    BY <1>1, <2>1
  <2>3. x = [n \in 1..Len(x) |-> x[n]]
    BY <1>1
  <2> QED
    BY <1>1, <2>1, <2>2, <2>3
<1> QED
  BY <1>1, <1>2, <1>3 DEF y

\* A batch that found room leaves the workbook bounded.
LEMMA ExtendedBounded ==
    ASSUME NEW x \in Seq(BatchIds), NEW b \in BatchIds, Bounded(x),
           Overlapped(b) \/ RowsOf(x) < RotateSize
    PROVE  Bounded(Extended(x, b))
<1> DEFINE y == Extended(x, b)
<1>1. /\ DOMAIN y = 1..(Len(x) + 1)
      /\ DOMAIN x = 1..Len(x) /\ Len(x) \in Nat
      /\ y[Len(x) + 1] = b
      /\ \A k \in 1..Len(x) : y[k] = x[k]
      /\ \A k \in 1..Len(x) : SubSeq(y, 1, k - 1) = SubSeq(x, 1, k - 1)
      /\ SubSeq(y, 1, Len(x) + 1 - 1) = x
  BY ExtendedIs
<1> HIDE DEF y
<1>2. ASSUME NEW k \in 1..Len(x)
      PROVE  Overlapped(y[k]) \/ RowsOf(SubSeq(y, 1, k - 1)) < RotateSize
  BY <1>1 DEF Bounded
<1>3. Overlapped(y[Len(x) + 1]) \/ RowsOf(SubSeq(y, 1, Len(x) + 1 - 1)) < RotateSize
  BY <1>1
<1>4. \A k \in DOMAIN y : k \in 1..Len(x) \/ k = Len(x) + 1
  BY <1>1
<1>5. Bounded(y)
  BY <1>2, <1>3, <1>4 DEF Bounded
<1> QED
  BY <1>5 DEF y

\* What is about to be saved holds all rows of those that appended alone.
LEMMA StepSavesKeep ==
    ASSUME KeepInv, NEW w \in Workers,
           Export(w) \/ Import(w) \/ ImportUnlogged(w) \/ Step(w)
    PROVE  SavesKeep'
<1> DEFINE i == worker[w]
<1> DEFINE j == worker'[w]
<1>0. /\ TypeInv /\ LogsLater /\ RowsKept /\ SavesKeep /\ AloneWithBook /\ BooksSound
      /\ Tables /\ HasFile /\ Shaped /\ OneFileEach /\ NoGaps
      /\ DOMAIN logs \subseteq Paths /\ worker \in [Workers -> Job]
      /\ \A q \in DOMAIN logs : logs[q] \in Workbook
  BY DEF KeepInv, TypeInv, TypeOK, OrderInv, Tables
<1>1. SameRows /\ LogsAsOf(i, j)
  BY <1>0, BatchSteps
<1>2. overlaps \subseteq overlaps' /\ \A b : Overlapped(b) => Overlapped(b)'
  BY <1>0, StillOverlapped
<1>3. Turns(w, j)
  BY <1>0, JobSteps
<1>4. \A p \in Paths : p # NoPath
  BY DEF Paths, NoPath
<1>5. ASSUME NEW v \in Workers, v # w, worker'[v].at \in {"saving", "creating"}
      PROVE  /\ At(v, "saving")' =>
                 /\ Holds(worker'[v].image, worker'[v].batch)
                 /\ Known(worker[v].image)' /\ Bounded(worker[v].image)'
                 /\ \A b \in DOMAIN batches' : batches'[b].log = worker'[v].path =>
                        Overlapped(b)' \/ Holds(worker'[v].image, b)
             /\ At(v, "creating")' =>
                 \A b \in DOMAIN batches' : batches'[b].log = worker'[v].path => Overlapped(b)'
  <2>1. worker'[v] = worker[v] /\ Appends(v)
    BY <1>3, <1>5 DEF Turns, Appends
  <2>2. worker[v].path # NoPath
    BY <1>0, <1>4, <1>5, <2>1 DEF HasFile, NoGaps, At
  <2>3. ASSUME NEW b \in DOMAIN batches', batches'[b].log = worker[v].path
        PROVE  Overlapped(b)' \/ (b \in DOMAIN batches /\ batches[b].log = worker[v].path)
    <3>1. b \in DOMAIN batches
      BY <1>1, <2>2, <2>3 DEF LogsAsOf
    <3>2. CASE b = i.batch /\ i.at = "closing"
      <4>1. Appends(w)
        BY <3>2 DEF Appends
      <4> QED
        BY <1>0, <1>2, <1>5, <2>1, <3>2, <4>1, OthersMet
    <3> QED
      BY <1>1, <2>3, <3>1, <3>2 DEF LogsAsOf
  <2>4. CASE worker[v].at = "saving"
    <3>1. /\ Holds(worker[v].image, worker[v].batch)
          /\ Known(worker[v].image) /\ Bounded(worker[v].image)
          /\ \A b \in DOMAIN batches : batches[b].log = worker[v].path =>
                Overlapped(b) \/ Holds(worker[v].image, b)
      BY <1>0, <2>4 DEF SavesKeep, At
    <3>2. worker[v].image \in Seq(BatchIds)
      BY <1>0 DEF Job
    <3>3. PICK x \in Seq(BatchIds) : x = worker[v].image
      BY <3>2
    <3>4. Known(x)' /\ Bounded(x)'
      BY <1>1, <1>2, <3>1, <3>3, BoundedStays
    <3>5. x = worker'[v].image
      BY <2>1, <3>3
    <3>6. Known(worker[v].image)' /\ Bounded(worker[v].image)'
      BY <3>4, <3>5 DEF Known, Bounded
    <3> QED
      BY <1>2, <2>1, <2>3, <2>4, <3>1, <3>6 DEF At
  <2>5. CASE worker[v].at = "creating"
    BY <1>0, <1>2, <2>1, <2>3, <2>5 DEF SavesKeep, At
  <2> QED
    BY <1>5, <2>1, <2>4, <2>5
<1>6. ASSUME j.at = "saving"
      PROVE  /\ Holds(j.image, j.batch) /\ Known(worker[w].image)' /\ Bounded(worker[w].image)'
             /\ \A b \in DOMAIN batches' : batches'[b].log = j.path =>
                    Overlapped(b)' \/ Holds(j.image, b)
  <2>1. Load(w)
    BY <1>0, <1>6, ComesFrom
  <2>2. PICK x \in logs[i.path].images :
            worker' = [worker EXCEPT ![w].at = "saving", ![w].image = Extended(x, i.batch)]
    BY <2>1 DEF Load
  <2>3. /\ i.at = "loading" /\ logs[i.path].state = "whole"
        /\ batches' = batches /\ overlaps' = overlaps
    BY <2>1 DEF Load, At
  <2>4. j.batch = i.batch /\ j.path = i.path /\ j.image = Extended(x, i.batch)
    BY <1>0, <2>2 DEF Shaped, IsJob
  <2>5. i.path \in DOMAIN logs /\ i.batch \in DOMAIN batches
    BY <1>0, <2>3 DEF HasFile, OneFileEach, At
  <2>6. x \in Seq(BatchIds) /\ i.batch \in BatchIds
    <3>1. x \in Seq(BatchIds)
      BY <1>0, <2>5 DEF Workbook
    <3>2. DOMAIN batches = 1..Len(batches) /\ Len(batches) <= MaxBatches
          /\ Len(batches) \in Nat /\ MaxBatches \in Nat
      BY ExcelLogConstantsOK, <1>0 DEF TypeInv, TypeOK
    <3> QED
      BY <2>5, <3>1, <3>2 DEF BatchIds
  <2>7. Known(x) /\ Bounded(x) /\ (Overlapped(i.batch) \/ RowsOf(x) < RotateSize)
    BY <1>0, <2>3, <2>5 DEF BooksSound, AloneWithBook, At
  <2> DEFINE y == Extended(x, i.batch)
  <2>8. /\ y \in Seq(BatchIds) /\ DOMAIN y = 1..(Len(x) + 1)
        /\ DOMAIN x = 1..Len(x) /\ Len(x) \in Nat
        /\ y[Len(x) + 1] = i.batch
        /\ \A k \in 1..Len(x) : y[k] = x[k]
    BY <2>6, ExtendedIs
  <2>9. Bounded(y)
    BY <2>6, <2>7, ExtendedBounded
  <2> HIDE DEF y
  <2>10. Known(y)
    BY <2>5, <2>7, <2>8 DEF Known
  <2>11. Holds(y, i.batch)
    BY <2>8 DEF Holds
  <2>z. PICK z \in Seq(BatchIds) : z = y
    BY <2>8
  <2>12. Known(z)' /\ Bounded(z)'
    BY <1>1, <1>2, <2>9, <2>10, <2>z, BoundedStays
  <2>13. \A b : Holds(x, b) => Holds(y, b)
    BY <2>8 DEF Holds
  <2>14. ASSUME NEW b \in DOMAIN batches, batches[b].log = i.path
         PROVE  Overlapped(b) \/ Holds(y, b)
    <3>1. i.path # NoPath
      BY <1>0, <1>4, <2>5
    <3>2. ~Broken(i.path)
      BY <2>3 DEF Broken
    <3>3. Overlapped(b) \/ Holds(x, b)
      BY <1>0, <2>14, <3>1, <3>2 DEF RowsKept
    <3> QED
      BY <2>13, <3>3
  <2>15. y = worker'[w].image /\ z = worker'[w].image
    BY <2>4, <2>z DEF y
  <2>16. Known(worker[w].image)' /\ Bounded(worker[w].image)'
    BY <2>12, <2>15 DEF Known, Bounded
  <2> QED
    BY <1>2, <2>3, <2>4, <2>11, <2>14, <2>15, <2>16
<1>7. ASSUME j.at = "creating", NEW b \in DOMAIN batches', batches'[b].log = j.path
      PROVE  Overlapped(b)'
  <2> DEFINE t == i.path.stamp
  <2> DEFINE n == NextSequenceNumber(t)
  <2>1. NumberFile(w)
    BY <1>0, <1>7, ComesFrom
  <2>2. /\ batches' = batches
        /\ worker' = [worker EXCEPT ![w].at = "creating", ![w].path.seq = n]
    BY <2>1 DEF NumberFile
  <2>3. n \in Nat \ {0} /\ \A q \in Folder(t) : q.seq < n
    BY <1>0, NextIsNext, NextFollows
  <2> HIDE DEF n
  <2>4. j.path.stamp = t /\ j.path.seq = n
    BY <1>0, <2>2 DEF Shaped, IsJob, IsPath
  <2>5. j.path # NoPath
    BY <2>3, <2>4 DEF NoPath
  <2>6. j.path \in DOMAIN logs
    BY <1>0, <1>7, <2>2, <2>5 DEF LogsLater
  <2>7. j.path \in Folder(t)
    BY <2>4, <2>6 DEF Folder
  <2> QED
    BY <2>3, <2>4, <2>7
<1> QED
  BY <1>5, <1>6, <1>7 DEF SavesKeep, At

\* One that appends alone finds its workbook as it left it.
LEMMA StepAlone ==
    ASSUME KeepInv, NEW w \in Workers,
           Export(w) \/ Import(w) \/ ImportUnlogged(w) \/ Step(w)
    PROVE  AloneWithBook'
<1> DEFINE i == worker[w]
<1> DEFINE j == worker'[w]
<1>0. /\ TypeInv /\ LogsLater /\ SavesKeep /\ AloneWithBook /\ BooksSound
      /\ Tables /\ HasFile /\ Shaped
  BY DEF KeepInv, TypeInv, OrderInv, Tables
<1>1. SameRows
  BY <1>0, BatchSteps
<1> DEFINE Alone(b) == \A o \in overlaps' : b \notin o
<1>2. \A b : Alone(b) => ~Overlapped(b)
  BY <1>0, StillOverlapped DEF Overlapped
<1>3. Turns(w, j)
  BY <1>0, JobSteps
<1>4. logs' = logs \/ (\E image : Opens(w, image)) \/ Closes(w)
  BY <1>0, BookChanges
<1>5. \A p \in DOMAIN logs : \A x \in logs[p].images : RowsOf(x)' = RowsOf(x)
  BY <1>0, <1>1, RowsOfStays DEF BooksSound
\* One that is not overlapped is the only one to write a workbook.
<1>6. ASSUME NEW v \in Workers, v # w, Alone(worker'[v].batch),
             worker'[v].at \in {"created", "closing", "loading"}
      PROVE  /\ worker'[v] = worker[v] /\ ~Overlapped(worker[v].batch)
             /\ logs' = logs /\ worker[v].path \in DOMAIN logs
  <2>1. worker'[v] = worker[v] /\ Appends(v)
    BY <1>3, <1>6 DEF Turns, Appends
  <2>2. ~Overlapped(worker[v].batch)
    BY <1>2, <1>6, <2>1
  <2>3. ~Appends(w)
    BY <1>0, <1>6, <2>1, <2>2, OthersMet
  <2>4. logs' = logs
    BY <1>4, <2>3 DEF Opens, Closes, Appends
  <2> QED
    BY <1>0, <1>6, <2>1, <2>2, <2>4 DEF HasFile
<1>7. ASSUME NEW v \in Workers, v # w, Alone(worker'[v].batch)
      PROVE  /\ At(v, "created")' => logs'[worker'[v].path].images = {<<>>}
             /\ At(v, "closing")' =>
                    \E x \in logs'[worker'[v].path].images :
                        logs'[worker'[v].path].images = {x} /\ Holds(x, worker'[v].batch)
             /\ At(v, "loading")' /\ logs'[worker'[v].path].state = "whole" =>
                    \A x \in logs'[worker'[v].path].images : RowsOf(x)' < RotateSize
  <2>1. CASE worker'[v].at \in {"created", "closing"}
    BY <1>0, <1>6, <1>7, <2>1 DEF AloneWithBook, At
  <2>2. CASE worker'[v].at = "loading"
    BY <1>0, <1>5, <1>6, <1>7, <2>2 DEF AloneWithBook, At
  <2>3. CASE worker'[v].at \notin {"created", "closing", "loading"}
    BY <2>3 DEF At
  <2> QED
    BY <2>1, <2>2, <2>3
<1>8. ASSUME Alone(j.batch), j.at \in {"created", "closing"}
      PROVE  \E x \in logs'[j.path].images :
                /\ logs'[j.path].images = {x}
                /\ j.at = "created" => x = <<>>
                /\ j.at = "closing" => Holds(x, j.batch)
  <2>1. CreateFile(w) \/ SaveFile(w)
    BY <1>0, <1>8, ComesFrom
  <2>2. PICK image : Opens(w, image)
    BY <1>0, <2>1, BookChanges
  <2>3. /\ i.at \in {"creating", "saving"} /\ j.path = i.path /\ j.batch = i.batch
        /\ image = IF i.at = "creating" THEN <<>> ELSE i.image
    BY <2>2 DEF Opens
  <2>4. j.at = "created" <=> i.at = "creating"
    BY <1>0, <1>8, <2>3, ComesFrom DEF CreateFile, SaveFile, At
  <2>5. ~Overlapped(i.batch) /\ Appends(w)
    BY <1>2, <1>8, <2>3 DEF Appends
  <2>6. SavingOn(i.path) = {}
    <3>1. ASSUME NEW u \in SavingOn(i.path) PROVE FALSE
      <4>1. u \in Workers /\ u # w /\ Appends(u)
        BY <2>3, <3>1 DEF SavingOn, Appends
      <4> QED
        BY <1>0, <2>5, <4>1, OthersMet
    <3> QED
      BY <3>1
  <2>7. logs'[i.path].images = {image}
    BY <2>2, <2>6 DEF Opens
  <2>8. i.at = "saving" => Holds(image, i.batch)
    BY <1>0, <2>3 DEF SavesKeep, At
  <2> QED
    BY <1>8, <2>3, <2>4, <2>7, <2>8
<1>9. ASSUME Alone(j.batch), j.at = "loading", logs'[j.path].state = "whole",
             NEW x \in logs'[j.path].images
      PROVE  RowsOf(x)' < RotateSize
  <2>1. CASE LocateLatest(w)
    <3>1. PICK p \in Latest(now) : Roomy(p) /\ Locates(w, "loading", p)
      BY <2>1 DEF LocateLatest
    <3>2. j.path = p /\ logs' = logs /\ p \in DOMAIN logs
      BY <1>0, <3>1 DEF Locates, Latest, Folder, Shaped, IsJob
    <3>3. RowsOf(x) < RotateSize
      BY <1>9, <3>1, <3>2 DEF Roomy
    <3> QED
      BY <1>5, <1>9, <3>2, <3>3
  <2>2. CASE CloseCreated(w)
    <3>1. i.at = "created" /\ j.path = i.path /\ j.batch = i.batch
      BY <1>0, <2>2 DEF CloseCreated, Goes, At, Shaped, IsJob
    <3>2. ~Overlapped(i.batch)
      BY <1>2, <1>9, <3>1
    <3>3. logs[i.path].images = {<<>>} /\ logs[i.path].state = "open"
      BY <1>0, <3>1, <3>2 DEF AloneWithBook, BooksSound, At
    <3>4. Closes(w)
      BY <1>4, <1>9, <3>1, <3>3 DEF Opens
    <3>5. x = <<>> /\ i.path \in DOMAIN logs
      BY <1>9, <3>1, <3>3, <3>4 DEF Closes
    <3>6. RowsOf(x) = 0
      BY <3>5, NoRows
    <3>7. RowsOf(x)' = RowsOf(x)
      BY <1>5, <3>3, <3>5
    <3> QED
      BY <3>6, <3>7, ExcelLogConstantsOK
  <2> QED
    BY <1>0, <1>9, <2>1, <2>2, ComesFrom
<1>10. ASSUME Alone(j.batch)
       PROVE  /\ At(w, "created")' => logs'[j.path].images = {<<>>}
              /\ At(w, "closing")' =>
                    \E x \in logs'[j.path].images :
                        logs'[j.path].images = {x} /\ Holds(x, j.batch)
              /\ At(w, "loading")' /\ logs'[j.path].state = "whole" =>
                    \A x \in logs'[j.path].images : RowsOf(x)' < RotateSize
  BY <1>8, <1>9, <1>10 DEF At
<1>11. ASSUME NEW v \in Workers, Alone(worker'[v].batch)
       PROVE  /\ At(v, "created")' => logs'[worker'[v].path].images = {<<>>}
              /\ At(v, "closing")' =>
                    \E x \in logs'[worker'[v].path].images :
                        logs'[worker'[v].path].images = {x} /\ Holds(x, worker'[v].batch)
              /\ At(v, "loading")' /\ logs'[worker'[v].path].state = "whole" =>
                    \A x \in logs'[worker'[v].path].images : RowsOf(x)' < RotateSize
  BY <1>7, <1>10, <1>11
<1> QED
  BY <1>11 DEF AloneWithBook, Overlapped

\* Workbooks stay bounded, and broken only after a crash or a collision.
LEMMA StepBooksSound ==
    ASSUME KeepInv, NEW w \in Workers,
           Export(w) \/ Import(w) \/ ImportUnlogged(w) \/ Step(w)
    PROVE  BooksSound'
<1> DEFINE i == worker[w]
<1> DEFINE j == worker'[w]
<1>p. PICK p : p = i.path
  OBVIOUS
<1>0. /\ TypeInv /\ LogsLater /\ SavesKeep /\ BooksSound
      /\ Tables /\ HasFile /\ Shaped /\ OneFileEach /\ worker \in [Workers -> Job]
      /\ \A q \in DOMAIN logs : logs[q] \in Workbook
  BY DEF KeepInv, TypeInv, TypeOK, OrderInv, Tables
<1>1. SameRows /\ overlaps \subseteq overlaps' /\ crashes' = crashes
  <2>1. crashes' = crashes
    BY DEF Export, Import, ImportUnlogged, Starts, Step, LocateLatest, LocateNone,
           Locates, NumberFile, CreateFile, SaveFile, Open, CloseCreated,
           CloseSaved, Load, LoadFails, Commit, CommitFails
  <2> QED
    BY <1>0, <2>1, BatchSteps, StillOverlapped
<1>3. Turns(w, j)
  BY <1>0, JobSteps
<1>4. logs' = logs \/ (\E image : Opens(w, image)) \/ Closes(w)
  BY <1>0, BookChanges
<1>5. ASSUME NEW x \in Seq(BatchIds), Known(x), Bounded(x) PROVE Known(x)' /\ Bounded(x)'
  BY <1>1, <1>5, BoundedStays
<1>6. ASSUME NEW q \in DOMAIN logs, NEW x \in logs[q].images PROVE Known(x)' /\ Bounded(x)'
  <2>1. x \in Seq(BatchIds)
    BY <1>0, <1>6 DEF Workbook
  <2> QED
    BY <1>0, <1>5, <1>6, <2>1 DEF BooksSound
<1>c. ASSUME NEW q, Collided(q) PROVE Collided(q)'
  BY <1>0, <1>c, CollidedStays
<1> DEFINE Sound(q) ==
        /\ \A x \in logs'[q].images : Known(x)' /\ Bounded(x)'
        /\ logs'[q].state = "whole" => \E x \in logs'[q].images : logs'[q].images = {x}
        /\ logs'[q].state = "open" =>
                (\E x \in logs'[q].images : logs'[q].images = {x}) \/ Collided(q)'
        /\ logs'[q].state \in {"short", "long"} =>
                logs'[q].images = {} /\ (crashes' > 0 \/ Collided(q)')
<1>7. ASSUME NEW q \in DOMAIN logs, logs'[q] = logs[q] PROVE Sound(q)
  BY <1>0, <1>1, <1>6, <1>7, <1>c DEF BooksSound, Broken
<1>8. ASSUME NEW image, Opens(w, image) PROVE Sound(p)
  <2>1. /\ i.at \in {"creating", "saving"} /\ logs'[p].state = "open"
        /\ image = IF i.at = "creating" THEN <<>> ELSE i.image
        /\ \/ SavingOn(p) = {} /\ logs'[p].images = {image}
           \/ SavingOn(p) # {} /\ logs'[p].images = {image} \union logs[p].images
    BY <1>8, <1>p DEF Opens
  <2>2. Known(image)' /\ Bounded(image)'
    <3>1. image \in Seq(BatchIds)
      BY <1>0, <2>1 DEF Job
    <3>2. Known(image) /\ Bounded(image)
      <4>1. CASE i.at = "creating"
        BY <2>1, <4>1 DEF Known, Bounded
      <4>2. CASE i.at = "saving"
        BY <1>0, <2>1, <4>2 DEF SavesKeep, At
      <4> QED
        BY <2>1, <4>1, <4>2
    <3>3. PICK x \in Seq(BatchIds) : x = image
      BY <3>1
    <3> QED
      BY <1>5, <3>1, <3>2
  <2>3. ASSUME NEW u \in SavingOn(p) PROVE p \in DOMAIN logs /\ Collided(p)
    <3>1. u \in Workers /\ worker[u].at \in {"created", "closing"} /\ worker[u].path = p
      BY DEF SavingOn
    <3>2. u # w /\ Appends(u) /\ Appends(w)
      BY <2>1, <3>1 DEF Appends
    <3>3. {worker[u].batch, i.batch} \in overlaps
      BY <1>0, <3>1, <3>2, OthersMet
    <3>4. ASSUME NEW v \in Workers, v \in {u, w} PROVE BoundTo(worker[v].batch, p)
      <4>1. /\ worker[v].at \in {"creating", "created", "loading", "saving", "closing"}
            /\ worker[v].path = p
        BY <1>p, <2>1, <3>1, <3>4
      <4>2. worker[v].batch \in DOMAIN batches /\ batches[worker[v].batch].log = NoPath
        BY <1>0, <4>1 DEF OneFileEach, LogsLater, At
      <4>3. \A x \in Workers : ~At(x, "idle") /\ worker[x].batch = worker[v].batch => x = v
        BY <1>0, <4>1 DEF OneFileEach, At
      <4> QED
        BY <4>1, <4>2, <4>3 DEF BoundTo
    <3>5. \A b \in {worker[u].batch, i.batch} : BoundTo(b, p)
      BY <3>1, <3>4
    <3> QED
      BY <1>0, <3>1, <3>3, <3>5 DEF HasFile, Collided
  <2>4. CASE SavingOn(p) = {}
    BY <2>1, <2>2, <2>4
  <2>5. CASE SavingOn(p) # {}
    <3>1. p \in DOMAIN logs /\ Collided(p)
      BY <2>3, <2>5
    <3>2. Collided(p)'
      BY <1>c, <3>1
    <3>3. \A x \in logs'[p].images : Known(x)' /\ Bounded(x)'
      BY <1>6, <2>1, <2>2, <3>1
    <3> QED
      BY <2>1, <3>2, <3>3
  <2> QED
    BY <2>4, <2>5
<1>9. ASSUME Closes(w) PROVE Sound(p)
  <2>1. p \in DOMAIN logs /\ logs[p].state = "open"
    BY <1>0, <1>9, <1>p DEF Closes, BooksSound
  <2>2. CASE /\ logs'[p].state = "whole"
             /\ \E x \in logs[p].images : logs'[p].images = {x}
    BY <1>6, <2>1, <2>2
  <2>3. CASE /\ logs'[p].state \in {"short", "long"} /\ logs'[p].images = {}
             /\ Cardinality(logs[p].images) > 1
    <3>1. ASSUME NEW x, logs[p].images = {x} PROVE FALSE
      <4>1. Cardinality({x}) = 1
        BY FS_Singleton
      <4> QED
        BY <2>3, <3>1, <4>1
    <3>2. Collided(p)
      BY <1>0, <2>1, <3>1 DEF BooksSound
    <3>3. Collided(p)'
      BY <1>c, <3>2
    <3> QED
      BY <2>3, <3>3
  <2> QED
    BY <1>9, <1>p, <2>2, <2>3 DEF Closes
<1>10. ASSUME NEW q \in DOMAIN logs' PROVE Sound(q)
  <2>1. CASE q \in DOMAIN logs /\ logs'[q] = logs[q]
    BY <1>7, <2>1
  <2>2. CASE q = p /\ ((\E image : Opens(w, image)) \/ Closes(w))
    BY <1>8, <1>9, <2>2
  <2>3. \/ q \in DOMAIN logs /\ logs'[q] = logs[q]
        \/ q = p /\ ((\E image : Opens(w, image)) \/ Closes(w))
    BY <1>4, <1>10, <1>p DEF Opens, Closes, OnlyAt
  <2> QED
    BY <2>1, <2>2, <2>3
<1>11. ASSUME NEW v \in Workers, worker'[v].at \in {"created", "closing"}
       PROVE  logs'[worker'[v].path].state = "open"
  <2>1. CASE v # w
    <3>1. worker'[v] = worker[v]
      BY <1>3, <2>1 DEF Turns
    <3>2. logs[worker[v].path].state = "open" /\ worker[v].path \in DOMAIN logs
      BY <1>0, <1>11, <3>1 DEF BooksSound, HasFile
    <3>3. CASE logs'[worker[v].path] = logs[worker[v].path]
      BY <3>1, <3>2, <3>3
    <3>4. ASSUME NEW image, Opens(w, image), worker[v].path = p
          PROVE  logs'[worker'[v].path].state = "open"
      BY <1>p, <3>1, <3>4 DEF Opens
    <3>5. ~(Closes(w) /\ worker[v].path = p)
      BY <1>11, <1>p, <2>1, <3>1 DEF Closes, SavingOn
    <3> QED
      BY <1>4, <1>p, <3>2, <3>3, <3>4, <3>5 DEF Opens, Closes, OnlyAt
  <2>2. CASE v = w
    <3>1. CreateFile(w) \/ SaveFile(w)
      BY <1>0, <1>11, <2>2, ComesFrom
    <3>2. \E image : Opens(w, image)
      BY <1>0, <3>1, BookChanges
    <3> QED
      BY <2>2, <3>2 DEF Opens
  <2> QED
    BY <2>1, <2>2
<1> QED
  BY <1>10, <1>11 DEF BooksSound, Broken

\* A crash breaks the workbooks that were being saved and no other.
LEMMA CrashKeeps == ASSUME KeepInv, Crash PROVE KeepInv'
<1>0. /\ TypeInv /\ LogsLater /\ RowsKept /\ BooksSound
      /\ batches \in Seq(Batch) /\ crashes \in Nat
      /\ \A q \in DOMAIN logs : logs[q] \in Workbook
  BY ExcelLogConstantsOK DEF KeepInv, TypeInv, TypeOK
<1>1. /\ \A w \in Workers : worker'[w] = Idle
      /\ overlaps' = overlaps /\ crashes' = crashes + 1 /\ DOMAIN logs' = DOMAIN logs
      /\ Idle.at = "idle"
  BY CrashSteps DEF Crash, Idle
<1>2. /\ DOMAIN batches' = DOMAIN batches
      /\ \A b \in DOMAIN batches : /\ batches'[b].rows = batches[b].rows
                                   /\ batches'[b].log = batches[b].log
  <2>1. \A b \in DOMAIN batches : DOMAIN batches[b] = {"rows", "log", "file", "outcome"}
    <3>1. \A b \in DOMAIN batches : batches[b] \in Batch
      BY <1>0
    <3> QED
      BY <3>1 DEF Batch
  <2>2. batches' = [b \in DOMAIN batches |->
            IF batches[b].outcome = "open"
            THEN [batches[b] EXCEPT !.outcome = "rolled back"] ELSE batches[b]]
    BY DEF Crash
  <2> QED
    BY <2>1, <2>2
<1>3. PICK size \in [{p \in DOMAIN logs : logs[p].state = "open"} -> {"short", "long"}] :
        logs' = [p \in DOMAIN logs |->
            IF p \in DOMAIN size
            THEN [logs[p] EXCEPT !.images = {}, !.state = size[p]] ELSE logs[p]]
  BY DEF Crash
<1>4. \A p \in DOMAIN logs :
        \/ logs[p].state # "open" /\ logs'[p] = logs[p]
        \/ logs'[p].state \in {"short", "long"} /\ logs'[p].images = {}
  <2> SUFFICES ASSUME NEW p \in DOMAIN logs
               PROVE  \/ logs[p].state # "open" /\ logs'[p] = logs[p]
                      \/ logs'[p].state \in {"short", "long"} /\ logs'[p].images = {}
    OBVIOUS
  <2>1. CASE p \in DOMAIN size
    <3>1. size[p] \in {"short", "long"} /\ DOMAIN logs[p] = {"by", "images", "state"}
      BY <1>0, <2>1 DEF Workbook
    <3> QED
      BY <1>3, <2>1, <3>1
  <2>2. CASE p \notin DOMAIN size
    BY <1>3, <2>2
  <2> QED
    BY <2>1, <2>2
<1>5. TypeInv'
  BY <1>0, CrashTypes
<1>6. LogsLater'
  BY <1>0, <1>1, <1>2 DEF LogsLater, At
<1>7. RowsKept'
  <2> SUFFICES ASSUME NEW b \in DOMAIN batches, NEW p, p = batches[b].log, p # NoPath
               PROVE  \/ Overlapped(b) \/ logs'[p].state \in {"short", "long"}
                      \/ \A x \in logs'[p].images : Holds(x, b)
    BY <1>1, <1>2 DEF RowsKept, Broken, Overlapped
  <2>1. p \in DOMAIN logs
    BY <1>0 DEF LogsLater
  <2>2. Overlapped(b) \/ Broken(p) \/ \A x \in logs[p].images : Holds(x, b)
    BY <1>0 DEF RowsKept
  <2> QED
    BY <1>4, <2>1, <2>2 DEF Broken
<1>8. SavesKeep' /\ AloneWithBook'
  BY <1>1 DEF SavesKeep, AloneWithBook, At
<1>9. BooksSound'
  <2>1. SameRows
    BY <1>2 DEF SameRows
  <2>2. ASSUME NEW p \in DOMAIN logs, NEW x \in logs'[p].images
        PROVE  Known(x)' /\ Bounded(x)'
    <3>1. logs'[p] = logs[p]
      BY <1>4, <2>2
    <3>2. x \in Seq(BatchIds)
      BY <1>0, <2>2, <3>1 DEF Workbook
    <3>3. Known(x) /\ Bounded(x)
      BY <1>0, <2>2, <3>1 DEF BooksSound
    <3> QED
      BY <1>1, <2>1, <3>2, <3>3, BoundedStays
  <2>3. ASSUME NEW p \in DOMAIN logs
        PROVE  /\ logs'[p].state # "open"
               /\ logs'[p].state = "whole" => \E x \in logs'[p].images : logs'[p].images = {x}
               /\ logs'[p].state \in {"short", "long"} => logs'[p].images = {} /\ crashes' > 0
    BY <1>0, <1>1, <1>4 DEF BooksSound, Broken
  <2>4. \A w \in Workers : worker'[w].at \notin {"created", "closing"}
    BY <1>1
  <2> QED
    BY <1>1, <2>2, <2>3, <2>4 DEF BooksSound, Broken
<1> QED
  BY <1>5, <1>6, <1>7, <1>8, <1>9 DEF KeepInv

\* Every step keeps the rows, the sizes and what they rest on.
LEMMA StepKeepInv == KeepInv /\ [Next]_vars => KeepInv'
<1> SUFFICES ASSUME KeepInv, [Next]_vars PROVE KeepInv'
  OBVIOUS
<1>1. TypeInv'
  BY StepTypeInv DEF KeepInv
<1>2. ASSUME NEW w \in Workers,
             Export(w) \/ Import(w) \/ ImportUnlogged(w) \/ Step(w)
      PROVE  KeepInv'
  <2>1. LogsLater'
    BY <1>2, StepLogsLater DEF KeepInv
  <2>2. RowsKept'
    BY <1>2, StepRowsKept
  <2>3. SavesKeep'
    BY <1>2, StepSavesKeep
  <2>4. AloneWithBook'
    BY <1>2, StepAlone
  <2>5. BooksSound'
    BY <1>2, StepBooksSound
  <2> QED
    BY <1>1, <2>1, <2>2, <2>3, <2>4, <2>5 DEF KeepInv
<1>3. CASE Tick \/ UNCHANGED vars
  <2>1. UNCHANGED <<logs, exported, batches, worker, overlaps, crashes>>
    BY <1>3 DEF Tick, vars
  <2>2. LogsLater' /\ RowsKept'
    BY <2>1 DEF KeepInv, LogsLater, RowsKept, Overlapped, Broken, At
  <2>3. \A x : /\ RowsOf(x)' = RowsOf(x) /\ Known(x)' = Known(x)
               /\ Bounded(x)' = Bounded(x) /\ Overlapped(x)' = Overlapped(x)
    <3>1. \A x : RowsOf(x)' = RowsOf(x)
      BY <2>1 DEF RowsOf
    <3> QED
      BY <2>1, <3>1 DEF Known, Bounded, Overlapped
  <2>4. \A p : Collided(p)' = Collided(p)
    BY <2>1 DEF Collided, BoundTo, At
  <2>5. SavesKeep'
    <3>1. SavesKeep
      BY DEF KeepInv
    <3> QED
      BY <2>1, <2>3, <3>1 DEF SavesKeep, At, Known, Bounded
  <2>6. AloneWithBook'
    <3>1. AloneWithBook
      BY DEF KeepInv
    <3> QED
      BY <2>1, <2>3, <3>1 DEF AloneWithBook, At, Overlapped
  <2>7. BooksSound'
    <3>1. BooksSound
      BY DEF KeepInv
    <3> QED
      BY <2>1, <2>3, <2>4, <3>1 DEF BooksSound, Broken
  <2> QED
    BY <1>1, <2>2, <2>5, <2>6, <2>7 DEF KeepInv
<1> QED
  BY <1>2, <1>3, CrashKeeps DEF Next

\* There are no rows at first.
LEMMA InitKeepInv == Init => KeepInv
<1> SUFFICES ASSUME Init PROVE KeepInv
  OBVIOUS
<1>1. /\ overlaps = {} /\ batches = <<>> /\ DOMAIN logs = {}
      /\ \A w \in Workers : worker[w] = Idle
      /\ Idle.at = "idle"
  BY DEF Init, Idle
<1>2. TypeInv
  BY InitTypeInv
<1>3. LogsLater /\ RowsKept
  BY <1>1 DEF LogsLater, RowsKept, At
<1>4. SavesKeep /\ AloneWithBook /\ BooksSound
  BY <1>1 DEF SavesKeep, AloneWithBook, BooksSound, At
<1> QED
  BY <1>2, <1>3, <1>4 DEF KeepInv

\* However the appends of a month interleave and wherever the process crashes, the
\* rows of a request that appended alone stay in its workbook, and a workbook is
\* broken only by a crash or by two appends that were both bound to it.
THEOREM RowsAreKept == Spec => []LossNeedsOverlap
<1>1. ASSUME KeepInv PROVE LossNeedsOverlap
  <2> SUFFICES ASSUME NEW b \in DOMAIN batches, NEW p, p = batches[b].log, p # NoPath
               PROVE  \/ Overlapped(b)
                      \/ Broken(p) /\ (crashes > 0 \/ Mixed(p))
                      \/ /\ ~Broken(p)
                         /\ \A i \in logs[p].images : \E k \in DOMAIN i : i[k] = b
    BY DEF LossNeedsOverlap
  <2>1. p \in DOMAIN logs
    BY <1>1 DEF KeepInv, LogsLater
  <2>2. Broken(p) => crashes > 0 \/ Collided(p)
    BY <1>1, <2>1 DEF KeepInv, BooksSound
  <2>3. Collided(p) => Mixed(p)
    BY DEF Collided, Mixed, BoundTo
  <2>4. Overlapped(b) \/ Broken(p) \/ \A i \in logs[p].images : Holds(i, b)
    BY <1>1 DEF KeepInv, RowsKept
  <2> QED
    BY <2>2, <2>3, <2>4 DEF Holds
<1> QED
  BY <1>1, InitKeepInv, StepKeepInv, PTL DEF Spec

\* A workbook exceeds the limit by less than one batch, whatever its size is
\* measured against, except for rows of requests that appended at the same time.
THEOREM WorkbooksRotate == Spec => []RotationBound
<1>1. KeepInv => RotationBound
  BY DEF KeepInv, BooksSound, Bounded, RotationBound
<1> QED
  BY <1>1, InitKeepInv, StepKeepInv, PTL DEF Spec

=============================================================================
