--------------------------- MODULE FileList_proofs ---------------------------
(***************************************************************************)
(* Theorems about the file list, for every set of files, every size of the *)
(* screen, any number of waiting operations and of thumbnail jobs.         *)
(***************************************************************************)
EXTENDS FileList, SequenceLemmas

-----------------------------------------------------------------------------
(* Types *)

Row == [error : BOOLEAN, loaded : BOOLEAN, created : BOOLEAN,
        shown : {NoImage} \union Versions, data : Versions]
RowMaps     == UNION {[D -> Row] : D \in SUBSET Files}
VersionMaps == UNION {[D -> Versions] : D \in SUBSET Files}

Stages  == {"none", "cache", "original", "script", "killed", "answer"}
Results == {NoImage, Failed, Cancelled} \union Versions

Job == [file : Files, pos : Int, inView : BOOLEAN, data : Versions,
        started : BOOLEAN, cancelled : BOOLEAN, stage : Stages, result : Results]

Operation == [kind : Kinds, files : Seq(Files), data : VersionMaps]

Scan == [phase : {"initialize", "scan", "completed"}, first : Int, last : Int, at : Nat]

ListRecord ==
    [all : Seq(Files), accepted : SUBSET Files, rows : RowMaps, queue : Seq(Operation),
     loading : BOOLEAN, timer : BOOLEAN, event : {"none", "start", "restart", "stopped"},
     jobs : Seq(Job), cancelling : BOOLEAN, waits : Nat, visibles : Seq(Files),
     changed : BOOLEAN, scan : Scan, skipped : SUBSET Files, stopped : BOOLEAN,
     disturbed : BOOLEAN]

-----------------------------------------------------------------------------
(***************************************************************************)
(* The inductive invariant, of the list l when the files on disk have the  *)
(* versions d.  No data, waiting operation or job is newer than the disk;  *)
(* an answer is at least as new as the data that its job was made for; and *)
(* unless the list was disturbed these are still the data of the row, and  *)
(* the row can still be found.                                             *)
(***************************************************************************)
Paired(l) == Range(l.all) = DOMAIN l.rows /\ IsInjective(l.all)

OperationOK(o, d) ==
    /\ IsInjective(o.files) /\ DOMAIN o.data = Range(o.files)
    /\ \A f \in DOMAIN o.data : o.data[f] <= d[f]
    /\ o.kind = "rename" => Len(o.files) = 2 /\ o.data[o.files[1]] <= d[o.files[2]]

JobOK(j, d) ==
    /\ j.data <= d[j.file]
    /\ j.stage = "answer" => j.result # NoImage /\ (j.result \in Versions => j.data <= j.result)

NotNewer(l, d) ==
    /\ \A f \in DOMAIN l.rows : l.rows[f].data <= d[f]
    /\ \A i \in 1..Len(l.queue) : OperationOK(l.queue[i], d)
    /\ \A i \in 1..Len(l.jobs) : JobOK(l.jobs[i], d)

\* A job that is about to start is the newest one.
StartsNewest(l) == l.event = "start" => l.jobs # <<>> /\ l.jobs[1].stage = "none"

Older(l) == \A i \in 2..Len(l.jobs) : l.jobs[i].started /\ l.jobs[i].cancelled

\* What the thumbnailer goes through is what the store shows, if it was not told
\* otherwise and the list is not empty.
Current(l) == l.changed \/ DOMAIN l.rows = {} \/ l.visibles = Visible(l)

ScanOK(l) == l.scan.phase = "scan" => l.scan.at >= 1

\* The row of a file that is loaded shows an image that is new enough.
RowShown(row) == row.loaded => row.shown >= row.data

\* A job is still for the data that the row has, and will find the row.
InTurn(l, j) ==
    \/ j.cancelled
    \/ j.file \notin DOMAIN l.rows
    \/ l.rows[j.file].data = j.data /\ (j.inView => j.pos <= Len(Visible(l)))

Undisturbed(l) ==
    ~l.disturbed =>
        /\ \A f \in DOMAIN l.rows : RowShown(l.rows[f])
        /\ \A i \in 1..Len(l.jobs) : InTurn(l, l.jobs[i])

\* what the thumbnailer goes on with: a cancelled list waits for nothing but its jobs,
\* which were told; the job that is about to start was not cancelled, and a job that
\* answers so was.
Awaits(l) ==
    /\ l.event = "start" => l.jobs # <<>> /\ ~l.jobs[1].cancelled
    /\ l.cancelling => /\ l.event = "none" /\ ~l.timer
                       /\ \A i \in 1..Len(l.jobs) : l.jobs[i].cancelled
    /\ \A i \in 1..Len(l.jobs) : l.jobs[i].result = Cancelled => l.jobs[i].cancelled

\* Stranded, of a list
Asleep(l) ==
    /\ l.loading \/ l.queue # <<>>
    /\ l.event = "none" /\ ~l.timer
    /\ \A i \in DOMAIN l.jobs : l.jobs[i].started => l.jobs[i].cancelled

SameControl(l, m) ==
    /\ m.jobs = l.jobs /\ m.event = l.event /\ m.cancelling = l.cancelling
    /\ m.loading = l.loading /\ m.queue = l.queue /\ m.timer = l.timer

\* what looking for the next thumbnail leaves: a callback to come, a job that will
\* start and was not cancelled, or the end of the loading
Onward(l, m) ==
    /\ m.cancelling = l.cancelling /\ m.queue = l.queue
    /\ \/ m.event \in {"restart", "stopped"} /\ m.jobs = l.jobs
       \/ /\ m.event = "start" /\ m.jobs # <<>>
          /\ ~m.jobs[1].cancelled /\ m.jobs[1].result # Cancelled
          /\ \A i \in 1..Len(m.jobs) : i = 1 \/ m.jobs[i].cancelled
       \/ m.event = l.event /\ m.jobs = l.jobs /\ ~m.loading

Good(l, d) ==
    /\ l \in ListRecord /\ Paired(l) /\ NotNewer(l, d) /\ StartsNewest(l) /\ Older(l)
    /\ Current(l) /\ ScanOK(l) /\ Undisturbed(l)

LInv ==
    /\ Good(list, disk)
    /\ list.waits <= events
    /\ events \in Nat
    /\ scroll \in Nat
    /\ young \subseteq Files
    /\ disk \in [Files -> Versions]

-----------------------------------------------------------------------------
(* Records *)

LEMMA RowMapFacts ==
    ASSUME NEW r \in RowMaps
    PROVE  /\ DOMAIN r \in SUBSET Files
           /\ r \in [DOMAIN r -> Row]
           /\ \A f \in DOMAIN r : r[f] \in Row
BY DEF RowMaps

LEMMA RowMapIntro ==
    ASSUME NEW D \in SUBSET Files, NEW r \in [D -> Row]
    PROVE  r \in RowMaps /\ DOMAIN r = D
BY DEF RowMaps

LEMMA ListFields ==
    ASSUME NEW l \in ListRecord
    PROVE  /\ l.all \in Seq(Files) /\ l.accepted \in SUBSET Files /\ l.rows \in RowMaps
           /\ l.queue \in Seq(Operation) /\ l.loading \in BOOLEAN /\ l.timer \in BOOLEAN
           /\ l.event \in {"none", "start", "restart", "stopped"}
           /\ l.jobs \in Seq(Job) /\ l.cancelling \in BOOLEAN /\ l.waits \in Nat
           /\ l.visibles \in Seq(Files) /\ l.changed \in BOOLEAN /\ l.scan \in Scan
           /\ l.skipped \in SUBSET Files /\ l.stopped \in BOOLEAN /\ l.disturbed \in BOOLEAN
BY DEF ListRecord

(* What the store shows depends on its rows and on the filter only. *)
LEMMA VisibleFacts ==
    ASSUME NEW l \in ListRecord
    PROVE  /\ Visible(l) \in Seq(Files) /\ Len(Visible(l)) \in Nat
           /\ \A m : m.all = l.all /\ m.accepted = l.accepted => Visible(m) = Visible(l)
<1>1. l.all \in Seq(Files)
  BY ListFields
<1>2. Keep(l.all, l.accepted) \in Seq(Files)
  BY <1>1, KeepFacts
<1> QED  BY <1>2 DEF Visible

(* A change that leaves rows, operations and jobs alone, and starts nothing. *)
LEMMA ControlKeepsGood ==
    ASSUME NEW d, NEW l, Good(l, d), NEW m \in ListRecord,
           m.all = l.all, m.accepted = l.accepted, m.rows = l.rows, m.queue = l.queue,
           m.jobs = l.jobs, m.visibles = l.visibles, m.changed = l.changed,
           m.disturbed = l.disturbed, m.event = "start" => l.event = "start", ScanOK(m)
    PROVE  Good(m, d)
<1>1. l \in ListRecord
  BY DEF Good
<1>2. Visible(m) = Visible(l)
  BY <1>1, VisibleFacts
<1>3. Paired(m) /\ NotNewer(m, d) /\ StartsNewest(m) /\ Older(m)
  BY DEF Good, Paired, NotNewer, StartsNewest, Older
<1>4. Current(m)
  BY <1>2 DEF Good, Current
<1>5. Undisturbed(m)
  BY <1>2 DEF Good, Undisturbed, InTurn
<1> QED  BY <1>3, <1>4, <1>5 DEF Good

(* A change of what is known of the thumbnails of the rows. *)
LEMMA NewRowsKeepGood ==
    ASSUME NEW d, NEW l, Good(l, d), NEW r, r \in [DOMAIN l.rows -> Row],
           \A g \in DOMAIN l.rows : r[g].data = l.rows[g].data,
           l.disturbed \/ \A g \in DOMAIN l.rows : RowShown(r[g])
    PROVE  Good([l EXCEPT !.rows = r], d)
<1> DEFINE m == [l EXCEPT !.rows = r]
<1>1. l \in ListRecord /\ DOMAIN l.rows \in SUBSET Files
  BY ListFields, RowMapFacts DEF Good
<1>2. r \in RowMaps /\ DOMAIN r = DOMAIN l.rows
  BY <1>1, RowMapIntro
<1>3. /\ m \in ListRecord /\ m.rows = r
      /\ m.all = l.all /\ m.accepted = l.accepted /\ m.queue = l.queue /\ m.jobs = l.jobs
      /\ m.visibles = l.visibles /\ m.changed = l.changed /\ m.disturbed = l.disturbed
      /\ m.event = l.event /\ m.scan = l.scan
  BY <1>1, <1>2 DEF ListRecord
<1> HIDE DEF m
<1>4. Visible(m) = Visible(l)
  BY <1>1, <1>3, VisibleFacts
<1>5. Paired(m) /\ StartsNewest(m) /\ Older(m) /\ ScanOK(m)
  BY <1>2, <1>3 DEF Good, Paired, StartsNewest, Older, ScanOK
<1>6. NotNewer(m, d)
  BY <1>2, <1>3 DEF Good, NotNewer
<1>7. Current(m)
  BY <1>2, <1>3, <1>4 DEF Good, Current
<1>8. Undisturbed(m)
  BY <1>2, <1>3, <1>4 DEF Good, Undisturbed, InTurn
<1>9. Good(m, d)
  BY <1>3, <1>5, <1>6, <1>7, <1>8 DEF Good
<1> QED  BY <1>9 DEF m

(* gth_file_view_set of a thumbnail: nothing but what a row shows is changed. *)
LEMMA SetRowFacts ==
    ASSUME NEW l \in ListRecord, NEW f, NEW pos,
           NEW image \in {NoImage} \union Versions
    PROVE  LET m == SetRow(l, f, pos, image)
           IN  /\ m \in ListRecord /\ m = [l EXCEPT !.rows = m.rows]
               /\ m.rows \in [DOMAIN l.rows -> Row]
               /\ \A g \in DOMAIN l.rows :
                    /\ m.rows[g].data = l.rows[g].data
                    /\ m.rows[g].loaded = l.rows[g].loaded
                    /\ g # f => m.rows[g].shown = l.rows[g].shown
               /\ pos <= Len(Visible(l)) /\ f \in DOMAIN l.rows => m.rows[f].shown = image
<1> DEFINE m == SetRow(l, f, pos, image)
<1>1. /\ l.rows \in RowMaps /\ DOMAIN l.rows \in SUBSET Files
      /\ l.rows \in [DOMAIN l.rows -> Row]
  BY ListFields, RowMapFacts
<1>2. CASE pos <= Len(Visible(l)) /\ f \in DOMAIN l.rows
  <2> DEFINE r == [l.rows EXCEPT ![f].shown = image]
  <2>1. m = [l EXCEPT !.rows = r]
    BY <1>2 DEF SetRow, ListRecord
  <2>2. /\ r \in [DOMAIN l.rows -> Row]
        /\ \A g \in DOMAIN l.rows :
             /\ r[g].data = l.rows[g].data
             /\ r[g].loaded = l.rows[g].loaded
             /\ g # f => r[g].shown = l.rows[g].shown
        /\ r[f].shown = image
    BY <1>1, <1>2 DEF Row
  <2> HIDE DEF r
  <2>3. r \in RowMaps
    BY <1>1, <2>2, RowMapIntro
  <2>4. m \in ListRecord /\ m.rows = r
    BY <2>1, <2>3 DEF ListRecord
  <2>5. m = [l EXCEPT !.rows = m.rows]
    BY <2>1, <2>4
  <2> HIDE DEF m
  <2>6. m.rows \in [DOMAIN l.rows -> Row]
    BY <2>2, <2>4
  <2>7. \A g \in DOMAIN l.rows :
             /\ m.rows[g].data = l.rows[g].data
             /\ m.rows[g].loaded = l.rows[g].loaded
             /\ g # f => m.rows[g].shown = l.rows[g].shown
    BY <2>2, <2>4
  <2>8. m.rows[f].shown = image
    BY <2>2, <2>4
  <2>9. QED  BY <2>4, <2>5, <2>6, <2>7, <2>8 DEF m
<1>3. CASE ~ (pos <= Len(Visible(l)) /\ f \in DOMAIN l.rows)
  <2>1. m = l
    BY <1>3 DEF SetRow
  <2>2. l = [l EXCEPT !.rows = l.rows]
    BY DEF ListRecord
  <2> HIDE DEF m
  <2>3. m \in ListRecord /\ m = [l EXCEPT !.rows = m.rows] /\ m.rows \in [DOMAIN l.rows -> Row]
    BY <1>1, <2>1, <2>2
  <2> QED  BY <1>3, <2>1, <2>3 DEF m
<1> QED  BY <1>2, <1>3
-----------------------------------------------------------------------------
(* Jobs *)

(* A change of the jobs. *)
LEMMA NewJobsKeepGood ==
    ASSUME NEW d, NEW l, Good(l, d), NEW m \in ListRecord,
           m.all = l.all, m.accepted = l.accepted, m.rows = l.rows, m.queue = l.queue,
           m.visibles = l.visibles, m.changed = l.changed, m.disturbed = l.disturbed,
           ScanOK(m), StartsNewest(m),
           \A i \in 1..Len(m.jobs) : JobOK(m.jobs[i], d) /\ (l.disturbed \/ InTurn(l, m.jobs[i])),
           \A i \in 2..Len(m.jobs) : m.jobs[i].started /\ m.jobs[i].cancelled
    PROVE  Good(m, d)
<1>1. l \in ListRecord
  BY DEF Good
<1>2. Visible(m) = Visible(l)
  BY <1>1, VisibleFacts
<1>3. Paired(m) /\ NotNewer(m, d) /\ Older(m)
  BY DEF Good, Paired, NotNewer, Older
<1>4. Current(m)
  BY <1>2 DEF Good, Current
<1>5. Undisturbed(m)
  BY <1>2 DEF Good, Undisturbed, InTurn
<1> QED  BY <1>3, <1>4, <1>5 DEF Good

LEMMA DoneIfIdleFacts ==
    ASSUME NEW l \in ListRecord
    PROVE  LET m == DoneIfIdle(l)
           IN  /\ m \in ListRecord /\ m = [l EXCEPT !.loading = m.loading]
               /\ \A d : Good(l, d) => Good(m, d)
<1> DEFINE m == DoneIfIdle(l)
<1>1. m \in ListRecord /\ m = [l EXCEPT !.loading = m.loading]
  <2>1. CASE l.jobs = <<>>
    BY <2>1 DEF DoneIfIdle, ListRecord
  <2>2. CASE l.jobs # <<>>
    BY <2>2 DEF DoneIfIdle, ListRecord
  <2> QED  BY <2>1, <2>2
<1> HIDE DEF m
<1>2. /\ m.all = l.all /\ m.accepted = l.accepted /\ m.rows = l.rows /\ m.queue = l.queue
      /\ m.jobs = l.jobs /\ m.visibles = l.visibles /\ m.changed = l.changed
      /\ m.disturbed = l.disturbed /\ m.event = l.event /\ m.scan = l.scan
  BY <1>1 DEF ListRecord
<1>3. ASSUME NEW d, Good(l, d)  PROVE Good(m, d)
  <2>1. ScanOK(m)
    BY <1>2, <1>3 DEF Good, ScanOK
  <2> QED  BY <1>1, <1>2, <1>3, <2>1, ControlKeepsGood
<1> QED  BY <1>1, <1>3 DEF m

(* thumbnail_job_free: a job that is at work goes. *)
LEMMA FreeJobFacts ==
    ASSUME NEW d, NEW l, Good(l, d), NEW i \in 1..Len(l.jobs), l.jobs[i].stage # "none"
    PROVE  LET m == FreeJob(l, i)
           IN  /\ Good(m, d) /\ m = [l EXCEPT !.loading = m.loading, !.jobs = m.jobs]
               /\ m.jobs = RemoveAt(l.jobs, i) /\ (m.loading => l.loading)
<1> DEFINE J == RemoveAt(l.jobs, i)
           f == [l EXCEPT !.jobs = J]
<1>1. l \in ListRecord /\ l.jobs \in Seq(Job)
  BY ListFields DEF Good
<1>2. /\ J \in Seq(Job) /\ Len(J) = Len(l.jobs) - 1
      /\ \A k \in 1..Len(l.jobs) - 1 : J[k] = l.jobs[IF k < i THEN k ELSE k + 1]
  BY <1>1, RemoveAtFacts
<1> HIDE DEF J
<1>3. /\ f \in ListRecord /\ f.jobs = J
      /\ f.all = l.all /\ f.accepted = l.accepted /\ f.rows = l.rows /\ f.queue = l.queue
      /\ f.visibles = l.visibles /\ f.changed = l.changed
      /\ f.disturbed = l.disturbed /\ f.event = l.event /\ f.scan = l.scan
  BY <1>1, <1>2 DEF ListRecord
<1>4. f = [l EXCEPT !.jobs = J]
  OBVIOUS
<1> HIDE DEF f
<1>5. Len(l.jobs) \in Nat /\ i \in Nat /\ 1 <= i /\ i <= Len(l.jobs)
  BY <1>1
<1>6. \A k \in 1..Len(J) : \E n \in 1..Len(l.jobs) : J[k] = l.jobs[n] /\ (k >= 2 => n >= 2)
  <2> TAKE k \in 1..Len(J)
  <2>1. CASE k < i
    BY <1>2, <1>5, <2>1
  <2>2. CASE ~ (k < i)
    <3>1. J[k] = l.jobs[k + 1] /\ k + 1 \in 1..Len(l.jobs)
      BY <1>2, <1>5, <2>2
    <3> QED  BY <3>1
  <2> QED  BY <2>1, <2>2
<1>7. \A k \in 1..Len(J) : JobOK(J[k], d) /\ (l.disturbed \/ InTurn(l, J[k]))
  BY <1>6 DEF Good, NotNewer, Undisturbed
<1>8. \A k \in 2..Len(J) : J[k].started /\ J[k].cancelled
  <2> TAKE k \in 2..Len(J)
  <2>1. PICK n \in 1..Len(l.jobs) : J[k] = l.jobs[n] /\ n >= 2
    BY <1>6
  <2> QED  BY <2>1 DEF Good, Older
<1>9. StartsNewest(f)
  <2> SUFFICES ASSUME l.event = "start"  PROVE J # <<>> /\ J[1].stage = "none"
    BY <1>3 DEF StartsNewest
  <2>1. l.jobs[1].stage = "none" /\ i # 1
    BY DEF Good, StartsNewest
  <2>2. Len(J) >= 1 /\ J[1] = l.jobs[1]
    BY <1>2, <1>5, <2>1
  <2> QED  BY <1>2, <2>1, <2>2
<1>10. ScanOK(f)
  BY <1>3 DEF Good, ScanOK
<1>11. Good(f, d)
  BY <1>3, <1>7, <1>8, <1>9, <1>10, NewJobsKeepGood
<1>12. /\ Good(DoneIfIdle(f), d) /\ DoneIfIdle(f) \in ListRecord
       /\ DoneIfIdle(f) = [f EXCEPT !.loading = DoneIfIdle(f).loading]
  BY <1>3, <1>11, DoneIfIdleFacts
<1>13. FreeJob(l, i) = DoneIfIdle(f)
  BY DEF FreeJob, f, J
<1> DEFINE m == DoneIfIdle(f)
<1> HIDE DEF m
<1>14. m = [f EXCEPT !.loading = m.loading] /\ m \in ListRecord
  BY <1>12 DEF m
<1>15. m = [l EXCEPT !.loading = m.loading, !.jobs = m.jobs]
  BY <1>1, <1>3, <1>4, <1>14 DEF ListRecord
<1>17. m.jobs = J
  BY <1>3, <1>14 DEF ListRecord
<1>16. m.loading => l.loading
  <2>1. f.loading = l.loading
    BY <1>1, <1>4 DEF ListRecord
  <2> QED  BY <1>3, <2>1 DEF m, DoneIfIdle, ListRecord
<1> QED  BY <1>12, <1>13, <1>15, <1>16, <1>17 DEF m, J

(* thumbnail_job_cancel of all jobs: those that are left are at work and were told. *)
LEMMA CancelJobsFacts ==
    ASSUME NEW d, NEW l, Good(l, d), l.event # "start"
    PROVE  LET m == CancelJobs(l)
           IN  /\ Good(m, d) /\ m = [l EXCEPT !.loading = m.loading, !.jobs = m.jobs]
               /\ \A i \in 1..Len(m.jobs) : m.jobs[i].started /\ m.jobs[i].cancelled
<1> DEFINE told == [i \in DOMAIN l.jobs |-> [l.jobs[i] EXCEPT !.cancelled = TRUE]]
           J == Keep(told, {j \in Range(told) : j.started})
           f == [l EXCEPT !.jobs = J]
<1>1. l \in ListRecord /\ l.jobs \in Seq(Job)
  BY ListFields DEF Good
<1>2. told \in Seq(Job) /\ DOMAIN told = DOMAIN l.jobs
  <2>1. \A j \in Job : [j EXCEPT !.cancelled = TRUE] \in Job
    BY DEF Job
  <2>2. Len(l.jobs) \in Nat /\ DOMAIN l.jobs = 1..Len(l.jobs)
    BY <1>1
  <2>3. \A i \in 1..Len(l.jobs) : l.jobs[i] \in Job
    BY <1>1
  <2>4. told \in [1..Len(l.jobs) -> Job]
    BY <2>1, <2>2, <2>3
  <2>5. \A n \in Nat : \A h : h \in [1..n -> Job] => h \in Seq(Job)
    OBVIOUS
  <2> QED  BY <2>2, <2>4, <2>5
<1>3. \A i \in DOMAIN told : told[i].cancelled /\ (JobOK(l.jobs[i], d) => JobOK(told[i], d))
  BY <1>1 DEF Job, JobOK
<1> HIDE DEF told
<1>4. J \in Seq(Job) /\ Range(J) = Range(told) \intersect {j \in Range(told) : j.started}
  BY <1>2, KeepFacts
<1> HIDE DEF J
<1>5. \A k \in 1..Len(J) : \E i \in DOMAIN l.jobs : J[k] = told[i] /\ J[k].started
  <2> TAKE k \in 1..Len(J)
  <2>1. J[k] \in Range(J)
    BY <1>4 DEF Range
  <2> QED  BY <1>2, <1>4, <2>1 DEF Range
<1>6. \A k \in 1..Len(J) : JobOK(J[k], d) /\ J[k].started /\ J[k].cancelled
  BY <1>1, <1>2, <1>3, <1>5 DEF Good, NotNewer
<1>7. /\ f \in ListRecord /\ f.jobs = J
      /\ f.all = l.all /\ f.accepted = l.accepted /\ f.rows = l.rows /\ f.queue = l.queue
      /\ f.visibles = l.visibles /\ f.changed = l.changed
      /\ f.disturbed = l.disturbed /\ f.event = l.event /\ f.scan = l.scan
  BY <1>1, <1>4 DEF ListRecord
<1>8. f = [l EXCEPT !.jobs = J]
  OBVIOUS
<1> HIDE DEF f
<1>9. StartsNewest(f) /\ ScanOK(f)
  BY <1>7 DEF Good, StartsNewest, ScanOK
<1>10. Good(f, d)
  <2>1. \A i \in 1..Len(f.jobs) : JobOK(f.jobs[i], d) /\ (l.disturbed \/ InTurn(l, f.jobs[i]))
    BY <1>6, <1>7 DEF InTurn
  <2>2. \A i \in 2..Len(f.jobs) : f.jobs[i].started /\ f.jobs[i].cancelled
    BY <1>4, <1>6, <1>7
  <2> QED  BY <1>7, <1>9, <2>1, <2>2, NewJobsKeepGood
<1> DEFINE m == CancelJobs(l)
<1>11. CASE l.jobs = <<>>
  <2>1. m = l
    BY <1>11 DEF CancelJobs
  <2> HIDE DEF m
  <2>2. m = [l EXCEPT !.loading = m.loading, !.jobs = m.jobs]
    BY <1>1, <2>1 DEF ListRecord
  <2>3. Len(m.jobs) = 0
    BY <1>11, <2>1
  <2> QED  BY <2>1, <2>2, <2>3 DEF m
<1>12. CASE l.jobs # <<>>
  <2>1. m = DoneIfIdle(f)
    BY <1>12 DEF CancelJobs, f, J, told
  <2> HIDE DEF m
  <2>2. Good(m, d) /\ m \in ListRecord /\ m = [f EXCEPT !.loading = m.loading]
    BY <1>7, <1>10, <2>1, DoneIfIdleFacts
  <2>3. m = [[l EXCEPT !.jobs = J] EXCEPT !.loading = m.loading] /\ m.jobs = J
    BY <1>7, <1>8, <2>2 DEF ListRecord
  <2>4. m = [l EXCEPT !.loading = m.loading, !.jobs = J]
    BY <1>1, <2>3 DEF ListRecord
  <2> QED  BY <1>6, <2>2, <2>3, <2>4 DEF m
<1> QED  BY <1>11, <1>12

(* _gth_file_list_update_thumb: a thumbnail of the cache is noted, or a job is begun
   and the others are cancelled. *)
LEMMA UpdateThumbFacts ==
    ASSUME NEW d, NEW l, Good(l, d), NEW job \in Job,
           ~job.started, ~job.cancelled, job.stage = "none",
           job.file \in DOMAIN l.rows, job.data = l.rows[job.file].data,
           job.inView => job.pos <= Len(Visible(l)) /\ ~l.rows[job.file].loaded
    PROVE  \A m \in UpdateThumb(l, job) :
               Good(m, d) /\ m.waits = l.waits /\ (job.result # Cancelled => Onward(l, m))
<1> DEFINE f == job.file
           quiet == [l EXCEPT !.event = "none"]
           cached(failed) == [quiet EXCEPT !.rows[f].created = TRUE, !.rows[f].error = failed,
                                           !.event = "restart"]
           row == IF job.inView THEN SetRow(quiet, f, job.pos, NoImage) ELSE quiet
           begun == [CancelJobs(row) EXCEPT !.jobs = <<job>> \o @, !.event = "start"]
<1>1. l \in ListRecord
  BY DEF Good
<1>2. /\ quiet \in ListRecord /\ quiet.event = "none" /\ quiet.waits = l.waits
      /\ quiet.cancelling = l.cancelling
      /\ quiet.all = l.all /\ quiet.accepted = l.accepted /\ quiet.rows = l.rows
      /\ quiet.queue = l.queue /\ quiet.jobs = l.jobs
      /\ quiet.visibles = l.visibles /\ quiet.changed = l.changed
      /\ quiet.disturbed = l.disturbed /\ quiet.scan = l.scan
  BY <1>1 DEF ListRecord
<1> HIDE DEF quiet
<1>3. Good(quiet, d) /\ Visible(quiet) = Visible(l)
  <2>1. ScanOK(quiet)
    BY <1>2 DEF Good, ScanOK
  <2> QED  BY <1>1, <1>2, <2>1, ControlKeepsGood, VisibleFacts
<1>4. /\ DOMAIN l.rows \in SUBSET Files /\ l.rows \in [DOMAIN l.rows -> Row]
      /\ f \in DOMAIN l.rows
      /\ quiet.disturbed \/ \A g \in DOMAIN l.rows : RowShown(l.rows[g])
  BY <1>1, <1>2, ListFields, RowMapFacts DEF Good, Undisturbed
<1>5. ASSUME NEW failed \in BOOLEAN
      PROVE  /\ Good(DoneIfIdle(cached(failed)), d)
             /\ DoneIfIdle(cached(failed)).waits = l.waits
             /\ Onward(l, DoneIfIdle(cached(failed)))
  <2> DEFINE r == [l.rows EXCEPT ![f].created = TRUE, ![f].error = failed]
             n == [quiet EXCEPT !.rows = r]
             m == cached(failed)
  <2>1. /\ r \in [DOMAIN l.rows -> Row]
        /\ \A g \in DOMAIN l.rows : r[g].data = l.rows[g].data /\ r[g].loaded = l.rows[g].loaded
                                    /\ r[g].shown = l.rows[g].shown
    BY <1>4, ZenonT(30) DEF Row
  <2>2. m = [n EXCEPT !.event = "restart"]
    BY <1>2 DEF ListRecord
  <2> HIDE DEF r, m
  <2>3. Good(n, d) /\ n \in ListRecord
    <3>1. l.disturbed \/ \A g \in DOMAIN l.rows : RowShown(r[g])
      BY <1>2, <1>4, <2>1 DEF RowShown
    <3> QED  BY <1>2, <1>3, <1>4, <2>1, <3>1, NewRowsKeepGood DEF Good
  <2>4. n.waits = l.waits /\ n.cancelling = l.cancelling /\ n.jobs = l.jobs /\ n.queue = l.queue
    BY <1>2 DEF ListRecord
  <2> HIDE DEF n
  <2>5. /\ m \in ListRecord /\ m.event = "restart" /\ m.waits = n.waits
        /\ m.cancelling = n.cancelling
        /\ m.all = n.all /\ m.accepted = n.accepted /\ m.rows = n.rows
        /\ m.queue = n.queue /\ m.jobs = n.jobs
        /\ m.visibles = n.visibles /\ m.changed = n.changed
        /\ m.disturbed = n.disturbed /\ m.scan = n.scan
    BY <2>2, <2>3 DEF ListRecord
  <2>6. ScanOK(m)
    BY <2>3, <2>5 DEF Good, ScanOK
  <2>7. Good(m, d)
    BY <2>3, <2>5, <2>6, ControlKeepsGood
  <2>8. Good(DoneIfIdle(m), d) /\ DoneIfIdle(m) = [m EXCEPT !.loading = DoneIfIdle(m).loading]
    BY <2>5, <2>7, DoneIfIdleFacts
  <2> DEFINE x == DoneIfIdle(m)
  <2> HIDE DEF x
  <2>9. /\ x.waits = m.waits /\ x.cancelling = m.cancelling /\ x.jobs = m.jobs
        /\ x.queue = m.queue /\ x.event = m.event
    BY <2>5, <2>8 DEF ListRecord, x
  <2>10. Onward(l, x)
    BY <2>4, <2>5, <2>9 DEF Onward
  <2> QED  BY <2>4, <2>5, <2>8, <2>9, <2>10 DEF m, x
<1>6. /\ row \in ListRecord /\ row = [quiet EXCEPT !.rows = row.rows]
      /\ row.rows \in [DOMAIN l.rows -> Row]
      /\ \A g \in DOMAIN l.rows : row.rows[g].data = l.rows[g].data
      /\ l.disturbed \/ \A g \in DOMAIN l.rows : RowShown(row.rows[g])
  <2>1. CASE job.inView
    <3> DEFINE m == SetRow(quiet, f, job.pos, NoImage)
    <3>1. /\ m \in ListRecord /\ m = [quiet EXCEPT !.rows = m.rows]
          /\ m.rows \in [DOMAIN l.rows -> Row]
          /\ \A g \in DOMAIN l.rows :
                    /\ m.rows[g].data = l.rows[g].data
                    /\ m.rows[g].loaded = l.rows[g].loaded
                    /\ g # f => m.rows[g].shown = l.rows[g].shown
      <4>1. NoImage \in {NoImage} \union Versions
        OBVIOUS
      <4> QED  BY <1>2, <4>1, SetRowFacts
    <3>2. row = m
      BY <2>1
    <3> HIDE DEF m
    <3>3. \A g \in DOMAIN l.rows : l.disturbed \/ RowShown(m.rows[g])
      BY <1>2, <1>4, <2>1, <3>1 DEF RowShown
    <3> QED  BY <3>1, <3>2, <3>3
  <2>2. CASE ~job.inView
    <3>1. row = quiet /\ quiet = [quiet EXCEPT !.rows = quiet.rows]
      BY <1>2, <2>2 DEF ListRecord
    <3> HIDE DEF row
    <3> QED  BY <1>2, <1>4, <3>1
  <2> QED  BY <2>1, <2>2
<1> HIDE DEF row
<1>7. Good(row, d)
  <2> DEFINE R == row.rows
  <2>1. Good([quiet EXCEPT !.rows = R], d)
    <3> HIDE DEF R
    <3>1. /\ R \in [DOMAIN quiet.rows -> Row]
          /\ \A g \in DOMAIN quiet.rows : R[g].data = quiet.rows[g].data
          /\ quiet.disturbed \/ \A g \in DOMAIN quiet.rows : RowShown(R[g])
      BY <1>2, <1>6 DEF R
    <3> QED  BY <1>3, <3>1, NewRowsKeepGood
  <2> QED  BY <1>6, <2>1
<1>8. /\ row.event = "none" /\ row.waits = l.waits /\ row.all = l.all
      /\ row.accepted = l.accepted
      /\ row.cancelling = l.cancelling /\ row.queue = l.queue
  BY <1>2, <1>6 DEF ListRecord
<1> DEFINE c == CancelJobs(row)
<1>9. /\ Good(c, d) /\ c = [row EXCEPT !.loading = c.loading, !.jobs = c.jobs]
      /\ \A i \in 1..Len(c.jobs) : c.jobs[i].started /\ c.jobs[i].cancelled
  BY <1>7, <1>8, CancelJobsFacts
<1> HIDE DEF c
<1>10. c \in ListRecord
  BY <1>9 DEF Good
<1>11. /\ c.rows = row.rows /\ c.waits = l.waits /\ c.all = l.all /\ c.accepted = l.accepted
       /\ c.cancelling = l.cancelling /\ c.queue = l.queue
  BY <1>6, <1>8, <1>9 DEF ListRecord
<1>12. Visible(c) = Visible(l)
  BY <1>1, <1>11, VisibleFacts
<1> DEFINE J == <<job>> \o c.jobs
<1>13. /\ J \in Seq(Job) /\ J # <<>> /\ J[1] = job
       /\ \A i \in 1..Len(J) : i = 1 \/ (i - 1 \in 1..Len(c.jobs) /\ J[i] = c.jobs[i-1])
  <2>1. c.jobs \in Seq(Job) /\ Len(c.jobs) \in Nat
    BY <1>10, ListFields
  <2> DEFINE K == c.jobs
  <2> HIDE DEF K
  <2>2. K \in Seq(Job) /\ Len(K) \in Nat
    BY <2>1 DEF K
  <2>3. /\ <<job>> \o K \in Seq(Job) /\ Len(<<job>> \o K) = Len(K) + 1
        /\ \A i \in 1..Len(K) + 1 : (<<job>> \o K)[i] = IF i = 1 THEN job ELSE K[i-1]
    BY <2>2
  <2>4. J \in Seq(Job) /\ Len(J) = Len(K) + 1 /\ \A i \in 1..Len(K) + 1 : J[i] = IF i = 1 THEN job ELSE K[i-1]
    BY <2>3 DEF K
  <2> HIDE DEF J
  <2>5. 1 \in 1..Len(J) /\ J # <<>> /\ J[1] = job
    BY <2>2, <2>4
  <2>6. \A i \in 1..Len(J) : i = 1 \/ (i - 1 \in 1..Len(K) /\ J[i] = K[i-1])
    <3> TAKE i \in 1..Len(J)
    <3>1. i \in 1..Len(K) + 1
      BY <2>4
    <3>2. J[i] = IF i = 1 THEN job ELSE K[i-1]
      BY <3>1, <2>4
    <3>3. i = 1 \/ i - 1 \in 1..Len(K)
      BY <3>1, <2>2
    <3> QED  BY <3>2, <3>3
  <2> QED  BY <2>4, <2>5, <2>6 DEF K
<1>14. begun = [c EXCEPT !.jobs = J, !.event = "start"]
  BY DEF c
<1> HIDE DEF J, begun
<1>15. /\ begun \in ListRecord /\ begun.jobs = J /\ begun.event = "start"
       /\ begun.waits = c.waits /\ begun.cancelling = c.cancelling
       /\ begun.all = c.all /\ begun.accepted = c.accepted /\ begun.rows = c.rows
       /\ begun.queue = c.queue /\ begun.visibles = c.visibles /\ begun.changed = c.changed
       /\ begun.disturbed = c.disturbed /\ begun.scan = c.scan
  BY <1>10, <1>13, <1>14 DEF ListRecord
<1>16. Good(begun, d)
  <2>1. StartsNewest(begun) /\ ScanOK(begun)
    BY <1>9, <1>13, <1>15 DEF Good, StartsNewest, ScanOK
  <2>2. JobOK(job, d) /\ InTurn(c, job)
    BY <1>4, <1>6, <1>11, <1>12 DEF Good, NotNewer, JobOK, InTurn
  <2>3. \A i \in 1..Len(J) : JobOK(J[i], d) /\ (c.disturbed \/ InTurn(c, J[i]))
    BY <1>9, <1>13, <2>2 DEF Good, NotNewer, Undisturbed
  <2>4. \A i \in 2..Len(J) : J[i].started /\ J[i].cancelled
    <3>1. Len(J) \in Nat
      BY <1>13
    <3>2. ASSUME NEW i \in 2..Len(J)  PROVE i \in 1..Len(J) /\ i # 1
      BY <3>1
    <3> QED  BY <1>9, <1>13, <3>2
  <2> QED  BY <1>9, <1>15, <2>1, <2>3, <2>4, NewJobsKeepGood
<1>18. job.result # Cancelled => Onward(l, begun)
  <2>1. \A i \in 1..Len(J) : i = 1 \/ J[i].cancelled
    BY <1>9, <1>13
  <2> QED  BY <1>11, <1>13, <1>15, <2>1 DEF Onward
<1>17. ASSUME NEW m \in UpdateThumb(l, job)
       PROVE  m = begun \/ \E failed \in BOOLEAN : m = DoneIfIdle(cached(failed))
  BY <1>17 DEF UpdateThumb, begun, row, quiet
<1> HIDE DEF cached
<1> QED  BY <1>5, <1>11, <1>15, <1>16, <1>17, <1>18

-----------------------------------------------------------------------------
(* The thumbnailer *)

(* The smaller one of two numbers. *)
LEMMA MinOfTwo ==
    ASSUME NEW a \in Int, NEW b \in Int
    PROVE  Min({a, b}) \in {a, b}
<1>1. \E x \in {a, b} : \A y \in {a, b} : x <= y
  BY a <= b \/ b <= a
<1> QED  BY <1>1 DEF Min

LEMMA RefreshFacts ==
    ASSUME NEW d, NEW l, Good(l, d)
    PROVE  LET m == Refresh(l)
           IN  Good(m, d) /\ m.waits = l.waits /\ ~m.changed /\ SameControl(l, m)
<1> DEFINE m == Refresh(l)
<1>1. l \in ListRecord /\ Visible(l) \in Seq(Files)
  BY VisibleFacts DEF Good
<1>2. CASE l.changed
  <2>1. Initialize \in Scan /\ Initialize.phase # "scan"
    BY DEF Initialize, Scan
  <2>2. m = [l EXCEPT !.visibles = Visible(l), !.changed = FALSE, !.scan = Initialize]
    BY <1>2 DEF Refresh
  <2> HIDE DEF m
  <2>3. /\ m \in ListRecord /\ m.waits = l.waits /\ m.changed = FALSE
        /\ m.all = l.all /\ m.accepted = l.accepted /\ m.rows = l.rows
        /\ m.queue = l.queue /\ m.jobs = l.jobs /\ m.visibles = Visible(l)
        /\ m.disturbed = l.disturbed /\ m.event = l.event /\ m.scan = Initialize
        /\ m.cancelling = l.cancelling /\ m.loading = l.loading /\ m.timer = l.timer
    BY <1>1, <2>1, <2>2 DEF ListRecord
  <2>4. Visible(m) = Visible(l)
    BY <1>1, <2>3, VisibleFacts
  <2>5. Paired(m) /\ NotNewer(m, d) /\ StartsNewest(m) /\ Older(m) /\ ScanOK(m) /\ Current(m)
    BY <2>1, <2>3, <2>4 DEF Good, Paired, NotNewer, StartsNewest, Older, ScanOK, Current
  <2>6. Undisturbed(m)
    BY <2>3, <2>4 DEF Good, Undisturbed, InTurn
  <2> QED  BY <2>3, <2>5, <2>6 DEF Good, SameControl, m
<1>3. CASE ~l.changed
  BY <1>3 DEF Refresh, SameControl
<1> QED  BY <1>2, <1>3

LEMMA BeginScanFacts ==
    ASSUME NEW d, NEW l, Good(l, d), scroll \in Nat
    PROVE  LET m == BeginScan(l)
           IN  /\ Good(m, d) /\ m.waits = l.waits /\ m.changed = l.changed
               /\ m.scan.phase # "initialize" /\ SameControl(l, m)
<1> DEFINE m == BeginScan(l)
<1>1. l \in ListRecord /\ Len(Visible(l)) \in Nat
  BY VisibleFacts DEF Good
<1>2. FirstOnScreen(l) \in Int /\ LastOnScreen(l) \in Int
  <2>1. FirstOnScreen(l) \in Int
    BY <1>1, MinOfTwo DEF FirstOnScreen
  <2>2. FirstOnScreen(l) + Screen - 1 \in Int
    BY <2>1, ListAssumption
  <2>3. LastOnScreen(l) \in {FirstOnScreen(l) + Screen - 1, Len(Visible(l))}
    BY <1>1, <2>2, MinOfTwo DEF LastOnScreen
  <2> QED  BY <1>1, <2>1, <2>2, <2>3
<1>3. ASSUME NEW scan \in Scan, NEW skipped \in SUBSET Files, scan.phase = "scan" => scan.at >= 1,
             scan.phase # "initialize", m = [l EXCEPT !.scan = scan, !.skipped = skipped]
      PROVE  Good(m, d) /\ m.waits = l.waits /\ m.changed = l.changed
             /\ m.scan.phase # "initialize" /\ SameControl(l, m)
  <2> HIDE DEF m
  <2>1. /\ m \in ListRecord /\ m.waits = l.waits /\ m.changed = l.changed
        /\ m.all = l.all /\ m.accepted = l.accepted /\ m.rows = l.rows
        /\ m.queue = l.queue /\ m.jobs = l.jobs /\ m.visibles = l.visibles
        /\ m.disturbed = l.disturbed /\ m.event = l.event /\ m.scan = scan
        /\ m.cancelling = l.cancelling /\ m.loading = l.loading /\ m.timer = l.timer
    BY <1>1, <1>3 DEF ListRecord
  <2>2. ScanOK(m)
    BY <1>3, <2>1 DEF ScanOK
  <2>3. Good(m, d)
    BY <2>1, <2>2, ControlKeepsGood
  <2> QED  BY <1>3, <2>1, <2>3 DEF SameControl
<1>4. CASE l.scan.phase # "initialize"
  BY <1>4 DEF BeginScan, SameControl
<1>5. CASE l.scan.phase = "initialize" /\ FirstOnScreen(l) \notin DOMAIN l.visibles
  <2>1. /\ Completed \in Scan /\ Completed.phase = "completed"
        /\ l.skipped \in SUBSET Files
    BY <1>1, ListFields DEF Completed, Initialize, Scan
  <2>2. m = [l EXCEPT !.scan = Completed]
    BY <1>5 DEF BeginScan
  <2> HIDE DEF m
  <2>3. m = [l EXCEPT !.scan = Completed, !.skipped = l.skipped]
    BY <1>1, <2>2 DEF ListRecord
  <2> QED  BY <1>3, <2>1, <2>3 DEF m
<1>6. CASE l.scan.phase = "initialize" /\ FirstOnScreen(l) \in DOMAIN l.visibles
  <2> DEFINE scan == [phase |-> "scan", first |-> FirstOnScreen(l),
                      last |-> LastOnScreen(l), at |-> 1]
  <2>1. scan \in Scan /\ scan.phase = "scan" /\ scan.at = 1
    BY <1>2 DEF Scan
  <2>2. m = [l EXCEPT !.scan = scan, !.skipped = {}]
    BY <1>6 DEF BeginScan
  <2> HIDE DEF scan
  <2>3. {} \in SUBSET Files /\ scan.phase # "initialize" /\ scan.at >= 1
    BY <2>1
  <2> HIDE DEF m
  <2> QED  BY <1>3, <2>1, <2>2, <2>3 DEF m
<1> QED  BY <1>4, <1>5, <1>6

LEMMA CompleteFacts ==
    ASSUME NEW d, NEW l, Good(l, d), NEW skipped \in SUBSET Files
    PROVE  LET m == Complete(l, skipped)
           IN  Good(m, d) /\ m.waits = l.waits /\ Onward(l, m)
<1> DEFINE m == Complete(l, skipped)
<1>1. l \in ListRecord /\ Completed \in Scan /\ Completed.phase = "completed"
  BY DEF Good, Completed, Initialize, Scan
<1>2. m = [l EXCEPT !.scan = Completed, !.loading = FALSE, !.skipped = @ \union skipped,
                    !.timer = @ \/ skipped # {}]
  BY DEF Complete
<1> HIDE DEF m
<1>3. /\ m \in ListRecord /\ m.waits = l.waits /\ m.changed = l.changed
      /\ m.all = l.all /\ m.accepted = l.accepted /\ m.rows = l.rows
      /\ m.queue = l.queue /\ m.jobs = l.jobs /\ m.visibles = l.visibles
      /\ m.disturbed = l.disturbed /\ m.event = l.event /\ m.scan = Completed
      /\ m.cancelling = l.cancelling /\ m.loading = FALSE
  BY <1>1, <1>2 DEF ListRecord
<1>4. ScanOK(m)
  BY <1>1, <1>3 DEF ScanOK
<1>5. Good(m, d)
  BY <1>3, <1>4, ControlKeepsGood
<1>6. Onward(l, m)
  BY <1>3 DEF Onward
<1> QED  BY <1>3, <1>5, <1>6 DEF m

(* A step of the scan comes to one thumbnail at most. *)
LEMMA StopsAtFacts ==
    ASSUME NEW d, NEW l, Good(l, d), l.scan.phase = "scan", NEW i \in StopsAt(l)
    PROVE  /\ i \in Nat /\ i >= 1 /\ i <= Len(l.visibles)
           /\ \A k \in StopsAt(l) : k = i
<1>1. l \in ListRecord
  BY DEF Good
<1>2. l.scan.at \in Nat /\ l.scan.at >= 1 /\ Len(l.visibles) \in Nat
  BY <1>1, ListFields DEF Good, ScanOK, Scan
<1>3. ASSUME NEW a \in StopsAt(l)
      PROVE  /\ a \in Nat /\ l.scan.at <= a /\ a <= Len(l.visibles)
             /\ ~Listed(l, a) \/ ToLoad(l, a)
             /\ \A k \in l.scan.at..(a - 1) : Listed(l, k) /\ ~ToLoad(l, k)
  BY <1>2 DEF StopsAt
<1>4. ASSUME NEW a \in StopsAt(l), NEW b \in StopsAt(l)  PROVE ~ (a < b)
  <2> SUFFICES ASSUME a < b  PROVE FALSE
    OBVIOUS
  <2>1. a \in l.scan.at..(b - 1)
    BY <1>2, <1>3
  <2> QED  BY <1>3, <2>1
<1>5. \A k \in StopsAt(l) : k = i
  BY <1>3, <1>4
<1> QED  BY <1>2, <1>3, <1>5

(* _gth_file_list_thumbnailer_iterate and what is done with the thumbnail it finds. *)
LEMMA FindNextThumbFacts ==
    ASSUME NEW d, NEW l, Good(l, d), ~l.changed, l.scan.phase # "initialize"
    PROVE  \A m \in FindNextThumb(l) : Good(m, d) /\ m.waits = l.waits /\ Onward(l, m)
<1>1. /\ l \in ListRecord /\ l.scan \in Scan /\ l.visibles \in Seq(Files)
      /\ l.rows \in RowMaps /\ DOMAIN l.rows \in SUBSET Files
      /\ l.skipped \in SUBSET Files
  BY ListFields, RowMapFacts DEF Good
<1>2. PassedOver(l) \in SUBSET Files
  BY <1>1 DEF PassedOver, TooYoung, Listed
<1>3. {} \in SUBSET Files
  OBVIOUS
<1>4. CASE l.scan.phase = "completed" \/ ~ \E i \in StopsAt(l) : Listed(l, i)
  BY <1>2, <1>3, <1>4, CompleteFacts DEF FindNextThumb
<1>5. CASE l.scan.phase # "completed" /\ \E i \in StopsAt(l) : Listed(l, i)
  <2>1. l.scan.phase = "scan"
    BY <1>1, <1>5 DEF Scan
  <2>2. PICK i \in StopsAt(l) : Listed(l, i)
    BY <1>5
  <2>3. /\ i \in Nat /\ i >= 1 /\ i <= Len(l.visibles)
        /\ \A k \in StopsAt(l) : k = i
    BY <2>1, StopsAtFacts
  <2>4. ToLoad(l, i)
    BY <2>2 DEF StopsAt
  <2> DEFINE pos == ScanPos(l, i)
             job == NewJob(l, i)
             n == [l EXCEPT !.scan.at = i, !.skipped = @ \union PassedOver(l)]
  <2>5. /\ n \in ListRecord /\ n.waits = l.waits /\ n.changed = l.changed
        /\ n.all = l.all /\ n.accepted = l.accepted /\ n.rows = l.rows
        /\ n.queue = l.queue /\ n.jobs = l.jobs /\ n.visibles = l.visibles
        /\ n.disturbed = l.disturbed /\ n.event = l.event
        /\ n.cancelling = l.cancelling
        /\ n.scan = [l.scan EXCEPT !.at = i]
    <3>1. [l.scan EXCEPT !.at = i] \in Scan
      BY <1>1, <2>3 DEF Scan
    <3> QED  BY <1>1, <1>2, <3>1 DEF ListRecord
  <2> HIDE DEF n
  <2>6. ScanOK(n)
    BY <1>1, <2>3, <2>5 DEF ScanOK, Scan
  <2>7. Good(n, d)
    BY <2>5, <2>6, ControlKeepsGood
  <2>8. pos \in Int /\ pos <= Len(l.visibles)
    BY <1>1, <2>3 DEF ScanPos, Scan
  <2>9. l.visibles[pos] \in DOMAIN l.rows /\ l.visibles[pos] \in Files
    BY <1>1, <2>2 DEF Listed
  <2>10. l.visibles = Visible(l)
    BY <2>9 DEF Good, Current
  <2>11. /\ job.file = l.visibles[pos] /\ job.pos = pos /\ job.inView = IsInView(l.scan, pos)
         /\ job.data = l.rows[l.visibles[pos]].data /\ ~job.started /\ ~job.cancelled
         /\ job.stage = "none" /\ job.result # Cancelled
    BY DEF NewJob, NoImage, Cancelled
  <2>12. job \in Job
    <3>1. l.rows[l.visibles[pos]].data \in Versions
      BY <1>1, <2>9, RowMapFacts DEF Row
    <3>2. IsInView(l.scan, pos) \in BOOLEAN
      BY DEF IsInView
    <3> HIDE DEF pos
    <3> QED  BY <2>8, <2>9, <3>1, <3>2 DEF NewJob, Job, Stages, Results, pos
  <2>13. job.inView => job.pos <= Len(Visible(n)) /\ ~n.rows[job.file].loaded
    <3>1. Visible(n) = l.visibles
      BY <1>1, <2>5, <2>10, VisibleFacts
    <3>2. Lacks(l, pos)
      BY <2>4 DEF ToLoad
    <3> QED  BY <2>5, <2>8, <2>11, <3>1, <3>2 DEF Lacks
  <2> HIDE DEF job
  <2>14. \A m \in UpdateThumb(n, job) : Good(m, d) /\ m.waits = n.waits /\ Onward(n, m)
    BY <2>5, <2>7, <2>9, <2>11, <2>12, <2>13, UpdateThumbFacts
  <2>15. \A m \in FindNextThumb(l) : m \in UpdateThumb(n, job)
    <3>1. FindNextThumb(l) = UNION {UpdateThumb([l EXCEPT !.scan.at = k, !.skipped = @ \union PassedOver(l)],
                            NewJob(l, k)) : k \in StopsAt(l)}
      BY <1>5 DEF FindNextThumb
    <3> QED  BY <2>3, <3>1 DEF n, job
  <2>16. \A m : Onward(n, m) => Onward(l, m)
    BY <2>5 DEF Onward
  <2> QED  BY <2>5, <2>14, <2>15, <2>16
<1> QED  BY <1>4, <1>5

(* _gth_file_list_update_next_thumb: unless it was cancelled, the list is not stranded. *)
LEMMA UpdateNextThumbFacts ==
    ASSUME NEW d, NEW l, Good(l, d), scroll \in Nat
    PROVE  \A m \in UpdateNextThumb(l) :
               /\ Good(m, d) /\ m.waits = l.waits
               /\ ~l.cancelling => Onward(l, m) /\ ~Asleep(m)
<1>1. l \in ListRecord
  BY DEF Good
<1>2. CASE l.queue # <<>>
  <2> DEFINE m == [l EXCEPT !.event = "stopped"]
  <2>1. /\ m \in ListRecord /\ m.waits = l.waits /\ m.changed = l.changed
        /\ m.all = l.all /\ m.accepted = l.accepted /\ m.rows = l.rows
        /\ m.queue = l.queue /\ m.jobs = l.jobs /\ m.visibles = l.visibles
        /\ m.disturbed = l.disturbed /\ m.event = "stopped" /\ m.scan = l.scan
        /\ m.cancelling = l.cancelling
    BY <1>1 DEF ListRecord
  <2>2. UpdateNextThumb(l) = {m}
    BY <1>2 DEF UpdateNextThumb
  <2> HIDE DEF m
  <2>3. ScanOK(m)
    BY <2>1 DEF Good, ScanOK
  <2>4. Good(m, d)
    BY <2>1, <2>3, ControlKeepsGood
  <2>5. Onward(l, m) /\ ~Asleep(m)
    BY <2>1 DEF Onward, Asleep
  <2> QED  BY <2>1, <2>2, <2>4, <2>5
<1>3. CASE l.queue = <<>> /\ l.cancelling
  BY <1>3 DEF UpdateNextThumb
<1>4. CASE l.queue = <<>> /\ ~l.cancelling
  <2> DEFINE r == Refresh(l)
             b == BeginScan(r)
  <2>1. Good(r, d) /\ r.waits = l.waits /\ ~r.changed /\ SameControl(l, r)
    BY RefreshFacts
  <2> HIDE DEF r
  <2>2. /\ Good(b, d) /\ b.waits = l.waits /\ ~b.changed /\ b.scan.phase # "initialize"
        /\ SameControl(r, b)
    BY <2>1, BeginScanFacts
  <2> HIDE DEF b
  <2>3. UpdateNextThumb(l) = FindNextThumb(b)
    BY <1>4 DEF UpdateNextThumb, b, r
  <2>4. \A m : Onward(b, m) => Onward(l, m) /\ ~Asleep(m)
    <3>1. b.queue = <<>> /\ \A m : Onward(b, m) => Onward(l, m)
      BY <1>4, <2>1, <2>2 DEF SameControl, Onward
    <3>2. \A m : Onward(b, m) => ~Asleep(m)
      BY <3>1 DEF Onward, Asleep
    <3> QED  BY <3>1, <3>2
  <2> QED  BY <2>2, <2>3, <2>4, FindNextThumbFacts
<1> QED  BY <1>2, <1>3, <1>4

(* start_update_next_thumb *)
LEMMA StartUpdateNextThumbFacts ==
    ASSUME NEW l \in ListRecord
    PROVE  LET m == StartUpdateNextThumb(l)
           IN  /\ m \in ListRecord /\ m = [l EXCEPT !.timer = m.timer]
               /\ \A d : Good(l, d) => Good(m, d)
<1> DEFINE m == StartUpdateNextThumb(l)
<1>1. m \in ListRecord /\ m = [l EXCEPT !.timer = m.timer]
  <2>1. CASE l.cancelling \/ l.loading
    BY <2>1 DEF StartUpdateNextThumb, ListRecord
  <2>2. CASE ~ (l.cancelling \/ l.loading)
    BY <2>2 DEF StartUpdateNextThumb, ListRecord
  <2> QED  BY <2>1, <2>2
<1> HIDE DEF m
<1>2. /\ m.all = l.all /\ m.accepted = l.accepted /\ m.rows = l.rows /\ m.queue = l.queue
      /\ m.jobs = l.jobs /\ m.visibles = l.visibles /\ m.changed = l.changed
      /\ m.disturbed = l.disturbed /\ m.event = l.event /\ m.scan = l.scan
  BY <1>1 DEF ListRecord
<1>3. ASSUME NEW d, Good(l, d)  PROVE Good(m, d)
  <2>1. ScanOK(m)
    BY <1>2, <1>3 DEF Good, ScanOK
  <2> QED  BY <1>1, <1>2, <1>3, <2>1, ControlKeepsGood
<1> QED  BY <1>1, <1>3 DEF m

-----------------------------------------------------------------------------
(* The answer of a job *)

LEMMA DisturbedKeepsGood ==
    ASSUME NEW d, NEW l, Good(l, d), NEW x \in BOOLEAN, l.disturbed => x
    PROVE  Good([l EXCEPT !.disturbed = x], d)
<1> DEFINE m == [l EXCEPT !.disturbed = x]
<1>1. l \in ListRecord
  BY DEF Good
<1>2. /\ m \in ListRecord
      /\ m.all = l.all /\ m.accepted = l.accepted /\ m.rows = l.rows /\ m.queue = l.queue
      /\ m.jobs = l.jobs /\ m.visibles = l.visibles /\ m.changed = l.changed
      /\ m.disturbed = x /\ m.event = l.event /\ m.scan = l.scan
  BY <1>1 DEF ListRecord
<1> HIDE DEF m
<1>3. Visible(m) = Visible(l)
  BY <1>1, <1>2, VisibleFacts
<1>4. /\ Paired(m) /\ NotNewer(m, d) /\ StartsNewest(m) /\ Older(m) /\ ScanOK(m)
      /\ Current(m)
  BY <1>2, <1>3 DEF Good, Paired, NotNewer, StartsNewest, Older, ScanOK, Current
<1>5. Undisturbed(m)
  BY <1>2, <1>3 DEF Good, Undisturbed, InTurn
<1>6. Good(m, d)
  BY <1>2, <1>4, <1>5 DEF Good
<1> QED  BY <1>6 DEF m

(* What thumbnail_job_ready_cb notes in the row of the file: the data and what the row
   shows are left. *)
NoteFailed(q, f) ==
    [q EXCEPT !.rows[f].error = TRUE, !.rows[f].loaded = FALSE, !.rows[f].created = FALSE]
NoteMade(q, f, inView) ==
    [q EXCEPT !.rows[f].error = FALSE, !.rows[f].created = TRUE, !.rows[f].loaded = @ \/ inView]

LEMMA NoteFailedFacts ==
    ASSUME NEW q \in ListRecord, NEW f \in DOMAIN q.rows, q.rows[f] \in Row
    PROVE  \E u \in Row : /\ u.data = q.rows[f].data /\ u.shown = q.rows[f].shown /\ ~u.loaded
                          /\ NoteFailed(q, f) = [q EXCEPT !.rows = [q.rows EXCEPT ![f] = u]]
<1> DEFINE u == [q.rows[f] EXCEPT !.error = TRUE, !.loaded = FALSE, !.created = FALSE]
<1>1. u \in Row /\ u.data = q.rows[f].data /\ u.shown = q.rows[f].shown /\ ~u.loaded
  BY DEF Row
<1>2. NoteFailed(q, f) = [q EXCEPT !.rows = [q.rows EXCEPT ![f] = u]]
  BY DEF ListRecord, NoteFailed
<1> HIDE DEF u
<1> QED  BY <1>1, <1>2

(* thumbnail_job_ready_cb: an answer in its turn is an image of the data of the row. *)
LEMMA AnsweredFacts ==
    ASSUME NEW d, NEW l, Good(l, d), NEW i \in 1..Len(l.jobs),
           l.jobs[i].stage = "answer", l.jobs[i].result # Cancelled
    PROVE  LET m == Answered(l, l.jobs[i])
           IN  Good(m, d) /\ m.waits = l.waits /\ m.jobs = l.jobs
<1> DEFINE job == l.jobs[i]
           f == job.file
           image == IF job.result = Failed THEN NoImage ELSE job.result
           row == IF job.inView THEN SetRow(l, f, job.pos, image) ELSE l
           x == l.disturbed \/ job.cancelled \/ l.rows[f].error
           n == [l EXCEPT !.disturbed = x]
           m == Answered(l, job)
<1>1. /\ l \in ListRecord /\ job \in Job /\ JobOK(job, d)
      /\ l.rows \in RowMaps /\ l.rows \in [DOMAIN l.rows -> Row] /\ DOMAIN l.rows \in SUBSET Files
  BY ListFields, RowMapFacts DEF Good, NotNewer
<1> DEFINE told == [row EXCEPT !.disturbed = @ \/ job.cancelled \/ l.rows[f].error]
<1>t. m = IF f \notin DOMAIN l.rows THEN l
          ELSE IF job.result = Failed THEN NoteFailed(told, f) ELSE NoteMade(told, f, job.inView)
  BY DEF Answered, NoteFailed, NoteMade
<1> HIDE DEF m
<1>2. CASE f \notin DOMAIN l.rows
  BY <1>2, <1>t DEF m
<1>3. CASE f \in DOMAIN l.rows
  <2>1. /\ image \in {NoImage} \union Versions
        /\ job.result # Failed => image \in Versions /\ image = job.result /\ job.data <= image
    BY <1>1 DEF Job, JobOK, Results, Failed
  <2>2. /\ row \in ListRecord /\ row = [l EXCEPT !.rows = row.rows]
        /\ row.rows \in [DOMAIN l.rows -> Row]
        /\ \A g \in DOMAIN l.rows :
             /\ row.rows[g].data = l.rows[g].data
             /\ row.rows[g].loaded = l.rows[g].loaded
             /\ g # f \/ ~job.inView => row.rows[g].shown = l.rows[g].shown
        /\ job.inView /\ job.pos <= Len(Visible(l)) => row.rows[f].shown = image
    <3>1. CASE job.inView
      <4> HIDE DEF image
      <4>1. row = SetRow(l, f, job.pos, image)
        BY <3>1
      <4> HIDE DEF row
      <4> DEFINE place == job.pos
      <4>2. image \in {NoImage} \union Versions /\ l \in ListRecord
        BY <1>1, <2>1
      <4>3. row = SetRow(l, f, place, image)
        BY <4>1
      <4> HIDE DEF f, place
      <4>4. LET w == SetRow(l, f, place, image)
            IN  /\ w \in ListRecord /\ w = [l EXCEPT !.rows = w.rows]
                /\ w.rows \in [DOMAIN l.rows -> Row]
                /\ \A g \in DOMAIN l.rows :
                     /\ w.rows[g].data = l.rows[g].data
                     /\ w.rows[g].loaded = l.rows[g].loaded
                     /\ g # f => w.rows[g].shown = l.rows[g].shown
                /\ place <= Len(Visible(l)) /\ f \in DOMAIN l.rows => w.rows[f].shown = image
        BY <4>2, SetRowFacts
      <4> HIDE DEF job
      <4> QED  BY <1>3, <3>1, <4>3, <4>4, SMTT(30) DEF place
    <3>2. CASE ~job.inView
      <4>1. row = l /\ l = [l EXCEPT !.rows = l.rows]
        BY <1>1, <3>2 DEF ListRecord
      <4> HIDE DEF row
      <4> QED  BY <1>1, <3>2, <4>1
    <3> QED  BY <3>1, <3>2
  <2> HIDE DEF row, image
  <2>3. x \in BOOLEAN /\ (l.disturbed => x) /\ n \in ListRecord
        /\ n.rows = l.rows /\ n.disturbed = x /\ n.waits = l.waits /\ n.jobs = l.jobs
    BY <1>1, <1>3 DEF ListRecord, Job, Row
  <2> HIDE DEF x
  <2>4. Good(n, d)
    BY <2>3, DisturbedKeepsGood
  <2>5. ~x => /\ \A g \in DOMAIN l.rows : RowShown(l.rows[g])
              /\ l.rows[f].data = job.data /\ (job.inView => job.pos <= Len(Visible(l)))
    BY <1>3 DEF Good, Undisturbed, InTurn, x
  <2>6. ASSUME NEW R, R \in [DOMAIN l.rows -> Row],
               \A g \in DOMAIN l.rows : R[g].data = row.rows[g].data,
               \A g \in DOMAIN l.rows : R[g].shown = row.rows[g].shown,
               \A g \in DOMAIN l.rows : g # f => R[g].loaded = row.rows[g].loaded,
               R[f].loaded => job.result # Failed /\ (row.rows[f].loaded \/ job.inView),
               m = [n EXCEPT !.rows = R]
        PROVE  Good(m, d) /\ m.waits = l.waits /\ m.jobs = l.jobs
    <3>1. ASSUME ~x, NEW g \in DOMAIN l.rows  PROVE RowShown(R[g])
      <4>1. CASE g # f
        BY <2>2, <2>5, <2>6, <3>1, <4>1 DEF RowShown
      <4>2. CASE g = f /\ job.inView
        BY <1>3, <2>1, <2>2, <2>5, <2>6, <3>1, <4>2 DEF RowShown
      <4>3. CASE g = f /\ ~job.inView
        BY <1>3, <2>2, <2>5, <2>6, <3>1, <4>3 DEF RowShown
      <4> QED  BY <4>1, <4>2, <4>3
    <3> HIDE DEF n, m
    <3>2. \A g \in DOMAIN n.rows : R[g].data = n.rows[g].data
      BY <2>2, <2>3, <2>6
    <3>3. Good([n EXCEPT !.rows = R], d)
      BY <2>3, <2>4, <2>6, <3>1, <3>2, NewRowsKeepGood
    <3>4. m.waits = n.waits /\ m.jobs = n.jobs
      BY <2>3, <2>6 DEF ListRecord
    <3> QED  BY <2>3, <2>6, <3>3, <3>4
  <2> DEFINE q == [row EXCEPT !.disturbed = x]
  <2>7. /\ q = [n EXCEPT !.rows = row.rows] /\ q.rows = row.rows
        /\ told = q
    <3>1. row.disturbed = l.disturbed
      BY <1>1, <2>2 DEF ListRecord
    <3>2. q = [n EXCEPT !.rows = row.rows]
      BY <1>1, <2>2 DEF ListRecord
    <3>3. q.rows = row.rows
      BY <2>2 DEF ListRecord
    <3>4. told = q
      BY <2>2, <3>1 DEF x, ListRecord
    <3> QED  BY <3>2, <3>3, <3>4
  <2> HIDE DEF q, told
  <2>r. q \in ListRecord /\ f \in DOMAIN q.rows
    BY <1>1, <1>3, <2>2, <2>3, <2>7, RowMapIntro DEF ListRecord
  <2> HIDE DEF n, f, job
  <2>8. ASSUME NEW u \in Row, u.data = q.rows[f].data, u.shown = q.rows[f].shown,
               u.loaded => job.result # Failed /\ (q.rows[f].loaded \/ job.inView),
               m = [q EXCEPT !.rows = [q.rows EXCEPT ![f] = u]]
        PROVE  Good(m, d) /\ m.waits = l.waits /\ m.jobs = l.jobs
    <3> DEFINE R == [row.rows EXCEPT ![f] = u]
    <3>1. m = [q EXCEPT !.rows = R]
      BY <2>7, <2>8
    <3>2. m = [n EXCEPT !.rows = R]
      <4> HIDE DEF R
      <4> QED  BY <2>3, <2>7, <3>1 DEF ListRecord
    <3>3. /\ R \in [DOMAIN l.rows -> Row]
          /\ \A g \in DOMAIN l.rows : R[g].data = row.rows[g].data
          /\ \A g \in DOMAIN l.rows : R[g].shown = row.rows[g].shown
          /\ \A g \in DOMAIN l.rows : g # f => R[g].loaded = row.rows[g].loaded
      BY <1>3, <2>2, <2>7, <2>8
    <3>4. R[f] = u
      BY <1>3, <2>2
    <3> HIDE DEF R
    <3> QED  BY <2>6, <2>7, <2>8, <3>2, <3>3, <3>4
  <2>s. q.rows[f] \in Row /\ job.inView \in BOOLEAN
    BY <1>1, <1>3, <2>2, <2>7 DEF Job
  <2>9. CASE job.result = Failed
    <3>1. m = NoteFailed(q, f)
      BY <1>3, <1>t, <2>7, <2>9
    <3>2. PICK u \in Row : /\ u.data = q.rows[f].data /\ u.shown = q.rows[f].shown /\ ~u.loaded
                           /\ m = [q EXCEPT !.rows = [q.rows EXCEPT ![f] = u]]
      BY <2>r, <2>s, <3>1, NoteFailedFacts
    <3> QED  BY <2>8, <3>2 DEF m, job
  <2>10. CASE job.result # Failed
    <3>1. m = NoteMade(q, f, job.inView)
      BY <1>3, <1>t, <2>7, <2>10
    <3>2. PICK u \in Row : /\ u.data = q.rows[f].data /\ u.shown = q.rows[f].shown
                           /\ u.loaded => q.rows[f].loaded \/ job.inView
                           /\ m = [q EXCEPT !.rows = [q.rows EXCEPT ![f] = u]]
      <4> DEFINE r == q.rows[f]
                 u == [r EXCEPT !.error = FALSE, !.created = TRUE, !.loaded = @ \/ job.inView]
      <4>r. r \in Row /\ (r.loaded \/ job.inView) \in BOOLEAN
        BY <2>s
      <4> HIDE DEF r
      <4>1. u \in Row
        BY <4>r DEF Row
      <4>2. u.data = r.data /\ u.shown = r.shown /\ (u.loaded => r.loaded \/ job.inView)
        BY <4>r DEF Row
      <4> USE DEF r
      <4>3. u.data = q.rows[f].data /\ u.shown = q.rows[f].shown
            /\ (u.loaded => q.rows[f].loaded \/ job.inView)
        BY <4>2
      <4>4. m = [q EXCEPT !.rows = [q.rows EXCEPT ![f] = u]]
        BY <2>r, <3>1 DEF ListRecord, NoteMade
      <4> HIDE DEF u
      <4> QED  BY <4>1, <4>3, <4>4
    <3> QED  BY <2>8, <2>10, <3>2 DEF m, job
  <2> QED  BY <2>9, <2>10
<1> QED  BY <1>2, <1>3

-----------------------------------------------------------------------------
(* Operations: the list is disturbed, or there is no job. *)

Ready(l) == l.jobs = <<>> \/ l.disturbed

\* what an operation leaves, of the list l: the invariant, the other operations, the jobs
Executed(l, m, d) ==
    Good(m, d) /\ Ready(m) /\ m.queue = l.queue /\ m.jobs = l.jobs /\ m.waits = l.waits

LEMMA OperationKeepsGood ==
    ASSUME NEW d, NEW l, Good(l, d), Ready(l), NEW m \in ListRecord,
           m.queue = l.queue, m.jobs = l.jobs, m.event = l.event, m.waits = l.waits,
           l.disturbed => m.disturbed, ScanOK(m), Paired(m), Current(m),
           \A f \in DOMAIN m.rows : m.rows[f].data <= d[f],
           \A f \in DOMAIN m.rows : m.disturbed \/ RowShown(m.rows[f])
    PROVE  Executed(l, m, d)
<1>1. Ready(m)
  BY DEF Ready
<1>2. NotNewer(m, d) /\ StartsNewest(m) /\ Older(m)
  BY DEF Good, NotNewer, StartsNewest, Older
<1>3. Undisturbed(m)
  <2> SUFFICES ASSUME ~m.disturbed  PROVE \A i \in 1..Len(m.jobs) : InTurn(m, m.jobs[i])
    BY DEF Undisturbed
  <2>1. m.jobs = <<>>
    BY DEF Ready
  <2> QED  BY <2>1
<1> QED  BY <1>1, <1>2, <1>3 DEF Executed, Good

(* The facts of a list that the operations use. *)
LEMMA GoodFacts ==
    ASSUME NEW d, NEW l, Good(l, d)
    PROVE  /\ l \in ListRecord /\ l.all \in Seq(Files) /\ Range(l.all) = DOMAIN l.rows
           /\ IsInjective(l.all)
           /\ DOMAIN l.rows \in SUBSET Files /\ l.rows \in [DOMAIN l.rows -> Row]
           /\ \A f \in DOMAIN l.rows : l.rows[f].data <= d[f]
           /\ l.disturbed \/ \A f \in DOMAIN l.rows : RowShown(l.rows[f])
BY ListFields, RowMapFacts DEF Good, Paired, NotNewer, Undisturbed

LEMMA OperationFacts ==
    ASSUME NEW op \in Operation
    PROVE  /\ op.kind \in Kinds /\ op.files \in Seq(Files) /\ op.data \in VersionMaps
           /\ \A f \in DOMAIN op.data : op.data[f] \in Versions
           /\ Range(op.files) \in SUBSET Files
<1>1. op.kind \in Kinds /\ op.files \in Seq(Files) /\ op.data \in VersionMaps
  BY DEF Operation
<1>2. \A v \in VersionMaps : \A f \in DOMAIN v : v[f] \in Versions
  BY DEF VersionMaps
<1> QED  BY <1>1, <1>2, PlacesOf

(* A new row, and one of which the data are set, are not loaded. *)
LEMMA NewRowFacts ==
    ASSUME NEW v \in Versions
    PROVE  /\ NewRow(v) \in Row /\ NewRow(v).data = v /\ ~NewRow(v).loaded
           /\ \A w \in Row : /\ SetFileData(w, v) \in Row /\ SetFileData(w, v).data = v
                             /\ ~SetFileData(w, v).loaded
<1>1. NewRow(v) \in Row /\ NewRow(v).data = v /\ ~NewRow(v).loaded
  BY DEF NewRow, Row
<1>2. \A w \in Row : w.shown \in {NoImage} \union Versions
  BY DEF Row
<1>3. \A x \in {NoImage} \union Versions :
          LET u == [NewRow(v) EXCEPT !.shown = x] IN u \in Row /\ u.data = v /\ ~u.loaded
  BY DEF NewRow, Row
<1> QED  BY <1>1, <1>2, <1>3 DEF SetFileData

(* gfl_add_files: only files that are not listed come, and each of them once. *)
LEMMA AddFilesFacts ==
    ASSUME NEW d, NEW l, Good(l, d), Ready(l), NEW op \in Operation, OperationOK(op, d)
    PROVE  Executed(l, AddFiles(l, op), d)
<1> DEFINE new == Keep(op.files, Files \ DOMAIN l.rows)
           D == DOMAIN l.rows \union Range(new)
           r == [f \in D |-> IF f \in Range(new) THEN NewRow(op.data[f]) ELSE l.rows[f]]
           all == l.all \o Reverse(new)
           m == AddFiles(l, op)
<1>1. /\ l \in ListRecord /\ l.all \in Seq(Files) /\ Range(l.all) = DOMAIN l.rows
      /\ IsInjective(l.all)
      /\ DOMAIN l.rows \in SUBSET Files /\ l.rows \in [DOMAIN l.rows -> Row]
      /\ \A f \in DOMAIN l.rows : l.rows[f].data <= d[f]
      /\ l.disturbed \/ \A f \in DOMAIN l.rows : RowShown(l.rows[f])
  BY GoodFacts
<1>2. /\ op.files \in Seq(Files) /\ IsInjective(op.files) /\ DOMAIN op.data = Range(op.files)
      /\ \A f \in DOMAIN op.data : op.data[f] \in Versions /\ op.data[f] <= d[f]
      /\ Range(op.files) \in SUBSET Files
  BY OperationFacts DEF OperationOK
<1>3. /\ new \in Seq(Files) /\ IsInjective(new)
      /\ Range(new) = Range(op.files) \intersect (Files \ DOMAIN l.rows)
  BY <1>2, KeepFacts
<1>4. m = [l EXCEPT !.all = all, !.rows = r, !.changed = TRUE]
  BY DEF AddFiles
<1> HIDE DEF new
<1>5. all \in Seq(Files) /\ Range(all) = D /\ IsInjective(all)
  <2>1. /\ Reverse(new) \in Seq(Files) /\ IsInjective(Reverse(new))
        /\ Range(Reverse(new)) = Range(new)
    BY <1>3, ReverseFacts
  <2>2. Range(l.all) \intersect Range(Reverse(new)) = {}
    BY <1>1, <1>3, <2>1
  <2> QED  BY <1>1, <2>1, <2>2, ConcatFacts
<1>6. /\ D \in SUBSET Files /\ r \in [D -> Row]
      /\ \A f \in D : r[f].data <= d[f] /\ (l.disturbed \/ RowShown(r[f]))
  <2>1. D \in SUBSET Files
    BY <1>1, <1>3
  <2>2. ASSUME NEW f \in D
        PROVE  r[f] \in Row /\ r[f].data <= d[f] /\ (l.disturbed \/ RowShown(r[f]))
    <3>1. CASE f \in Range(new)
      <4>1. r[f] = NewRow(op.data[f])
        BY <3>1
      <4>2. op.data[f] \in Versions /\ op.data[f] <= d[f]
        BY <1>2, <1>3, <3>1
      <4> HIDE DEF r
      <4> QED  BY <4>1, <4>2, NewRowFacts DEF RowShown
    <3>2. CASE f \notin Range(new)
      <4>1. r[f] = l.rows[f] /\ f \in DOMAIN l.rows
        BY <3>2
      <4> HIDE DEF r
      <4> QED  BY <1>1, <4>1
    <3> QED  BY <3>1, <3>2
  <2>3. DOMAIN r = D /\ r = [f \in D |-> r[f]]
    OBVIOUS
  <2> HIDE DEF r, D
  <2> QED  BY <2>1, <2>2, <2>3
<1>d. DOMAIN r = D
  OBVIOUS
<1> HIDE DEF r, D, all, m
<1>7. r \in RowMaps
  BY <1>6, RowMapIntro
<1>8. /\ m \in ListRecord /\ m.all = all /\ m.rows = r /\ m.changed = TRUE
      /\ m.queue = l.queue /\ m.jobs = l.jobs /\ m.event = l.event /\ m.waits = l.waits
      /\ m.disturbed = l.disturbed /\ m.scan = l.scan
  BY <1>1, <1>4, <1>5, <1>7 DEF ListRecord
<1>9. ScanOK(m) /\ Paired(m) /\ Current(m)
  BY <1>5, <1>8, <1>d DEF Good, ScanOK, Paired, Current
<1>10. \A f \in DOMAIN m.rows : m.rows[f].data <= d[f] /\ (m.disturbed \/ RowShown(m.rows[f]))
  BY <1>6, <1>8, <1>d
<1>11. Executed(l, m, d)
  BY <1>8, <1>9, <1>10, OperationKeepsGood
<1> QED  BY <1>11 DEF m

(* gfl_set_files, gfl_clear_list *)
LEMMA SetFilesFacts ==
    ASSUME NEW d, NEW l, Good(l, d), Ready(l), NEW op \in Operation, OperationOK(op, d)
    PROVE  Executed(l, SetFiles(l, op), d)
<1> DEFINE c == [l EXCEPT !.all = <<>>, !.rows = <<>>]
<1>1. l \in ListRecord
  BY DEF Good
<1>2. <<>> \in RowMaps /\ DOMAIN <<>> = {}
  <2>1. DOMAIN <<>> = {}
    OBVIOUS
  <2>2. <<>> \in [{} -> Row]
    OBVIOUS
  <2> QED  BY <2>1, <2>2 DEF RowMaps
<1>3. /\ <<>> \in Seq(Files) /\ Range(<<>>) = {} /\ IsInjective(<<>>)
  BY DEF Range, IsInjective
<1>4. /\ c \in ListRecord /\ c.all = <<>> /\ c.rows = <<>> /\ c.queue = l.queue
      /\ c.jobs = l.jobs /\ c.event = l.event /\ c.waits = l.waits
      /\ c.disturbed = l.disturbed /\ c.scan = l.scan
  BY <1>1, <1>2, <1>3 DEF ListRecord
<1>5. SetFiles(l, op) = IF op.files = <<>> THEN c ELSE AddFiles(c, op)
  BY DEF SetFiles
<1> HIDE DEF c
<1>6. ScanOK(c) /\ Paired(c) /\ Current(c) /\ DOMAIN c.rows = {}
  BY <1>2, <1>3, <1>4 DEF Good, ScanOK, Paired, Current
<1>7. Executed(l, c, d)
  BY <1>4, <1>6, OperationKeepsGood
<1>8. Executed(c, AddFiles(c, op), d)
  BY <1>7, AddFilesFacts DEF Executed
<1> QED  BY <1>5, <1>7, <1>8 DEF Executed

(* gfl_delete_files *)
LEMMA DeleteFilesFacts ==
    ASSUME NEW d, NEW l, Good(l, d), Ready(l), NEW op
    PROVE  Executed(l, DeleteFiles(l, op), d)
<1> DEFINE gone == Range(op.files) \intersect DOMAIN l.rows
           all == Keep(l.all, Files \ gone)
           D == DOMAIN l.rows \ gone
           r == [f \in D |-> l.rows[f]]
           m == DeleteFiles(l, op)
<1>1. /\ l \in ListRecord /\ l.all \in Seq(Files) /\ Range(l.all) = DOMAIN l.rows
      /\ IsInjective(l.all)
      /\ DOMAIN l.rows \in SUBSET Files /\ l.rows \in [DOMAIN l.rows -> Row]
      /\ \A f \in DOMAIN l.rows : l.rows[f].data <= d[f]
      /\ l.disturbed \/ \A f \in DOMAIN l.rows : RowShown(l.rows[f])
  BY GoodFacts
<1>2. CASE gone = {}
  BY <1>2 DEF DeleteFiles, Executed
<1>3. CASE gone # {}
  <2>1. m = [l EXCEPT !.all = all, !.rows = r, !.changed = TRUE]
    BY <1>3 DEF DeleteFiles
  <2> HIDE DEF m, gone
  <2>2. all \in Seq(Files) /\ Range(all) = D /\ IsInjective(all)
    <3>1. /\ all \in Seq(Files) /\ IsInjective(all)
          /\ Range(all) = Range(l.all) \intersect (Files \ gone)
      BY <1>1, KeepFacts
    <3> QED  BY <1>1, <3>1
  <2>3. /\ D \in SUBSET Files /\ r \in [D -> Row] /\ DOMAIN r = D
        /\ \A f \in D : r[f].data <= d[f] /\ (l.disturbed \/ RowShown(r[f]))
    BY <1>1
  <2> HIDE DEF all, D, r
  <2>4. r \in RowMaps
    BY <2>3, RowMapIntro
  <2>5. /\ m \in ListRecord /\ m.all = all /\ m.rows = r /\ m.changed = TRUE
        /\ m.queue = l.queue /\ m.jobs = l.jobs /\ m.event = l.event /\ m.waits = l.waits
        /\ m.disturbed = l.disturbed /\ m.scan = l.scan
    BY <1>1, <2>1, <2>2, <2>4 DEF ListRecord
  <2>6. ScanOK(m) /\ Paired(m) /\ Current(m)
    BY <2>2, <2>3, <2>5 DEF Good, ScanOK, Paired, Current
  <2>7. \A f \in DOMAIN m.rows : m.rows[f].data <= d[f] /\ (m.disturbed \/ RowShown(m.rows[f]))
    BY <2>3, <2>5
  <2>8. Executed(l, m, d)
    BY <2>5, <2>6, <2>7, OperationKeepsGood
  <2> QED  BY <2>8 DEF m
<1> QED  BY <1>2, <1>3

(* gfl_update_files: a row with new data is not loaded any more. *)
LEMMA UpdateFilesFacts ==
    ASSUME NEW d, NEW l, Good(l, d), Ready(l), NEW op \in Operation, OperationOK(op, d)
    PROVE  Executed(l, UpdateFiles(l, op), d)
<1> DEFINE D == DOMAIN l.rows
           r == [f \in D |-> IF f \in Range(op.files) THEN SetFileData(l.rows[f], op.data[f])
                             ELSE l.rows[f]]
           m == UpdateFiles(l, op)
<1>1. /\ l \in ListRecord /\ Range(l.all) = D /\ IsInjective(l.all)
      /\ D \in SUBSET Files /\ l.rows \in [D -> Row]
      /\ \A f \in D : l.rows[f].data <= d[f]
      /\ l.disturbed \/ \A f \in D : RowShown(l.rows[f])
  BY GoodFacts
<1>2. \A f \in Range(op.files) : op.data[f] \in Versions /\ op.data[f] <= d[f]
  BY OperationFacts DEF OperationOK
<1>3. m = [l EXCEPT !.rows = r, !.changed = TRUE]
  BY DEF UpdateFiles
<1>4. \A f \in D : /\ r[f] \in Row /\ r[f].data <= d[f]
                   /\ l.disturbed \/ RowShown(r[f])
  <2> TAKE f \in D
  <2> HIDE DEF D
  <2>1. CASE f \in Range(op.files)
    <3>1. r[f] = SetFileData(l.rows[f], op.data[f])
      BY <2>1
    <3>2. l.rows[f] \in Row
      BY <1>1
    <3> HIDE DEF r
    <3> QED  BY <1>2, <2>1, <3>1, <3>2, NewRowFacts DEF RowShown
  <2>2. CASE f \notin Range(op.files)
    <3>1. r[f] = l.rows[f]
      BY <2>2
    <3> HIDE DEF r
    <3> QED  BY <1>1, <3>1
  <2> QED  BY <2>1, <2>2
<1>5. DOMAIN r = D /\ r = [f \in D |-> r[f]]
  OBVIOUS
<1> HIDE DEF r, m
<1>6. r \in RowMaps
  <2>1. r \in [D -> Row]
    BY <1>4, <1>5
  <2> QED  BY <1>1, <2>1, RowMapIntro
<1>7. /\ m \in ListRecord /\ m.all = l.all /\ m.rows = r /\ m.changed = TRUE
      /\ m.queue = l.queue /\ m.jobs = l.jobs /\ m.event = l.event /\ m.waits = l.waits
      /\ m.disturbed = l.disturbed /\ m.scan = l.scan
  BY <1>1, <1>3, <1>6 DEF ListRecord
<1>8. ScanOK(m) /\ Paired(m) /\ Current(m)
  BY <1>1, <1>5, <1>7 DEF Good, ScanOK, Paired, Current
<1>9. \A f \in DOMAIN m.rows : m.rows[f].data <= d[f] /\ (m.disturbed \/ RowShown(m.rows[f]))
  BY <1>4, <1>5, <1>7
<1>10. Executed(l, m, d)
  BY <1>7, <1>8, <1>9, OperationKeepsGood
<1> QED  BY <1>10 DEF m

(* gfl_rename_file: the row goes to a name that is not listed. *)
LEMMA RenameFileFacts ==
    ASSUME NEW d, NEW l, Good(l, d), Ready(l), NEW f, NEW g \in Files, f # g,
           NEW version \in Versions, version <= d[g]
    PROVE  Executed(l, RenameFile(l, f, g, version), d)
<1> DEFINE D == (DOMAIN l.rows \ {f}) \union {g}
           u == [l.rows[f] EXCEPT !.data = version]
           r == [x \in D |-> IF x = g THEN u ELSE l.rows[x]]
           all == [i \in DOMAIN l.all |-> IF l.all[i] = f THEN g ELSE l.all[i]]
           dis == l.disturbed \/ l.rows[f].data # version
           m == RenameFile(l, f, g, version)
<1>1. /\ l \in ListRecord /\ l.all \in Seq(Files) /\ Range(l.all) = DOMAIN l.rows
      /\ IsInjective(l.all)
      /\ DOMAIN l.rows \in SUBSET Files /\ l.rows \in [DOMAIN l.rows -> Row]
      /\ \A x \in DOMAIN l.rows : l.rows[x].data <= d[x]
      /\ l.disturbed \/ \A x \in DOMAIN l.rows : RowShown(l.rows[x])
  BY GoodFacts
<1>2. CASE f \notin DOMAIN l.rows \/ g \in DOMAIN l.rows
  BY <1>2 DEF RenameFile, Executed
<1>3. CASE f \in DOMAIN l.rows /\ g \notin DOMAIN l.rows
  <2>1. m = [l EXCEPT !.all = all, !.rows = r, !.changed = TRUE, !.disturbed = dis]
    BY <1>3 DEF RenameFile
  <2> HIDE DEF m
  <2>2. all \in Seq(Files) /\ Range(all) = D /\ IsInjective(all)
    <3> DEFINE n == Len(l.all)
    <3>1. n \in Nat /\ DOMAIN l.all = 1..n /\ \A i \in 1..n : l.all[i] \in Files
      BY <1>1
    <3>2. /\ \A i \in 1..n : l.all[i] \in DOMAIN l.rows
          /\ \A x \in DOMAIN l.rows : \E i \in 1..n : l.all[i] = x
          /\ \A i, j \in 1..n : l.all[i] = l.all[j] => i = j
      BY <1>1, PlacesOf
    <3> HIDE DEF n
    <3>3. all \in Seq(Files) /\ Len(all) = n
          /\ \A i \in 1..n : all[i] = IF l.all[i] = f THEN g ELSE l.all[i]
      <4>1. all \in [1..n -> Files] /\ DOMAIN all = 1..n
        BY <3>1
      <4> QED  BY <3>1, <4>1
    <3> HIDE DEF all
    <3>4. IsInjective(all)
      <4>1. ASSUME NEW i \in 1..n, NEW j \in 1..n, all[i] = all[j]  PROVE i = j
        <5>1. l.all[i] # g /\ l.all[j] # g
          BY <1>3, <3>2
        <5>2. l.all[i] = l.all[j]
          BY <3>3, <4>1, <5>1
        <5> QED  BY <3>2, <5>2
      <4> QED  BY <3>3, <4>1, PlacesOf
    <3>5. ASSUME NEW x \in Range(all)  PROVE x \in D
      <4>1. PICK i \in 1..n : all[i] = x
        BY <3>3, PlacesOf
      <4> QED  BY <3>2, <3>3, <4>1
    <3>6. ASSUME NEW x \in D  PROVE x \in Range(all)
      <4>1. CASE x = g
        <5>1. PICK i \in 1..n : l.all[i] = f
          BY <1>3, <3>2
        <5>2. all[i] = x
          BY <3>3, <4>1, <5>1
        <5> QED  BY <3>3, <5>2, PlacesOf
      <4>2. CASE x # g
        <5>1. PICK i \in 1..n : l.all[i] = x
          BY <3>2, <4>2
        <5>2. all[i] = x
          BY <3>3, <4>2, <5>1
        <5> QED  BY <3>3, <5>2, PlacesOf
      <4> QED  BY <4>1, <4>2
    <3> QED  BY <3>3, <3>4, <3>5, <3>6
  <2>3. /\ u \in Row /\ u.data = version /\ u.loaded = l.rows[f].loaded
        /\ u.shown = l.rows[f].shown
    <3>1. l.rows[f] \in Row
      BY <1>1, <1>3
    <3> QED  BY <3>1 DEF Row
  <2>4. dis \in BOOLEAN
    BY <1>1 DEF ListRecord
  <2>5. dis \/ RowShown(u)
    BY <1>1, <1>3, <2>3 DEF RowShown
  <2>d. l.disturbed => dis
    OBVIOUS
  <2> HIDE DEF u, dis
  <2>6. D \in SUBSET Files /\ r \in [D -> Row] /\ DOMAIN r = D
    BY <1>1, <2>3
  <2>7. ASSUME NEW x \in D  PROVE r[x].data <= d[x] /\ (dis \/ RowShown(r[x]))
    <3>1. CASE x = g
      BY <2>3, <2>5, <3>1
    <3>2. CASE x # g
      BY <1>1, <2>d, <3>2
    <3> QED  BY <3>1, <3>2
  <2> HIDE DEF all, D, r
  <2>8. r \in RowMaps
    BY <2>6, RowMapIntro
  <2>9. /\ m \in ListRecord /\ m.all = all /\ m.rows = r /\ m.changed = TRUE
        /\ m.queue = l.queue /\ m.jobs = l.jobs /\ m.event = l.event /\ m.waits = l.waits
        /\ m.disturbed = dis /\ m.scan = l.scan
    BY <1>1, <2>1, <2>2, <2>4, <2>8 DEF ListRecord
  <2>10. ScanOK(m) /\ Paired(m) /\ Current(m)
    BY <2>2, <2>6, <2>9 DEF Good, ScanOK, Paired, Current
  <2>11. \A x \in DOMAIN m.rows : m.rows[x].data <= d[x] /\ (m.disturbed \/ RowShown(m.rows[x]))
    BY <2>6, <2>7, <2>9
  <2>12. Executed(l, m, d)
    BY <2>9, <2>10, <2>11, <2>d, OperationKeepsGood
  <2> QED  BY <2>12 DEF m
<1> QED  BY <1>2, <1>3

(* gfl_set_filter and gfl_sort *)
LEMMA FilterFacts ==
    ASSUME NEW d, NEW l, Good(l, d), Ready(l), NEW A \in SUBSET Files
    PROVE  Executed(l, [l EXCEPT !.accepted = A, !.changed = TRUE], d)
<1> DEFINE m == [l EXCEPT !.accepted = A, !.changed = TRUE]
<1>1. /\ l \in ListRecord /\ Range(l.all) = DOMAIN l.rows /\ IsInjective(l.all)
      /\ \A f \in DOMAIN l.rows : l.rows[f].data <= d[f]
      /\ l.disturbed \/ \A f \in DOMAIN l.rows : RowShown(l.rows[f])
  BY GoodFacts
<1>2. /\ m \in ListRecord /\ m.all = l.all /\ m.rows = l.rows /\ m.changed = TRUE
      /\ m.queue = l.queue /\ m.jobs = l.jobs /\ m.event = l.event /\ m.waits = l.waits
      /\ m.disturbed = l.disturbed /\ m.scan = l.scan
  BY <1>1 DEF ListRecord
<1> HIDE DEF m
<1>3. ScanOK(m) /\ Paired(m) /\ Current(m)
  BY <1>1, <1>2 DEF Good, ScanOK, Paired, Current
<1>4. Executed(l, m, d)
  BY <1>1, <1>2, <1>3, OperationKeepsGood
<1> QED  BY <1>4 DEF m

LEMMA SortFacts ==
    ASSUME NEW d, NEW l, Good(l, d), Ready(l)
    PROVE  Executed(l, [l EXCEPT !.all = Reverse(@), !.changed = TRUE], d)
<1> DEFINE r == Reverse(l.all)
           m == [l EXCEPT !.all = r, !.changed = TRUE]
<1>1. /\ l \in ListRecord /\ l.all \in Seq(Files)
      /\ Range(l.all) = DOMAIN l.rows /\ IsInjective(l.all)
      /\ \A f \in DOMAIN l.rows : l.rows[f].data <= d[f]
      /\ l.disturbed \/ \A f \in DOMAIN l.rows : RowShown(l.rows[f])
  BY GoodFacts
<1>2. r \in Seq(Files) /\ Range(r) = DOMAIN l.rows /\ IsInjective(r)
  BY <1>1, ReverseFacts
<1> HIDE DEF r
<1>3. /\ m \in ListRecord /\ m.all = r /\ m.rows = l.rows /\ m.changed = TRUE
      /\ m.queue = l.queue /\ m.jobs = l.jobs /\ m.event = l.event /\ m.waits = l.waits
      /\ m.disturbed = l.disturbed /\ m.scan = l.scan
  BY <1>1, <1>2 DEF ListRecord
<1> HIDE DEF m
<1>4. ScanOK(m) /\ Paired(m) /\ Current(m)
  BY <1>2, <1>3 DEF Good, ScanOK, Paired, Current
<1>5. Executed(l, m, d)
  BY <1>1, <1>3, <1>4, OperationKeepsGood
<1> QED  BY <1>5 DEF m, r

(* gfl_enable_thumbs: nothing is loaded any more. *)
LEMMA EnableThumbsFacts ==
    ASSUME NEW d, NEW l, Good(l, d), Ready(l)
    PROVE  Executed(l, EnableThumbs(l), d)
<1> DEFINE D == DOMAIN l.rows
           u(w) == [w EXCEPT !.loaded = FALSE, !.shown = NoImage]
           r == [f \in D |-> u(l.rows[f])]
           n == [l EXCEPT !.rows = r, !.scan = Initialize]
           m == EnableThumbs(l)
<1>1. /\ l \in ListRecord /\ Range(l.all) = D /\ IsInjective(l.all)
      /\ D \in SUBSET Files /\ l.rows \in [D -> Row]
      /\ \A f \in D : l.rows[f].data <= d[f]
  BY GoodFacts
<1>2. m = StartUpdateNextThumb(n)
  BY DEF EnableThumbs
<1>3. \A w \in Row : u(w) \in Row /\ u(w).data = w.data /\ ~u(w).loaded
  BY DEF Row
<1> HIDE DEF u, m
<1>4. /\ r \in [D -> Row] /\ DOMAIN r = D
      /\ \A f \in D : r[f].data <= d[f] /\ RowShown(r[f])
  BY <1>1, <1>3 DEF RowShown
<1> HIDE DEF r, D
<1>5. r \in RowMaps
  BY <1>1, <1>4, RowMapIntro
<1>6. Initialize \in Scan /\ Initialize.phase # "scan"
  BY DEF Initialize, Scan
<1>7. /\ n \in ListRecord /\ n.all = l.all /\ n.accepted = l.accepted /\ n.rows = r
      /\ n.changed = l.changed /\ n.visibles = l.visibles
      /\ n.queue = l.queue /\ n.jobs = l.jobs /\ n.event = l.event /\ n.waits = l.waits
      /\ n.disturbed = l.disturbed /\ n.scan = Initialize
  BY <1>1, <1>5, <1>6 DEF ListRecord
<1> HIDE DEF n
<1>8. Visible(n) = Visible(l)
  BY <1>1, <1>7, VisibleFacts
<1>9. ScanOK(n) /\ Paired(n) /\ Current(n)
  BY <1>1, <1>4, <1>6, <1>7, <1>8 DEF Good, ScanOK, Paired, Current, D
<1>10. Executed(l, n, d)
  <2>1. \A f \in DOMAIN n.rows : n.rows[f].data <= d[f] /\ RowShown(n.rows[f])
    BY <1>4, <1>7
  <2> QED  BY <1>7, <1>9, <2>1, OperationKeepsGood
<1>11. Good(m, d) /\ m \in ListRecord /\ m = [n EXCEPT !.timer = m.timer]
  BY <1>2, <1>7, <1>10, StartUpdateNextThumbFacts DEF Executed
<1>12. /\ m.queue = n.queue /\ m.jobs = n.jobs /\ m.waits = n.waits
       /\ m.disturbed = n.disturbed
  BY <1>7, <1>11 DEF ListRecord
<1>13. Executed(l, m, d)
  BY <1>10, <1>11, <1>12 DEF Executed, Ready
<1> QED  BY <1>13 DEF m

(* One operation of the queue. *)
LEMMA ExecFacts ==
    ASSUME NEW d, NEW l, Good(l, d), Ready(l), NEW op \in Operation, OperationOK(op, d)
    PROVE  Executed(l, Exec(l, op), d)
<1>1. op.kind \in Kinds
  BY OperationFacts
<1>2. CASE op.kind = "set"
  BY <1>2, SetFilesFacts DEF Exec
<1>3. CASE op.kind = "add"
  BY <1>3, AddFilesFacts DEF Exec
<1>4. CASE op.kind = "delete"
  BY <1>4, DeleteFilesFacts DEF Exec
<1>5. CASE op.kind = "update"
  BY <1>5, UpdateFilesFacts DEF Exec
<1>6. CASE op.kind = "rename"
  <2> DEFINE f == op.files[1]
             g == op.files[2]
  <2>1. op.files \in Seq(Files) /\ Len(op.files) = 2 /\ IsInjective(op.files)
        /\ DOMAIN op.data = Range(op.files) /\ op.data[f] <= d[g]
    BY <1>6, OperationFacts DEF OperationOK
  <2>2. f \in Files /\ g \in Files
    BY <2>1
  <2>3. f # g /\ f \in Range(op.files)
    BY <2>1, PlacesOf
  <2>4. op.data[f] \in Versions
    BY <2>1, <2>3, OperationFacts
  <2>5. Exec(l, op) = RenameFile(l, f, g, op.data[f])
    BY <1>6 DEF Exec
  <2> QED  BY <2>1, <2>2, <2>3, <2>4, <2>5, RenameFileFacts
<1>7. CASE op.kind = "filter"
  BY <1>7, OperationFacts, FilterFacts DEF Exec
<1>8. CASE op.kind = "sort"
  BY <1>8, SortFacts DEF Exec
<1>9. CASE op.kind = "enable"
  BY <1>9, EnableThumbsFacts DEF Exec
<1> QED  BY <1>1, <1>2, <1>3, <1>4, <1>5, <1>6, <1>7, <1>8, <1>9 DEF Kinds

\* what an operation leaves of the control: the thumbnailer is called, or not, but for
\* nothing in a cancelled list
Runs(l, m) ==
    /\ m.jobs = l.jobs /\ m.event = l.event /\ m.cancelling = l.cancelling
    /\ m.loading = l.loading /\ m.queue = l.queue
    /\ l.timer => m.timer
    /\ m.timer => l.timer \/ ~l.cancelling

LEMMA StartUpdateNextThumbRuns ==
    ASSUME NEW l \in ListRecord
    PROVE  LET m == StartUpdateNextThumb(l)
           IN  Runs(l, m) /\ (~l.cancelling /\ ~l.loading => m.timer)
<1> DEFINE m == StartUpdateNextThumb(l)
<1>1. CASE l.cancelling \/ l.loading
  BY <1>1 DEF StartUpdateNextThumb, Runs
<1>2. CASE ~ (l.cancelling \/ l.loading)
  <2>1. m = [l EXCEPT !.timer = TRUE]
    BY <1>2 DEF StartUpdateNextThumb
  <2> HIDE DEF m
  <2>2. /\ m.jobs = l.jobs /\ m.event = l.event /\ m.cancelling = l.cancelling
        /\ m.loading = l.loading /\ m.queue = l.queue /\ m.timer = TRUE
    BY <2>1 DEF ListRecord
  <2> QED  BY <1>2, <2>2 DEF Runs, m
<1> QED  BY <1>1, <1>2

(* Of the operations only "enable" touches the control. *)
LEMMA ExecRuns ==
    ASSUME NEW l \in ListRecord, NEW op, op.kind \in Kinds
    PROVE  /\ Runs(l, Exec(l, op))
           /\ op.kind = "enable" /\ ~l.cancelling /\ ~l.loading => Exec(l, op).timer
<1> DEFINE Same(m) == /\ m.jobs = l.jobs /\ m.event = l.event /\ m.cancelling = l.cancelling
                      /\ m.loading = l.loading /\ m.queue = l.queue /\ m.timer = l.timer
<1>1. \A m : Same(m) => Runs(l, m)
  BY DEF Runs
<1>2. Same(l)
  OBVIOUS
<1>3. ASSUME NEW c \in {l, [l EXCEPT !.all = <<>>, !.rows = <<>>]}  PROVE Same(AddFiles(c, op))
  BY DEF AddFiles, ListRecord
<1>4. CASE op.kind = "set"
  <2>1. Same([l EXCEPT !.all = <<>>, !.rows = <<>>])
    BY DEF ListRecord
  <2> HIDE DEF Same
  <2>2. Same(SetFiles(l, op))
    BY <1>3, <2>1 DEF SetFiles
  <2> QED  BY <1>1, <1>4, <2>2 DEF Exec
<1>5. CASE op.kind = "add"
  <2> HIDE DEF Same
  <2> QED  BY <1>1, <1>3, <1>5 DEF Exec
<1>6. CASE op.kind = "delete"
  <2>1. Same(DeleteFiles(l, op))
    BY DEF DeleteFiles, ListRecord
  <2> HIDE DEF Same
  <2> QED  BY <1>1, <1>6, <2>1 DEF Exec
<1>7. CASE op.kind = "update"
  <2>1. Same(UpdateFiles(l, op))
    BY DEF UpdateFiles, ListRecord
  <2> HIDE DEF Same
  <2> QED  BY <1>1, <1>7, <2>1 DEF Exec
<1>8. CASE op.kind = "rename"
  <2>1. \A f, g, v : Same(RenameFile(l, f, g, v))
    BY DEF RenameFile, ListRecord
  <2> HIDE DEF Same
  <2> QED  BY <1>1, <1>8, <2>1 DEF Exec
<1>9. CASE op.kind \in {"filter", "sort"}
  <2>1. Same(Exec(l, op))
    BY <1>9 DEF Exec, ListRecord
  <2> HIDE DEF Same
  <2> QED  BY <1>1, <1>9, <2>1
<1>10. CASE op.kind = "enable"
  <2> DEFINE r == [f \in DOMAIN l.rows |-> [l.rows[f] EXCEPT !.loaded = FALSE, !.shown = NoImage]]
             n == [l EXCEPT !.rows = r, !.scan = Initialize]
  <2>1. Exec(l, op) = StartUpdateNextThumb(n)
    BY <1>10 DEF Exec, EnableThumbs
  <2>2. r \in RowMaps
    <3>1. DOMAIN l.rows \in SUBSET Files /\ \A f \in DOMAIN l.rows : l.rows[f] \in Row
      BY ListFields, RowMapFacts
    <3>2. \A w \in Row : [w EXCEPT !.loaded = FALSE, !.shown = NoImage] \in Row
      BY DEF Row
    <3>3. r \in [DOMAIN l.rows -> Row]
      BY <3>1, <3>2
    <3> HIDE DEF r
    <3> QED  BY <3>1, <3>3, RowMapIntro
  <2>3. Initialize \in Scan
    BY DEF Initialize, Scan
  <2> HIDE DEF r
  <2>4. n \in ListRecord /\ Same(n)
    BY <2>2, <2>3 DEF ListRecord
  <2> HIDE DEF n
  <2>5. /\ Runs(n, StartUpdateNextThumb(n))
        /\ ~n.cancelling /\ ~n.loading => StartUpdateNextThumb(n).timer
    BY <2>4, StartUpdateNextThumbRuns
  <2> QED  BY <2>1, <2>4, <2>5 DEF Runs
<1> QED  BY <1>4, <1>5, <1>6, <1>7, <1>8, <1>9, <1>10 DEF Kinds

-----------------------------------------------------------------------------
(* The queue *)

ExecAll(l, s) == FoldLeft(Exec, l, s)

(* The lists that the operations of s make of l, one after the other. *)
LEMMA ExecStages ==
    ASSUME NEW s, NEW N \in Nat, DOMAIN s = 1..N, NEW l
    PROVE  \E done : /\ done[0] = l /\ done[N] = ExecAll(l, s)
                     /\ \A n \in 0..N-1 : done[n+1] = Exec(done[n], s[n+1])
<1> DEFINE Take(h, T) == Exec(h[T \ {Max(T)}], s[Max(T)])
           Step(h, T) == IF T = {} THEN l ELSE Take(h, T)
           Whole(h) == h = [T \in SUBSET DOMAIN s |-> Step(h, T)]
           Upto(h, n) == h = [T \in SUBSET (1..n) |-> IF T = {} THEN l ELSE Take(h, T)]
           Defined == {n \in 0..N : \E h : Upto(h, n)}
<1>1. ExecAll(l, s) = (CHOOSE h : Whole(h))[DOMAIN s]
  BY DEF ExecAll, FoldLeft, MapThenFoldSet
<1>2. 0 \in Defined
  <2>1. SUBSET (1..0) = {{}}
    OBVIOUS
  <2>2. Upto([T \in SUBSET (1..0) |-> l], 0)
    BY <2>1
  <2> QED  BY <2>2
<1>3. ASSUME NEW n \in 0..N-1, n \in Defined  PROVE n + 1 \in Defined
  <2>1. PICK h : Upto(h, n)
    BY <1>3
  <2> DEFINE g == [T \in SUBSET (1..n+1) |-> IF n + 1 \in T THEN Take(h, T) ELSE h[T]]
  <2>2. ASSUME NEW T \in SUBSET (1..n+1)  PROVE g[T] = IF T = {} THEN l ELSE Take(g, T)
    <3>1. CASE n + 1 \in T
      <4>1. Max(T) = n + 1
        BY <3>1, MaxUpTo
      <4>2. T \ {n+1} \in SUBSET (1..n+1) /\ n + 1 \notin T \ {n+1}
        OBVIOUS
      <4> QED  BY <3>1, <4>1, <4>2
    <3>2. CASE n + 1 \notin T
      <4>1. T \in SUBSET (1..n)
        BY <3>2
      <4>2. g[T] = h[T] /\ h[T] = IF T = {} THEN l ELSE Take(h, T)
        BY <2>1, <3>2, <4>1
      <4>3. ASSUME T # {}  PROVE g[T \ {Max(T)}] = h[T \ {Max(T)}]
        <5> DEFINE R == T \ {Max(T)}
        <5>1. R \in SUBSET (1..n+1) /\ n + 1 \notin R
          BY <3>2
        <5> HIDE DEF R
        <5>2. g[R] = h[R]
          BY <5>1
        <5> QED  BY <5>2 DEF R
      <4> QED  BY <4>2, <4>3
    <3> QED  BY <3>1, <3>2
  <2>3. Upto(g, n + 1)
    BY <2>2
  <2> HIDE DEF g
  <2>4. \E f : Upto(f, n + 1)
    BY <2>3
  <2> HIDE DEF Upto
  <2> QED  BY <2>4
<1>4. \E h : Whole(h)
  <2>1. N \in Defined
    <3> HIDE DEF Defined
    <3>1. 0..N \subseteq Defined
      BY <1>2, <1>3, InductionUpTo
    <3> QED  BY <3>1
  <2> QED  BY <2>1
<1> DEFINE iter == CHOOSE h : Whole(h)
<1>5. Whole(iter)
  BY <1>4
<1> HIDE DEF iter
<1> DEFINE done == [n \in 0..N |-> iter[1..n]]
<1>6. done[0] = l
  <2>1. 1..0 = {} /\ {} \in SUBSET DOMAIN s
    OBVIOUS
  <2> QED  BY <1>5, <2>1
<1>7. ASSUME NEW n \in 0..N-1
      PROVE  done[n+1] = Exec(done[n], s[n+1])
  <2>1. 1..n+1 \in SUBSET DOMAIN s /\ 1..n+1 # {} /\ (1..n+1) \ {n+1} = 1..n
    OBVIOUS
  <2>2. Max(1..n+1) = n + 1
    BY MaxUpTo
  <2>3. iter[1..n+1] = Take(iter, 1..n+1)
    BY <1>5, <2>1
  <2>4. done[n] = iter[1..n] /\ done[n+1] = iter[1..n+1]
    OBVIOUS
  <2> HIDE DEF done
  <2> QED  BY <2>1, <2>2, <2>3, <2>4
<1>8. done[N] = ExecAll(l, s)
  BY <1>1 DEF iter
<1> QED  BY <1>6, <1>7, <1>8

(* The operations of a sequence, done one after the other. *)
LEMMA OperationsFacts ==
    ASSUME NEW d, NEW l, Good(l, d), Ready(l), NEW s \in Seq(Operation),
           \A i \in 1..Len(s) : OperationOK(s[i], d)
    PROVE  LET m == ExecAll(l, s)
           IN  /\ Executed(l, m, d) /\ Runs(l, m)
               /\ s # <<>> /\ s[Len(s)].kind = "enable" /\ ~l.cancelling /\ ~l.loading => m.timer
<1> DEFINE N == Len(s)
<1>1. N \in Nat /\ DOMAIN s = 1..N /\ \A i \in 1..N : s[i] \in Operation
  OBVIOUS
<1> HIDE DEF N
<1>2. PICK done : /\ done[0] = l /\ done[N] = ExecAll(l, s)
                  /\ \A n \in 0..N-1 : done[n+1] = Exec(done[n], s[n+1])
  BY <1>1, ExecStages
<1> DEFINE T == {n \in 0..N : Executed(l, done[n], d) /\ Runs(l, done[n])}
<1>3. 0 \in T
  BY <1>1, <1>2 DEF Executed, Runs
<1>4. ASSUME NEW n \in 0..N-1, n \in T  PROVE n + 1 \in T
  <2>1. n + 1 \in 1..N /\ n + 1 \in 0..N
    BY <1>1
  <2>2. Executed(done[n], done[n+1], d)
    <3>1. Good(done[n], d) /\ Ready(done[n])
      BY <1>4 DEF Executed
    <3>2. s[n+1] \in Operation /\ OperationOK(s[n+1], d)
      BY <1>1, <2>1 DEF N
    <3> QED  BY <1>2, <3>1, <3>2, ExecFacts
  <2>3. Runs(done[n], done[n+1])
    <3>1. done[n] \in ListRecord
      BY <1>4 DEF Executed, Good
    <3>2. s[n+1].kind \in Kinds
      BY <1>1, <2>1, OperationFacts
    <3> QED  BY <1>2, <3>1, <3>2, ExecRuns
  <2>4. Runs(l, done[n])
    BY <1>4
  <2>5. Runs(l, done[n+1])
    BY <2>3, <2>4 DEF Runs
  <2> QED  BY <1>4, <2>1, <2>2, <2>5 DEF Executed
<1>t. \A n \in T : Executed(l, done[n], d) /\ Runs(l, done[n])
  OBVIOUS
<1> HIDE DEF T
<1>5. 0..N \subseteq T
  BY <1>1, <1>3, <1>4, InductionUpTo
<1>6. N \in T
  BY <1>1, <1>5
<1>7. ASSUME s # <<>>, s[N].kind = "enable", ~l.cancelling, ~l.loading
      PROVE  done[N].timer
  <2>1. N # 0
    BY <1>7 DEF N
  <2> DEFINE k == N - 1
  <2>2. k \in 0..N-1 /\ k + 1 = N /\ k \in 0..N
    BY <1>1, <2>1
  <2> HIDE DEF k
  <2>3. done[N] = Exec(done[k], s[N])
    BY <1>2, <2>2
  <2>4. k \in T
    BY <1>5, <2>2
  <2>5. Executed(l, done[k], d) /\ Runs(l, done[k])
    BY <1>t, <2>4
  <2>6. done[k] \in ListRecord /\ ~done[k].cancelling /\ ~done[k].loading
    BY <1>7, <2>5 DEF Executed, Good, Runs
  <2>7. s[N].kind \in Kinds
    BY <1>7 DEF Kinds
  <2> QED  BY <1>7, <2>3, <2>6, <2>7, ExecRuns
<1>8. Executed(l, done[N], d) /\ Runs(l, done[N])
  BY <1>6, <1>t
<1> QED  BY <1>2, <1>7, <1>8 DEF N

(* Other operations wait. *)
LEMMA NewQueueKeepsGood ==
    ASSUME NEW d, NEW l, Good(l, d), NEW m \in ListRecord,
           m.all = l.all, m.accepted = l.accepted, m.rows = l.rows, m.jobs = l.jobs,
           m.visibles = l.visibles, m.changed = l.changed, m.scan = l.scan,
           l.disturbed => m.disturbed, m.event = "start" => l.event = "start",
           \A i \in 1..Len(m.queue) : OperationOK(m.queue[i], d)
    PROVE  Good(m, d)
<1>1. l \in ListRecord
  BY DEF Good
<1>2. Visible(m) = Visible(l)
  BY <1>1, VisibleFacts
<1>3. Paired(m) /\ NotNewer(m, d) /\ StartsNewest(m) /\ Older(m) /\ ScanOK(m)
  BY DEF Good, Paired, NotNewer, StartsNewest, Older, ScanOK
<1>4. Current(m)
  BY <1>2 DEF Good, Current
<1>5. Undisturbed(m)
  BY <1>2 DEF Good, Undisturbed, InTurn
<1> QED  BY <1>3, <1>4, <1>5 DEF Good

(* _gth_file_list_exec_next_op: what is done is the beginning of the queue. *)
LEMMA ExecNextOpFacts ==
    ASSUME NEW d, NEW l, Good(l, d)
    PROVE  LET m == ExecNextOp(l)
           IN  /\ Good(m, d) /\ m.waits = l.waits
               /\ m.jobs = l.jobs /\ m.event = l.event /\ m.cancelling = l.cancelling
               /\ m.loading = l.loading
               /\ m.timer => l.timer \/ ~l.cancelling
               /\ ~l.cancelling /\ ~l.loading => m.timer
               /\ Len(l.queue) = 1 => m.queue = <<>>
<1> DEFINE q == l.queue
           enables == {i \in DOMAIN q : q[i].kind = "enable"}
           last == IF enables = {} THEN Len(q)
                   ELSE CHOOSE i \in enables : \A k \in enables : i <= k
           rest == SubSeq(q, last + 1, Len(q))
           todo == SubSeq(q, 1, last)
           b == [l EXCEPT !.queue = rest, !.disturbed = @ \/ (q # <<>> /\ l.jobs # <<>>)]
           done == ExecAll(b, todo)
<1>1. /\ l \in ListRecord /\ q \in Seq(Operation) /\ Len(q) \in Nat /\ DOMAIN q = 1..Len(q)
      /\ \A i \in 1..Len(q) : q[i] \in Operation /\ OperationOK(q[i], d)
  BY ListFields DEF Good, NotNewer
<1>2. /\ last \in 0..Len(q) /\ (q # <<>> => last >= 1)
      /\ enables # {} => last \in 1..Len(q) /\ q[last].kind = "enable"
  <2>1. CASE enables = {}
    BY <1>1, <2>1
  <2>2. CASE enables # {}
    <3>1. /\ enables \subseteq Nat /\ enables \subseteq 1..Len(q)
          /\ \A i \in enables : q[i].kind = "enable"
      BY <1>1
    <3> HIDE DEF enables
    <3>2. \E i \in enables : \A k \in enables : i <= k
      BY <2>2, <3>1, LeastNatural
    <3>3. last \in enables
      BY <2>2, <3>2
    <3> HIDE DEF last
    <3> QED  BY <1>1, <3>1, <3>3
  <2> QED  BY <2>1, <2>2
<1>3. ExecNextOp(l) = IF enables = {} THEN StartUpdateNextThumb(done) ELSE done
  BY DEF ExecNextOp, ExecAll
<1> HIDE DEF enables, last
<1>4. /\ rest \in Seq(Operation) /\ todo \in Seq(Operation) /\ Len(todo) = last
      /\ \A i \in 1..Len(rest) : OperationOK(rest[i], d)
      /\ \A i \in 1..Len(todo) : OperationOK(todo[i], d)
      /\ Len(rest) = Len(q) - last /\ (last >= 1 => todo[last] = q[last])
  <2>1. last \in Int /\ 0 <= last /\ last <= Len(q)
    BY <1>1, <1>2
  <2>2. /\ todo \in Seq(Operation) /\ Len(todo) = last
        /\ \A i \in 1..last : i \in 1..Len(q) /\ todo[i] = q[i]
    BY <1>1, <2>1
  <2>3. /\ rest \in Seq(Operation) /\ Len(rest) = Len(q) - last
        /\ \A i \in 1..Len(q) - last : last + i \in 1..Len(q) /\ rest[i] = q[last + i]
    BY <1>1, <2>1, SMTT(30)
  <2> HIDE DEF rest, todo, q
  <2> QED  BY <1>1, <2>2, <2>3
<1> HIDE DEF rest, todo
<1>5. /\ b \in ListRecord /\ b.all = l.all /\ b.accepted = l.accepted /\ b.rows = l.rows
      /\ b.jobs = l.jobs /\ b.visibles = l.visibles /\ b.changed = l.changed
      /\ b.scan = l.scan /\ b.event = l.event /\ b.queue = rest /\ b.waits = l.waits
      /\ l.disturbed => b.disturbed
      /\ q # <<>> /\ l.jobs # <<>> => b.disturbed
      /\ b.cancelling = l.cancelling /\ b.loading = l.loading /\ b.timer = l.timer
  BY <1>1, <1>4 DEF ListRecord
<1> HIDE DEF b
<1>6. Good(b, d)
  BY <1>4, <1>5, NewQueueKeepsGood
<1>7. /\ Good(done, d) /\ done.waits = l.waits /\ Runs(b, done)
      /\ todo # <<>> /\ todo[Len(todo)].kind = "enable" /\ ~b.cancelling /\ ~b.loading
         => done.timer
  <2>1. CASE q = <<>>
    <3>1. Len(todo) = 0
      BY <1>2, <1>4, <2>1
    <3>2. DOMAIN todo = 1..0
      BY <1>4, <3>1
    <3>3. done = b
      <4>1. \E h : h[0] = b /\ h[0] = ExecAll(b, todo)
        BY <3>2, ExecStages
      <4> QED  BY <4>1
    <3>4. Runs(b, b)
      BY DEF Runs
    <3>5. todo = <<>>
      BY <1>4, <3>1
    <3> QED  BY <1>5, <1>6, <3>3, <3>4, <3>5
  <2>2. CASE q # <<>>
    <3>1. Ready(b)
      BY <1>5, <2>2 DEF Ready
    <3> QED  BY <1>4, <1>5, <1>6, <3>1, OperationsFacts DEF Executed
  <2> QED  BY <2>1, <2>2
<1> HIDE DEF done
<1>8. /\ Good(StartUpdateNextThumb(done), d)
      /\ StartUpdateNextThumb(done).waits = done.waits
      /\ Runs(done, StartUpdateNextThumb(done))
      /\ ~done.cancelling /\ ~done.loading => StartUpdateNextThumb(done).timer
  <2> DEFINE m == StartUpdateNextThumb(done)
  <2>1. done \in ListRecord
    BY <1>7 DEF Good
  <2>2. Good(m, d) /\ m = [done EXCEPT !.timer = m.timer]
    BY <1>7, <2>1, StartUpdateNextThumbFacts
  <2>4. Runs(done, m) /\ (~done.cancelling /\ ~done.loading => m.timer)
    BY <2>1, StartUpdateNextThumbRuns
  <2> HIDE DEF m
  <2>3. m.waits = done.waits
    BY <2>1, <2>2 DEF ListRecord
  <2> QED  BY <2>2, <2>3, <2>4 DEF m
<1> DEFINE m == ExecNextOp(l)
<1> HIDE DEF m
<1>9. Good(m, d) /\ m.waits = l.waits
  BY <1>3, <1>7, <1>8 DEF m
<1>10. Runs(b, m)
  <2>1. Runs(done, m) \/ m = done
    BY <1>3, <1>8 DEF m
  <2> QED  BY <1>7, <2>1 DEF Runs
<1>11. /\ m.jobs = l.jobs /\ m.event = l.event /\ m.cancelling = l.cancelling
       /\ m.loading = l.loading /\ (m.timer => l.timer \/ ~l.cancelling) /\ m.queue = rest
  BY <1>5, <1>10 DEF Runs
<1>12. ASSUME ~l.cancelling, ~l.loading  PROVE m.timer
  <2>1. CASE enables = {}
    <3>1. m = StartUpdateNextThumb(done)
      BY <1>3, <2>1 DEF m
    <3>2. ~done.cancelling /\ ~done.loading
      BY <1>5, <1>7, <1>12 DEF Runs
    <3> QED  BY <1>8, <3>1, <3>2
  <2>2. CASE enables # {}
    <3>1. m = done
      BY <1>3, <2>2 DEF m
    <3>2. last \in 1..Len(q) /\ q[last].kind = "enable"
      BY <1>2, <2>2
    <3>3. todo # <<>> /\ todo[Len(todo)].kind = "enable"
      BY <1>1, <1>4, <3>2
    <3> QED  BY <1>5, <1>7, <1>12, <3>1, <3>3
  <2> QED  BY <2>1, <2>2
<1>13. ASSUME Len(q) = 1  PROVE rest = <<>>
  <2>1. q # <<>>
    BY <1>1, <1>13
  <2>2. last = 1
    BY <1>1, <1>2, <1>13, <2>1
  <2>3. Len(rest) = 0
    BY <1>4, <1>13, <2>2
  <2> QED  BY <1>4, <2>3
<1> QED  BY <1>9, <1>11, <1>12, <1>13 DEF m

LEMMA ClearQueueFacts ==
    ASSUME NEW d, NEW l, Good(l, d)
    PROVE  /\ Good(ClearQueue(l), d) /\ ClearQueue(l).event = "none"
           /\ ClearQueue(l) = [l EXCEPT !.event = "none", !.timer = FALSE, !.queue = <<>>]
<1> DEFINE m == ClearQueue(l)
<1>1. l \in ListRecord
  BY DEF Good
<1>2. m = [l EXCEPT !.event = "none", !.timer = FALSE, !.queue = <<>>]
  BY DEF ClearQueue
<1> HIDE DEF m
<1>e. <<>> \in Seq(Operation)
  OBVIOUS
<1>3. /\ m \in ListRecord /\ m.all = l.all /\ m.accepted = l.accepted /\ m.rows = l.rows
      /\ m.jobs = l.jobs /\ m.visibles = l.visibles /\ m.changed = l.changed
      /\ m.scan = l.scan /\ m.event = "none" /\ m.queue = <<>> /\ m.disturbed = l.disturbed
  BY <1>1, <1>2, <1>e DEF ListRecord
<1>4. \A i \in 1..Len(m.queue) : OperationOK(m.queue[i], d)
  BY <1>3
<1>5. Good(m, d)
  BY <1>3, <1>4, NewQueueKeepsGood
<1> QED  BY <1>2, <1>3, <1>5 DEF m

\* the list with one more operation in its queue
Queued(l, op) ==
    LET cleared == CASE op.kind = "set" -> ClearQueue(l)
                     [] op.kind = "filter" ->
                            [l EXCEPT !.queue = Keep(@, {o \in Range(@) : o.kind # "filter"})]
                     [] OTHER -> l
    IN  [cleared EXCEPT !.queue = Append(@, op)]

LEMMA QueuedFacts ==
    ASSUME NEW d, NEW l, Good(l, d), NEW op \in Operation, OperationOK(op, d)
    PROVE  LET m == Queued(l, op)
           IN  /\ Good(m, d) /\ m.waits = l.waits
               /\ m.jobs = l.jobs /\ m.loading = l.loading /\ m.cancelling = l.cancelling
               /\ \/ m.event = l.event /\ m.timer = l.timer
                  \/ op.kind = "set" /\ m.event = "none" /\ ~m.timer
               /\ l.queue = <<>> \/ op.kind = "set" => Len(m.queue) = 1
<1> DEFINE kept == Keep(l.queue, {o \in Range(l.queue) : o.kind # "filter"})
           cleared == CASE op.kind = "set" -> ClearQueue(l)
                        [] op.kind = "filter" -> [l EXCEPT !.queue = kept]
                        [] OTHER -> l
           queued == [cleared EXCEPT !.queue = Append(@, op)]
<1>1. /\ l \in ListRecord /\ l.queue \in Seq(Operation)
      /\ \A i \in 1..Len(l.queue) : OperationOK(l.queue[i], d)
  BY ListFields DEF Good, NotNewer
<1>2. /\ kept \in Seq(Operation) /\ \A i \in 1..Len(kept) : OperationOK(kept[i], d)
      /\ l.queue = <<>> => Len(kept) = 0
  <2>1. kept \in Seq(Operation) /\ Range(kept) \subseteq Range(l.queue)
    BY <1>1, KeepFacts
  <2> HIDE DEF kept
  <2>2. ASSUME NEW i \in 1..Len(kept)  PROVE OperationOK(kept[i], d)
    <3>1. kept[i] \in Range(l.queue)
      BY <2>1, PlacesOf
    <3>2. PICK k \in 1..Len(l.queue) : l.queue[k] = kept[i]
      BY <1>1, <3>1, PlacesOf
    <3> QED  BY <1>1, <3>2
  <2>3. ASSUME l.queue = <<>>  PROVE Len(kept) = 0
    <3>1. Range(l.queue) = {}
      BY <2>3 DEF Range
    <3>2. Len(kept) \in Nat /\ 1 \notin 1..Len(kept)
      BY <2>1, <3>1, PlacesOf
    <3> QED  BY <3>2
  <2> QED  BY <2>1, <2>2, <2>3
<1> HIDE DEF kept
<1>3. /\ Good(cleared, d) /\ cleared.waits = l.waits
      /\ cleared.jobs = l.jobs /\ cleared.loading = l.loading
      /\ cleared.cancelling = l.cancelling
      /\ \/ cleared.event = l.event /\ cleared.timer = l.timer
         \/ op.kind = "set" /\ cleared.event = "none" /\ ~cleared.timer
      /\ l.queue = <<>> \/ op.kind = "set" => Len(cleared.queue) = 0
  <2>1. CASE op.kind = "set"
    <3>1. cleared = ClearQueue(l)
      BY <2>1
    <3> HIDE DEF cleared
    <3>2. Good(cleared, d) /\ cleared = [l EXCEPT !.event = "none", !.timer = FALSE, !.queue = <<>>]
      BY <3>1, ClearQueueFacts
    <3>3. /\ cleared.waits = l.waits /\ cleared.jobs = l.jobs /\ cleared.loading = l.loading
          /\ cleared.cancelling = l.cancelling /\ cleared.event = "none"
          /\ cleared.timer = FALSE /\ cleared.queue = <<>>
      BY <1>1, <3>2 DEF ListRecord
    <3> QED  BY <2>1, <3>2, <3>3
  <2>2. CASE op.kind = "filter"
    <3>1. cleared = [l EXCEPT !.queue = kept]
      BY <2>2
    <3> HIDE DEF cleared
    <3>2. /\ cleared \in ListRecord /\ cleared.all = l.all /\ cleared.accepted = l.accepted
          /\ cleared.rows = l.rows /\ cleared.jobs = l.jobs /\ cleared.visibles = l.visibles
          /\ cleared.changed = l.changed /\ cleared.scan = l.scan
          /\ cleared.event = l.event /\ cleared.queue = kept
          /\ cleared.disturbed = l.disturbed /\ cleared.waits = l.waits
          /\ cleared.loading = l.loading /\ cleared.cancelling = l.cancelling
          /\ cleared.timer = l.timer
      BY <1>1, <1>2, <3>1 DEF ListRecord
    <3>3. Good(cleared, d)
      BY <1>2, <3>2, NewQueueKeepsGood
    <3> QED  BY <1>2, <2>2, <3>2, <3>3
  <2>3. CASE op.kind # "set" /\ op.kind # "filter"
    BY <2>3
  <2> QED  BY <2>1, <2>2, <2>3
<1>4. Queued(l, op) = queued
  BY DEF Queued, kept
<1> HIDE DEF cleared
<1>5. /\ cleared \in ListRecord /\ cleared.queue \in Seq(Operation)
      /\ \A i \in 1..Len(cleared.queue) : OperationOK(cleared.queue[i], d)
  BY <1>3, ListFields DEF Good, NotNewer
<1> DEFINE s == cleared.queue
           w == Append(s, op)
<1>6. /\ w \in Seq(Operation) /\ \A i \in 1..Len(w) : OperationOK(w[i], d)
      /\ Len(w) = Len(cleared.queue) + 1
  <2>1. /\ w \in Seq(Operation) /\ Len(w) = Len(s) + 1 /\ w[Len(w)] = op
        /\ \A i \in 1..Len(s) : w[i] = s[i]
    BY <1>5, AppendProperties
  <2>2. Len(s) \in Nat /\ \A i \in 1..Len(s) : OperationOK(s[i], d)
    BY <1>5
  <2>4. Len(w) = Len(cleared.queue) + 1
    BY <2>1
  <2> HIDE DEF s, w
  <2>3. \A i \in 1..Len(w) : i \in 1..Len(s) \/ i = Len(w)
    BY <2>1, <2>2
  <2> QED  BY <2>1, <2>2, <2>3, <2>4
<1>7. queued = [cleared EXCEPT !.queue = w]
  OBVIOUS
<1> HIDE DEF s, w, queued
<1>8. /\ queued \in ListRecord /\ queued.all = cleared.all
      /\ queued.accepted = cleared.accepted
      /\ queued.rows = cleared.rows /\ queued.jobs = cleared.jobs
      /\ queued.visibles = cleared.visibles
      /\ queued.changed = cleared.changed /\ queued.scan = cleared.scan
      /\ queued.event = cleared.event /\ queued.queue = w
      /\ queued.disturbed = cleared.disturbed /\ queued.waits = cleared.waits
      /\ queued.loading = cleared.loading /\ queued.cancelling = cleared.cancelling
      /\ queued.timer = cleared.timer
  BY <1>5, <1>6, <1>7 DEF ListRecord
<1>9. Good(queued, d)
  BY <1>3, <1>6, <1>8, NewQueueKeepsGood
<1>10. ASSUME l.queue = <<>> \/ op.kind = "set"  PROVE Len(queued.queue) = 1
  <2>1. Len(cleared.queue) = 0
    BY <1>3, <1>10
  <2>2. Len(w) = 1
    BY <1>6, <2>1
  <2> QED  BY <1>8, <2>2
<1> QED  BY <1>3, <1>4, <1>8, <1>9, <1>10

(* _gth_file_list_queue_op *)
LEMMA QueueOpIs ==
    ASSUME NEW l, NEW op
    PROVE  QueueOp(l, op) = IF l.loading THEN Queued(l, op) ELSE ExecNextOp(Queued(l, op))
BY DEF QueueOp, Queued

LEMMA QueueOpFacts ==
    ASSUME NEW d, NEW l, Good(l, d), NEW op \in Operation, OperationOK(op, d)
    PROVE  Good(QueueOp(l, op), d) /\ QueueOp(l, op).waits = l.waits
<1> DEFINE q == Queued(l, op)
<1>1. Good(q, d) /\ q.waits = l.waits
  BY QueuedFacts
<1>2. QueueOp(l, op) = IF l.loading THEN q ELSE ExecNextOp(q)
  BY QueueOpIs
<1> HIDE DEF q
<1>3. Good(ExecNextOp(q), d) /\ ExecNextOp(q).waits = q.waits
  BY <1>1, ExecNextOpFacts
<1> QED  BY <1>1, <1>2, <1>3

-----------------------------------------------------------------------------
(* Files and jobs *)

(* The versions on disk only grow. *)
LEMMA DiskGrows ==
    ASSUME NEW d \in [Files -> Versions], NEW e \in [Files -> Versions],
           \A f \in Files : d[f] <= e[f], NEW l, Good(l, d)
    PROVE  Good(l, e)
<1>1. /\ l \in ListRecord /\ DOMAIN l.rows \in SUBSET Files /\ l.rows \in [DOMAIN l.rows -> Row]
      /\ l.queue \in Seq(Operation) /\ l.jobs \in Seq(Job)
      /\ \A f \in DOMAIN l.rows : l.rows[f].data <= d[f]
  BY GoodFacts, ListFields
<1>2. Versions \subseteq Int
  BY DEF Versions
<1>3. \A a \in Versions : \A f \in Files : a <= d[f] => a <= e[f]
  <2> TAKE a \in Versions
  <2> TAKE f \in Files
  <2>1. d[f] \in Int /\ e[f] \in Int /\ a \in Int /\ d[f] <= e[f]
    BY <1>2
  <2> QED  BY <2>1
<1>4. \A f \in DOMAIN l.rows : l.rows[f].data <= e[f]
  <2> TAKE f \in DOMAIN l.rows
  <2>1. l.rows[f] \in Row
    BY <1>1
  <2>2. l.rows[f].data \in Versions
    BY <2>1 DEF Row
  <2> QED  BY <1>1, <1>3, <2>2
<1>5. ASSUME NEW i \in 1..Len(l.queue)  PROVE OperationOK(l.queue[i], e)
  <2> DEFINE o == l.queue[i]
  <2>1. o \in Operation /\ OperationOK(o, d)
    BY <1>1 DEF Good, NotNewer
  <2> HIDE DEF o
  <2>2. /\ o.files \in Seq(Files) /\ Range(o.files) \in SUBSET Files
        /\ \A f \in DOMAIN o.data : o.data[f] \in Versions
    BY <2>1, OperationFacts
  <2>3. IsInjective(o.files) /\ DOMAIN o.data = Range(o.files)
    BY <2>1 DEF OperationOK
  <2>4. \A f \in DOMAIN o.data : o.data[f] <= e[f]
    BY <1>3, <2>1, <2>2, <2>3 DEF OperationOK
  <2>5. ASSUME o.kind = "rename"
        PROVE  Len(o.files) = 2 /\ o.data[o.files[1]] <= e[o.files[2]]
    <3>1. Len(o.files) = 2 /\ o.data[o.files[1]] <= d[o.files[2]]
      BY <2>1, <2>5 DEF OperationOK
    <3>2. o.files[1] \in Range(o.files) /\ o.files[2] \in Files
      BY <2>2, <3>1, PlacesOf
    <3> QED  BY <1>3, <2>2, <2>3, <3>1, <3>2
  <2>6. OperationOK(o, e)
    BY <2>3, <2>4, <2>5 DEF OperationOK
  <2> QED  BY <2>6 DEF o
<1>6. ASSUME NEW i \in 1..Len(l.jobs)  PROVE JobOK(l.jobs[i], e)
  <2>1. l.jobs[i] \in Job /\ JobOK(l.jobs[i], d)
    BY <1>1 DEF Good, NotNewer
  <2>2. l.jobs[i].data \in Versions /\ l.jobs[i].file \in Files
    BY <2>1 DEF Job
  <2> QED  BY <1>3, <2>1, <2>2 DEF JobOK
<1>7. NotNewer(l, e)
  BY <1>4, <1>5, <1>6 DEF NotNewer
<1> QED  BY <1>7 DEF Good

(* What is asked from outside is of the files as they are. *)
LEMMA OpFacts ==
    ASSUME NEW kind \in Kinds \ {"rename"}, NEW fs \in Seq(Files), IsInjective(fs),
           disk \in [Files -> Versions]
    PROVE  Op(kind, fs) \in Operation /\ OperationOK(Op(kind, fs), disk)
<1> DEFINE v == [f \in Range(fs) |-> disk[f]]
<1>1. Range(fs) \in SUBSET Files
  BY PlacesOf
<1>2. v \in [Range(fs) -> Versions]
  BY <1>1
<1>3. v \in VersionMaps /\ DOMAIN v = Range(fs) /\ \A f \in DOMAIN v : v[f] <= disk[f]
  <2>1. v \in VersionMaps
    <3> HIDE DEF v
    <3> QED  BY <1>1, <1>2 DEF VersionMaps
  <2>2. \A f \in Range(fs) : disk[f] \in Int
    BY <1>1 DEF Versions
  <2> QED  BY <2>1, <2>2
<1>4. Op(kind, fs) = [kind |-> kind, files |-> fs, data |-> v]
  BY DEF Op
<1> HIDE DEF v
<1> QED  BY <1>3, <1>4 DEF Operation, OperationOK

\* a list of which the thumbnailer's event and a job are at another stage
Staged(l, event, i, started, stage, result) ==
    [l EXCEPT !.event = event,
              !.jobs = [@ EXCEPT ![i].started = started, ![i].stage = stage,
                                 ![i].result = result]]

(* A load goes on. *)
LEMMA StageFacts ==
    ASSUME NEW d, NEW l, Good(l, d), NEW i \in 1..Len(l.jobs), NEW stage \in Stages \ {"none"},
           NEW result \in Results, NEW started \in BOOLEAN, NEW event,
           event = "none" \/ (event = l.event /\ l.jobs[i].stage # "none"),
           started \/ ~l.jobs[i].started,
           stage = "answer" => result # NoImage /\ (result \in Versions => l.jobs[i].data <= result),
           NEW m, m = Staged(l, event, i, started, stage, result)
    PROVE  Good(m, d) /\ m.waits = l.waits
<1> DEFINE u == [l.jobs[i] EXCEPT !.started = started, !.stage = stage, !.result = result]
           J == [l.jobs EXCEPT ![i] = u]
<1>1. /\ l \in ListRecord /\ l.jobs \in Seq(Job) /\ Len(l.jobs) \in Nat
      /\ l.event \in {"none", "start", "restart", "stopped"}
      /\ DOMAIN l.jobs = 1..Len(l.jobs)
      /\ \A k \in 1..Len(l.jobs) : l.jobs[k] \in Job /\ JobOK(l.jobs[k], d)
      /\ \A k \in 1..Len(l.jobs) : l.disturbed \/ InTurn(l, l.jobs[k])
  BY ListFields, SMTT(30) DEF Good, NotNewer, Undisturbed
<1>2. /\ u \in Job /\ u.started = started /\ u.stage = stage /\ u.result = result
      /\ u.cancelled = l.jobs[i].cancelled /\ u.data = l.jobs[i].data
      /\ u.file = l.jobs[i].file /\ u.inView = l.jobs[i].inView /\ u.pos = l.jobs[i].pos
  <2>1. l.jobs[i] \in Job
    BY <1>1
  <2> QED  BY <2>1 DEF Job
<1>3. m = [l EXCEPT !.event = event, !.jobs = J]
  BY <1>1 DEF ListRecord, Staged
<1> HIDE DEF u
<1>4. /\ J \in Seq(Job) /\ Len(J) = Len(l.jobs)
      /\ \A k \in 1..Len(l.jobs) : J[k] = IF k = i THEN u ELSE l.jobs[k]
  <2>1. J \in [1..Len(l.jobs) -> Job] /\ DOMAIN J = 1..Len(l.jobs)
    BY <1>1, <1>2
  <2>2. \A k \in 1..Len(l.jobs) : J[k] = IF k = i THEN u ELSE l.jobs[k]
    BY <1>1
  <2> HIDE DEF J
  <2> QED  BY <1>1, <2>1, <2>2
<1> HIDE DEF J
<1>5. /\ m \in ListRecord /\ m.all = l.all /\ m.accepted = l.accepted /\ m.rows = l.rows
      /\ m.jobs = J /\ m.visibles = l.visibles /\ m.changed = l.changed
      /\ m.scan = l.scan /\ m.event = event /\ m.queue = l.queue
      /\ m.disturbed = l.disturbed /\ m.waits = l.waits
  BY <1>1, <1>3, <1>4 DEF ListRecord
<1>6. StartsNewest(m)
  <2> SUFFICES ASSUME event = "start"  PROVE J # <<>> /\ J[1].stage = "none"
    BY <1>5 DEF StartsNewest
  <2>1. l.event = "start" /\ l.jobs[i].stage # "none"
    OBVIOUS
  <2>2. l.jobs # <<>> /\ l.jobs[1].stage = "none"
    BY <2>1 DEF Good, StartsNewest
  <2>3. 1 \in 1..Len(l.jobs) /\ i # 1
    BY <1>1, <2>1, <2>2
  <2> QED  BY <1>1, <1>4, <2>2, <2>3
<1>7. \A k \in 1..Len(J) : JobOK(J[k], d) /\ (l.disturbed \/ InTurn(l, J[k]))
  <2>1. JobOK(u, d)
    BY <1>1, <1>2 DEF JobOK
  <2>2. l.disturbed \/ InTurn(l, u)
    BY <1>1, <1>2 DEF InTurn
  <2> QED  BY <1>1, <1>4, <2>1, <2>2
<1>8. \A k \in 2..Len(J) : J[k].started /\ J[k].cancelled
  <2> TAKE k \in 2..Len(J)
  <2>1. k \in 1..Len(l.jobs) /\ k \in 2..Len(l.jobs)
    BY <1>1, <1>4
  <2>2. l.jobs[k].started /\ l.jobs[k].cancelled
    BY <2>1 DEF Good, Older
  <2> QED  BY <1>2, <1>4, <2>1, <2>2
<1>9. ScanOK(m)
  BY <1>5 DEF Good, ScanOK
<1>10. Good(m, d)
  BY <1>5, <1>6, <1>7, <1>8, <1>9, NewJobsKeepGood
<1> QED  BY <1>5, <1>10

-----------------------------------------------------------------------------
(* The steps *)

LEMMA InitGood == Init => LInv
<1> SUFFICES ASSUME Init  PROVE LInv
  OBVIOUS
<1>1. /\ <<>> \in RowMaps /\ DOMAIN <<>> = {}
      /\ <<>> \in Seq(Files) /\ <<>> \in Seq(Operation) /\ <<>> \in Seq(Job)
      /\ Range(<<>>) = {} /\ IsInjective(<<>>)
  <2>1. <<>> \in [{} -> Row] /\ DOMAIN <<>> = {}
    OBVIOUS
  <2>2. Range(<<>>) = {} /\ IsInjective(<<>>)
    BY DEF Range, IsInjective
  <2> QED  BY <2>1, <2>2 DEF RowMaps
<1>2. Initialize \in Scan /\ Initialize.phase # "scan"
  BY DEF Initialize, Scan
<1>3. /\ list.all = <<>> /\ list.rows = <<>> /\ list.queue = <<>> /\ list.jobs = <<>>
      /\ list.event = "none" /\ list.waits = 0 /\ list.scan = Initialize
      /\ list.disturbed = FALSE
  BY DEF Init
<1>4. list \in ListRecord
  BY <1>1, <1>2 DEF Init, ListRecord
<1>5. NotNewer(list, disk)
  BY <1>1, <1>3 DEF NotNewer
<1>6. Paired(list) /\ StartsNewest(list) /\ Current(list) /\ ScanOK(list)
  BY <1>1, <1>2, <1>3 DEF Paired, StartsNewest, Current, ScanOK
<1>7. Older(list) /\ Undisturbed(list)
  <2>1. DOMAIN list.rows = {} /\ Len(list.jobs) = 0
    BY <1>1, <1>3
  <2> QED  BY <2>1 DEF Older, Undisturbed
<1>8. Good(list, disk)
  BY <1>4, <1>5, <1>6, <1>7 DEF Good
<1> QED  BY <1>3, <1>8, ListAssumption DEF Init, LInv, Versions

\* what an action leaves, when it does not change the files on disk
Kept == Good(list', disk) /\ list'.waits = list.waits

LEMMA KeptKeepsLInv ==
    ASSUME LInv, Kept, disk' = disk, young' \in SUBSET Files, scroll' \in Nat,
           events' = events \/ events' = events + 1
    PROVE  LInv'
<1>1. list.waits <= events /\ list.waits \in Nat /\ events \in Nat
  BY ListFields DEF LInv, Good
<1>2. list'.waits <= events' /\ events' \in Nat
  BY <1>1 DEF Kept
<1> QED  BY <1>2 DEF LInv, Kept

LEMMA LInvFacts ==
    ASSUME LInv
    PROVE  /\ Good(list, disk) /\ list \in ListRecord /\ disk \in [Files -> Versions]
           /\ events \in Nat /\ scroll \in Nat /\ young \in SUBSET Files
           /\ list.jobs \in Seq(Job) /\ Len(list.jobs) \in Nat
           /\ DOMAIN list.jobs = 1..Len(list.jobs)
           /\ \A i \in 1..Len(list.jobs) : list.jobs[i] \in Job /\ JobOK(list.jobs[i], disk)
BY ListFields DEF LInv, Good, NotNewer

LEMMA CallStep ==
    ASSUME LInv, NEW kind \in Kinds \ {"rename"}, NEW fs \in Seq(Files), IsInjective(fs),
           Call(Op(kind, fs))
    PROVE  LInv'
<1>1. Op(kind, fs) \in Operation /\ OperationOK(Op(kind, fs), disk)
  BY LInvFacts, OpFacts
<1>2. Kept
  BY <1>1, LInvFacts, QueueOpFacts DEF Call, Kept
<1> QED  BY <1>2, LInvFacts, KeptKeepsLInv DEF Call, Event

LEMMA SetToSeqOfFiles ==
    ASSUME NEW fs \in SUBSET Files
    PROVE  SetToSeq(fs) \in Seq(Files) /\ IsInjective(SetToSeq(fs))
<1>1. IsFiniteSet(fs)
  BY ListAssumption, FS_Subset
<1>2. SetToSeq(fs) \in Seq(fs) /\ IsInjective(SetToSeq(fs))
  BY <1>1, SetToSeqFacts
<1> QED  BY <1>2

(* A file that takes a new name takes its version with it. *)
LEMMA RenameOpFacts ==
    ASSUME LInv, NEW f \in Files, NEW g \in Files, Rename(f, g)
    PROVE  LET op == Op("rename", <<f, g>>)
           IN  /\ op \in Operation /\ op.kind = "rename" /\ OperationOK(op, disk')
               /\ Good(list, disk') /\ disk' \in [Files -> Versions]
<1> DEFINE op == Op("rename", <<f, g>>)
           v == [x \in {f, g} |-> disk[x]]
<1>2. disk \in [Files -> Versions] /\ f # g /\ disk[g] <= disk[f]
  BY LInvFacts DEF Rename
<1>3. /\ <<f, g>> \in Seq(Files) /\ Len(<<f, g>>) = 2 /\ Range(<<f, g>>) = {f, g}
      /\ IsInjective(<<f, g>>)
  BY <1>2 DEF Range, IsInjective
<1>4. /\ op.kind = "rename" /\ op.files = <<f, g>> /\ op.data = v
      /\ op = [kind |-> "rename", files |-> <<f, g>>, data |-> v]
  BY <1>3 DEF Op
<1>5. v \in VersionMaps
  <2>1. v \in [{f, g} -> Versions] /\ {f, g} \in SUBSET Files
    BY <1>2
  <2> HIDE DEF v
  <2> QED  BY <2>1 DEF VersionMaps
<1>6. op \in Operation
  BY <1>3, <1>4, <1>5 DEF Operation, Kinds
<1>7. disk' = [disk EXCEPT ![g] = disk[f]]
  BY DEF Rename
<1>8. disk' \in [Files -> Versions] /\ \A x \in Files : disk[x] <= disk'[x]
  <2>1. \A x \in Files : disk[x] \in Int
    BY <1>2 DEF Versions
  <2> QED  BY <1>2, <1>7, <2>1
<1>9. OperationOK(op, disk')
  <2>1. DOMAIN v = {f, g} /\ v[f] = disk[f] /\ v[g] = disk[g]
    OBVIOUS
  <2>2. v[f] <= disk'[f] /\ v[g] <= disk'[g] /\ v[f] <= disk'[g]
    <3>1. disk[f] \in Int /\ disk'[g] = disk[f]
      BY <1>2, <1>7 DEF Versions
    <3> QED  BY <1>8, <2>1, <3>1
  <2> HIDE DEF v, op
  <2> QED  BY <1>3, <1>4, <2>1, <2>2 DEF OperationOK
<1>10. Good(list, disk')
  BY <1>2, <1>8, LInvFacts, DiskGrows
<1> QED  BY <1>4, <1>6, <1>8, <1>9, <1>10

LEMMA CallsStep == LInv /\ Calls => LInv'
<1> SUFFICES ASSUME LInv, Calls  PROVE LInv'
  OBVIOUS
<1>1. CASE \E kind \in {"set", "filter"}, fs \in SUBSET Files : Call(Op(kind, SetToSeq(fs)))
  <2>1. PICK kind \in {"set", "filter"}, fs \in SUBSET Files : Call(Op(kind, SetToSeq(fs)))
    BY <1>1
  <2>2. SetToSeq(fs) \in Seq(Files) /\ IsInjective(SetToSeq(fs))
    BY SetToSeqOfFiles
  <2>3. kind \in Kinds \ {"rename"}
    BY DEF Kinds
  <2> QED  BY <2>1, <2>2, <2>3, CallStep
<1>2. CASE \E f \in Files, kind \in {"add", "delete", "update"} : Call(Op(kind, <<f>>))
  <2>1. PICK f \in Files, kind \in {"add", "delete", "update"} : Call(Op(kind, <<f>>))
    BY <1>2
  <2>2. <<f>> \in Seq(Files) /\ IsInjective(<<f>>)
    BY DEF IsInjective
  <2>3. kind \in Kinds \ {"rename"}
    BY DEF Kinds
  <2> QED  BY <2>1, <2>2, <2>3, CallStep
<1>3. CASE \E f, g \in Files : Rename(f, g)
  <2>1. PICK f \in Files, g \in Files : Rename(f, g)
    BY <1>3
  <2> DEFINE op == Op("rename", <<f, g>>)
  <2>2. /\ op \in Operation /\ OperationOK(op, disk')
        /\ Good(list, disk') /\ disk' \in [Files -> Versions]
    BY <2>1, RenameOpFacts
  <2>3. list' = QueueOp(list, op)
    BY <2>1 DEF Rename
  <2> HIDE DEF op
  <2>11. Good(list', disk') /\ list'.waits = list.waits
    BY <2>2, <2>3, QueueOpFacts
  <2>12. young' \in SUBSET Files /\ scroll' \in Nat /\ events' = events + 1
    BY <2>1, LInvFacts DEF Rename, Event
  <2>13. list.waits <= events /\ list.waits \in Nat /\ events \in Nat
    BY ListFields DEF LInv, Good
  <2>14. list'.waits <= events' /\ events' \in Nat
    BY <2>11, <2>12, <2>13
  <2> QED  BY <2>2, <2>11, <2>12, <2>14 DEF LInv
<1>4. CASE \E kind \in {"sort", "enable"} : Call(Op(kind, <<>>))
  <2>1. PICK kind \in {"sort", "enable"} : Call(Op(kind, <<>>))
    BY <1>4
  <2>2. <<>> \in Seq(Files) /\ IsInjective(<<>>)
    BY DEF IsInjective
  <2>3. kind \in Kinds \ {"rename"}
    BY DEF Kinds
  <2> QED  BY <2>1, <2>2, <2>3, CallStep
<1> QED  BY <1>1, <1>2, <1>3, <1>4 DEF Calls

(* What is left of a cancelled list are jobs that were told. *)
LEMMA CancelStep == LInv /\ Cancel => LInv' /\ Awaits(list')
<1> SUFFICES ASSUME LInv, Cancel  PROVE LInv' /\ Awaits(list')
  OBVIOUS
<1> DEFINE q == ClearQueue(list)
           c == [q EXCEPT !.cancelling = TRUE, !.waits = @ + 1, !.stopped = TRUE]
           m == CancelJobs(c)
<1>1. Good(list, disk) /\ list \in ListRecord /\ list.waits \in Nat
  BY LInvFacts, ListFields
<1>2. Good(q, disk) /\ q.event = "none" /\ q.waits = list.waits /\ q.timer = FALSE
  <2>1. /\ Good(q, disk) /\ q.event = "none"
        /\ q = [list EXCEPT !.event = "none", !.timer = FALSE, !.queue = <<>>]
    BY <1>1, ClearQueueFacts
  <2> HIDE DEF q
  <2> QED  BY <1>1, <2>1 DEF ListRecord
<1> HIDE DEF q
<1>3. q \in ListRecord
  BY <1>2 DEF Good
<1>w. PICK waits \in Nat : waits = list.waits + 1
  BY <1>1
<1>c. c = [q EXCEPT !.cancelling = TRUE, !.waits = waits, !.stopped = TRUE]
  BY <1>2, <1>w
<1> HIDE DEF c
<1>4. /\ c \in ListRecord /\ c.all = q.all /\ c.accepted = q.accepted /\ c.rows = q.rows
      /\ c.jobs = q.jobs /\ c.visibles = q.visibles /\ c.changed = q.changed
      /\ c.scan = q.scan /\ c.event = "none" /\ c.queue = q.queue
      /\ c.disturbed = q.disturbed /\ c.waits = list.waits + 1
      /\ c.timer = FALSE
  BY <1>2, <1>3, <1>w, <1>c DEF ListRecord
<1>5. ScanOK(c)
  BY <1>2, <1>4 DEF Good, ScanOK
<1>6. Good(c, disk)
  BY <1>2, <1>4, <1>5, ControlKeepsGood
<1>7. /\ Good(m, disk) /\ m = [c EXCEPT !.loading = m.loading, !.jobs = m.jobs]
      /\ \A i \in 1..Len(m.jobs) : m.jobs[i].started /\ m.jobs[i].cancelled
  BY <1>4, <1>6, CancelJobsFacts
<1> HIDE DEF m
<1>8. m.waits = list.waits + 1 /\ m.event = "none" /\ m.timer = FALSE
  BY <1>4, <1>7 DEF ListRecord
<1>a. Awaits(m)
  BY <1>7, <1>8 DEF Awaits
<1>9. list' = m
  BY DEF Cancel, m, c, q
<1>10. list'.waits <= events' /\ events' \in Nat
  BY <1>1, <1>8, <1>9 DEF LInv, Cancel, Event
<1> QED  BY <1>7, <1>9, <1>10, <1>a, LInvFacts DEF LInv, Cancel

LEMMA CancelDoneStep == LInv /\ CancelDone => LInv'
<1> SUFFICES ASSUME LInv, CancelDone  PROVE LInv'
  OBVIOUS
<1>1. Good(list, disk) /\ list \in ListRecord /\ list.waits \in Nat /\ list.waits > 0
  BY LInvFacts, ListFields DEF CancelDone
<1>2. list' = [list EXCEPT !.cancelling = FALSE, !.waits = @ - 1]
  BY DEF CancelDone
<1>w. PICK waits \in Nat : waits = list.waits - 1
  BY <1>1
<1> DEFINE m == list'
<1>m. m = [list EXCEPT !.cancelling = FALSE, !.waits = waits]
  BY <1>2, <1>w
<1> HIDE DEF m
<1>3. /\ m \in ListRecord /\ m.all = list.all /\ m.accepted = list.accepted
      /\ m.rows = list.rows
      /\ m.jobs = list.jobs /\ m.visibles = list.visibles /\ m.changed = list.changed
      /\ m.scan = list.scan /\ m.event = list.event /\ m.queue = list.queue
      /\ m.disturbed = list.disturbed /\ m.waits = list.waits - 1
  BY <1>1, <1>w, <1>m DEF ListRecord
<1>4. ScanOK(m)
  BY <1>1, <1>3 DEF Good, ScanOK
<1>5. Good(m, disk)
  BY <1>1, <1>3, <1>4, ControlKeepsGood
<1>6. m.waits <= events
  BY <1>1, <1>3 DEF LInv
<1> QED  BY <1>5, <1>6, LInvFacts DEF LInv, CancelDone, m

LEMMA ScrollStep == LInv /\ (\E pos \in 1..Cardinality(Files) : Scroll(pos)) => LInv'
<1> SUFFICES ASSUME LInv, NEW pos \in 1..Cardinality(Files), Scroll(pos)  PROVE LInv'
  OBVIOUS
<1> DEFINE n == [list EXCEPT !.scan = Initialize]
           m == StartUpdateNextThumb(n)
<1>1. Good(list, disk) /\ list \in ListRecord
  BY LInvFacts
<1>2. Initialize \in Scan /\ Initialize.phase # "scan"
  BY DEF Initialize, Scan
<1>3. /\ n \in ListRecord /\ n.all = list.all /\ n.accepted = list.accepted
      /\ n.rows = list.rows
      /\ n.jobs = list.jobs /\ n.visibles = list.visibles /\ n.changed = list.changed
      /\ n.scan = Initialize /\ n.event = list.event /\ n.queue = list.queue
      /\ n.disturbed = list.disturbed /\ n.waits = list.waits
  BY <1>1, <1>2 DEF ListRecord
<1> HIDE DEF n
<1>4. ScanOK(n)
  BY <1>2, <1>3 DEF ScanOK
<1>5. Good(n, disk)
  BY <1>1, <1>3, <1>4, ControlKeepsGood
<1>6. Good(m, disk) /\ m = [n EXCEPT !.timer = m.timer]
  BY <1>3, <1>5, StartUpdateNextThumbFacts
<1> HIDE DEF m
<1>7. m.waits = list.waits
  BY <1>3, <1>6 DEF ListRecord
<1>8. list' = m
  BY DEF Scroll, m, n
<1>9. Kept
  BY <1>6, <1>7, <1>8 DEF Kept
<1>10. pos \in Nat
  BY ListAssumption, FS_CardinalityType
<1> QED  BY <1>9, <1>10, LInvFacts, KeptKeepsLInv DEF Scroll, Event

\* a list of which only the control of the thumbnailer is set
LEMMA ControlFacts ==
    ASSUME NEW d, NEW l, Good(l, d), NEW timer \in BOOLEAN, NEW loading \in BOOLEAN
    PROVE  LET m == [l EXCEPT !.event = "none", !.timer = timer, !.loading = loading]
           IN  Good(m, d) /\ m.waits = l.waits
<1> DEFINE m == [l EXCEPT !.event = "none", !.timer = timer, !.loading = loading]
<1>1. l \in ListRecord
  BY DEF Good
<1>2. /\ m \in ListRecord /\ m.all = l.all /\ m.accepted = l.accepted
      /\ m.rows = l.rows
      /\ m.jobs = l.jobs /\ m.visibles = l.visibles /\ m.changed = l.changed
      /\ m.scan = l.scan /\ m.event = "none" /\ m.queue = l.queue
      /\ m.disturbed = l.disturbed /\ m.waits = l.waits
  BY <1>1 DEF ListRecord
<1> HIDE DEF m
<1>3. ScanOK(m)
  BY <1>2 DEF Good, ScanOK
<1>4. Good(m, d)
  BY <1>2, <1>3, ControlKeepsGood
<1> QED  BY <1>2, <1>4 DEF m

LEMMA RestartThumbUpdateStep == LInv /\ RestartThumbUpdate => LInv'
<1> SUFFICES ASSUME LInv, RestartThumbUpdate  PROVE LInv'
  OBVIOUS
<1> DEFINE l == [list EXCEPT !.event = "none", !.timer = FALSE, !.loading = TRUE]
<1>1. Good(l, disk) /\ l.waits = list.waits
  BY LInvFacts, ControlFacts
<1> HIDE DEF l
<1>2. list' \in UpdateNextThumb(l)
  BY DEF RestartThumbUpdate, l
<1>3. Kept
  BY <1>1, <1>2, LInvFacts, UpdateNextThumbFacts DEF Kept
<1> QED  BY <1>3, LInvFacts, KeptKeepsLInv DEF RestartThumbUpdate

LEMMA UpdateThumbsStoppedStep == LInv /\ UpdateThumbsStopped => LInv'
<1> SUFFICES ASSUME LInv, UpdateThumbsStopped  PROVE LInv'
  OBVIOUS
<1> DEFINE l == [list EXCEPT !.event = "none", !.timer = list.timer, !.loading = FALSE]
<1>1. Good(l, disk) /\ l.waits = list.waits
  BY LInvFacts, ListFields, ControlFacts
<1>2. l = [list EXCEPT !.event = "none", !.loading = FALSE]
  BY LInvFacts DEF ListRecord
<1> HIDE DEF l
<1>3. list' = ExecNextOp(l)
  BY <1>2 DEF UpdateThumbsStopped
<1>4. Kept
  BY <1>1, <1>3, ExecNextOpFacts DEF Kept
<1> QED  BY <1>4, LInvFacts, KeptKeepsLInv DEF UpdateThumbsStopped

LEMMA StartThumbnailJobStep == LInv /\ StartThumbnailJob => LInv'
<1> SUFFICES ASSUME LInv, StartThumbnailJob  PROVE LInv'
  OBVIOUS
<1>1. PICK next \in {<<"answer", Failed>>, <<"cache", NoImage>>, <<"original", NoImage>>} :
           list' = [list EXCEPT !.event = "none", !.jobs[1].started = TRUE,
                                !.jobs[1].stage = next[1], !.jobs[1].result = next[2]]
  BY DEF StartThumbnailJob
<1>2. 1 \in 1..Len(list.jobs) /\ list \in ListRecord /\ Good(list, disk)
  <2>1. list.jobs # <<>>
    BY LInvFacts DEF StartThumbnailJob, Good, StartsNewest
  <2> QED  BY <2>1, LInvFacts
<1>3. /\ next[1] \in Stages \ {"none"} /\ next[2] \in Results
      /\ next[1] = "answer" => next[2] # NoImage /\ next[2] \notin Versions
  BY DEF Stages, Results, NoImage, Failed, Versions
<1> DEFINE stage == next[1]
           result == next[2]
           started == TRUE
           event == "none"
           i == 1
<1>4. list' = Staged(list, event, i, started, stage, result)
  BY <1>1, <1>2, LInvFacts DEF ListRecord, Staged
<1>5. /\ stage \in Stages \ {"none"} /\ result \in Results
      /\ stage = "answer" => result # NoImage /\ (result \in Versions => list.jobs[i].data <= result)
      /\ started \in BOOLEAN /\ started /\ event = "none" /\ i \in 1..Len(list.jobs)
  BY <1>2, <1>3
<1>8. started \/ ~list.jobs[i].started
  BY <1>5
<1>9. event = "none" \/ (event = list.event /\ list.jobs[i].stage # "none")
  BY <1>5
<1> HIDE DEF stage, result, started, event, i
<1>6. Good(list', disk) /\ list'.waits = list.waits
  <2>1. stage \in Stages \ {"none"} /\ result \in Results /\ started \in BOOLEAN
    BY <1>5
  <2>2. stage = "answer" =>
            result # NoImage /\ (result \in Versions => list.jobs[i].data <= result)
    BY <1>5
  <2>3. i \in 1..Len(list.jobs) /\ Good(list, disk)
    BY <1>2, <1>5
  <2> QED  BY <1>4, <1>8, <1>9, <2>1, <2>2, <2>3, StageFacts
<1>7. Kept
  BY <1>6 DEF Kept
<1> QED  BY <1>7, LInvFacts, KeptKeepsLInv DEF StartThumbnailJob

LEMMA GotoStep ==
    ASSUME LInv, NEW i \in 1..Len(list.jobs), list.jobs[i].stage # "none",
           NEW stage \in Stages \ {"none"}, NEW result \in Results,
           stage = "answer" =>
               result # NoImage /\ (result \in Versions => list.jobs[i].data <= result),
           Goto(i, stage, result)
    PROVE  LInv'
<1>1. list \in ListRecord /\ Good(list, disk) /\ list.jobs[i] \in Job
  BY LInvFacts
<1> DEFINE started == list.jobs[i].started
           event == list.event
<1>2. started \in BOOLEAN
  BY <1>1 DEF Job
<1>3. list' = Staged(list, event, i, started, stage, result)
  <2>1. list' = [list EXCEPT !.jobs[i].stage = stage, !.jobs[i].result = result]
    BY DEF Goto
  <2> DEFINE u == [list.jobs[i] EXCEPT !.stage = stage, !.result = result]
             w == [list.jobs[i] EXCEPT !.started = started, !.stage = stage, !.result = result]
  <2>2. u = w
    BY <1>1 DEF Job
  <2>3. list' = [list EXCEPT !.jobs = [list.jobs EXCEPT ![i] = u]]
    BY <1>1, <2>1, LInvFacts DEF ListRecord
  <2>4. [list.jobs EXCEPT ![i].started = started, ![i].stage = stage, ![i].result = result]
        = [list.jobs EXCEPT ![i] = w]
    BY LInvFacts
  <2> HIDE DEF u, w
  <2>5. list' = [list EXCEPT !.jobs = [list.jobs EXCEPT ![i] = w]]
    BY <2>2, <2>3
  <2> DEFINE J == [list.jobs EXCEPT ![i] = w]
  <2> HIDE DEF J
  <2>6. list' = [list EXCEPT !.event = event, !.jobs = J]
    BY <1>1, <2>5 DEF ListRecord, J
  <2> QED  BY <2>4, <2>6 DEF J, Staged
<1>4. started \/ ~list.jobs[i].started
  OBVIOUS
<1>5. event = list.event
  OBVIOUS
<1> HIDE DEF started, event
<1>6. Good(list', disk) /\ list'.waits = list.waits
  BY <1>1, <1>2, <1>3, <1>4, <1>5, StageFacts
<1>7. Kept
  BY <1>6 DEF Kept
<1> QED  BY <1>7, LInvFacts, KeptKeepsLInv DEF Goto

LEMMA JobStepsStep == LInv /\ JobSteps => LInv'
<1> SUFFICES ASSUME LInv, NEW i \in 1..Len(list.jobs),
                    \/ CacheImageReady(i)
                    \/ OriginalImageReady(i)
                    \/ ThumbnailerTimeout(i)
                    \/ ThumbnailerCancelled(i)
                    \/ ThumbnailerEnds(i)
                    \/ JobReady(i)
             PROVE  LInv'
  BY DEF JobSteps
<1> DEFINE job == list.jobs[i]
           written == disk[job.file]
<1>1. /\ job \in Job /\ job.data \in Versions /\ job.file \in Files
      /\ written \in Versions /\ job.data <= written
  <2>1. job \in Job /\ JobOK(job, disk)
    BY LInvFacts
  <2> QED  BY <2>1, LInvFacts DEF Job, JobOK
<1>2. Versions \subseteq Int /\ Versions \subseteq Results
  BY DEF Versions, Results
<1>3. ASSUME NEW stage \in Stages \ {"none", "answer"}, NEW result \in {NoImage, Cancelled},
             Goto(i, stage, result), job.stage # "none"
      PROVE  LInv'
  <2>1. result \in Results /\ stage # "answer"
    BY <1>3 DEF Results
  <2> QED  BY <1>3, <2>1, GotoStep
<1>4. ASSUME NEW result \in {Failed, Cancelled}, Goto(i, "answer", result), job.stage # "none"
      PROVE  LInv'
  <2>1. /\ result \in Results /\ result # NoImage /\ result \notin Versions
        /\ "answer" \in Stages \ {"none"}
    BY <1>4 DEF Results, Versions, NoImage, Failed, Cancelled, Stages
  <2> QED  BY <1>4, <2>1, GotoStep
<1>5. ASSUME NEW result \in Versions, job.data <= result, Goto(i, "answer", result),
             job.stage # "none"
      PROVE  LInv'
  <2>1. /\ result \in Results /\ result # NoImage
        /\ "answer" \in Stages \ {"none"}
    BY <1>2, <1>5 DEF Versions, NoImage, Stages
  <2> QED  BY <1>5, <2>1, GotoStep
<1> HIDE DEF written
<1>6. CASE CacheImageReady(i)
  <2>1. job.stage # "none"
    BY <1>6 DEF CacheImageReady, Loading
  <2>2. CASE \E version \in job.data..written : Goto(i, "answer", version)
    <3>1. PICK version \in job.data..written : Goto(i, "answer", version)
      BY <2>2
    <3>2. version \in Versions /\ job.data <= version
      BY <1>1, <3>1, ListAssumption DEF Versions
    <3> QED  BY <1>5, <2>1, <3>1, <3>2
  <2>3. CASE Goto(i, "original", NoImage)
    <3>1. "original" \in Stages \ {"none", "answer"}
      BY DEF Stages
    <3> QED  BY <1>3, <2>1, <2>3, <3>1
  <2> QED  BY <1>6, <2>2, <2>3 DEF CacheImageReady, written
<1>7. CASE OriginalImageReady(i)
  <2>1. job.stage # "none"
    BY <1>7 DEF OriginalImageReady, Loading
  <2>2. CASE Goto(i, "answer", written)
    BY <1>1, <1>5, <2>1, <2>2
  <2>3. CASE Goto(i, "answer", Cancelled) \/ Goto(i, "answer", Failed)
    BY <1>4, <2>1, <2>3
  <2>4. CASE Goto(i, "script", NoImage)
    <3>1. "script" \in Stages \ {"none", "answer"}
      BY DEF Stages
    <3> QED  BY <1>3, <2>1, <2>4, <3>1
  <2> QED  BY <1>7, <2>2, <2>3, <2>4 DEF OriginalImageReady, written
<1>8. CASE ThumbnailerTimeout(i) \/ ThumbnailerCancelled(i)
  <2>1. job.stage # "none"
    BY <1>8 DEF ThumbnailerTimeout, ThumbnailerCancelled, Loading
  <2>2. "killed" \in Stages \ {"none", "answer"}
    BY DEF Stages
  <2>3. Goto(i, "killed", NoImage) \/ Goto(i, "killed", Cancelled)
    BY <1>8 DEF ThumbnailerTimeout, ThumbnailerCancelled
  <2> QED  BY <1>3, <2>1, <2>2, <2>3
<1>9. CASE ThumbnailerEnds(i)
  <2>1. job.stage # "none"
    BY <1>9 DEF ThumbnailerEnds, Loading
  <2>2. \/ Goto(i, "answer", written)
        \/ Goto(i, "answer", Cancelled) \/ Goto(i, "answer", Failed)
    BY <1>9 DEF ThumbnailerEnds, written
  <2> QED  BY <1>1, <1>4, <1>5, <2>1, <2>2
<1>10. CASE JobReady(i)
  <2>1. job.stage = "answer" /\ Good(list, disk) /\ scroll \in Nat
    BY <1>10, LInvFacts DEF JobReady, Loading
  <2>2. CASE list' = FreeJob(list, i)
    <3> DEFINE m == FreeJob(list, i)
    <3>1. /\ Good(m, disk) /\ m = [list EXCEPT !.loading = m.loading, !.jobs = m.jobs]
          /\ m.jobs = RemoveAt(list.jobs, i) /\ (m.loading => list.loading)
      <4>1. i \in 1..Len(list.jobs) /\ list.jobs[i].stage # "none"
        BY <2>1
      <4> QED  BY <2>1, <4>1, FreeJobFacts
    <3> HIDE DEF m
    <3>2. m.waits = list.waits
      BY <3>1, LInvFacts DEF ListRecord
    <3>3. Kept
      BY <2>2, <3>1, <3>2 DEF Kept, m
    <3> QED  BY <1>10, <3>3, LInvFacts, KeptKeepsLInv DEF JobReady
  <2>3. CASE job.result # Cancelled /\ list' \in UpdateNextThumb(FreeJob(Answered(list, job), i))
    <3> DEFINE l == Answered(list, job)
               m == FreeJob(l, i)
    <3>1. Good(l, disk) /\ l.waits = list.waits /\ l.jobs = list.jobs
      BY <2>1, <2>3, AnsweredFacts
    <3> HIDE DEF l
    <3>6. i \in 1..Len(l.jobs) /\ l.jobs[i].stage # "none"
      BY <2>1, <3>1
    <3>2. /\ Good(m, disk) /\ m = [l EXCEPT !.loading = m.loading, !.jobs = m.jobs]
          /\ m.jobs = RemoveAt(l.jobs, i) /\ (m.loading => l.loading)
      <4>1. Good(l, disk)
        BY <3>1
      <4> QED  BY <3>6, <4>1, FreeJobFacts
    <3> HIDE DEF m
    <3>3. m.waits = list.waits
      BY <3>1, <3>2 DEF Good, ListRecord
    <3>4. list' \in UpdateNextThumb(m)
      BY <2>3 DEF l, m
    <3>5. Kept
      BY <2>1, <3>2, <3>3, <3>4, UpdateNextThumbFacts DEF Kept
    <3> QED  BY <1>10, <3>5, LInvFacts, KeptKeepsLInv DEF JobReady
  <2> QED  BY <1>10, <2>2, <2>3 DEF JobReady
<1> QED  BY <1>6, <1>7, <1>8, <1>9, <1>10

LEMMA DiskStep == LInv /\ (\E f \in Files : FileChanges(f) \/ Ages(f)) => LInv'
<1> SUFFICES ASSUME LInv, NEW f \in Files, FileChanges(f) \/ Ages(f)  PROVE LInv'
  OBVIOUS
<1>1. CASE FileChanges(f)
  <2>1. /\ disk' = [disk EXCEPT ![f] = disk[f] + 1] /\ disk[f] < MaxVersion /\ list' = list
        /\ scroll' = scroll /\ events' = events + 1 /\ young' = young \union {f}
    BY <1>1 DEF FileChanges, Event
  <2>2. disk[f] + 1 \in Versions /\ \A g \in Files : disk[g] \in Int
    BY <2>1, LInvFacts, ListAssumption DEF Versions
  <2>3. disk' \in [Files -> Versions]
    BY <2>1, <2>2, LInvFacts
  <2>4. \A g \in Files : disk[g] <= disk'[g]
    BY <2>1, <2>2, LInvFacts
  <2>5. Good(list, disk')
    BY <2>3, <2>4, LInvFacts, DiskGrows
  <2>6. list.waits <= events + 1
    BY LInvFacts, ListFields DEF LInv
  <2> QED  BY <2>1, <2>3, <2>5, <2>6, LInvFacts DEF LInv
<1>2. CASE Ages(f)
  BY <1>2 DEF Ages, LInv
<1> QED  BY <1>1, <1>2

LEMMA NextKeepsLInv == LInv /\ [Next]_vars => LInv'
<1> SUFFICES ASSUME LInv, [Next]_vars  PROVE LInv'
  OBVIOUS
<1>1. CASE UNCHANGED vars
  BY <1>1 DEF vars, LInv
<1> QED
  BY <1>1, CallsStep, CancelStep, CancelDoneStep, ScrollStep, RestartThumbUpdateStep,
     UpdateThumbsStoppedStep, StartThumbnailJobStep, JobStepsStep, DiskStep DEF Next

-----------------------------------------------------------------------------
(***************************************************************************)
(* The control of the thumbnailer: what a handler leaves of it.  A handler *)
(* that is steady keeps Awaits and does not strand the list.               *)
(***************************************************************************)
Steady(l, m) == Awaits(m) /\ (Asleep(m) => Asleep(l))

LEMMA SameControlSteady ==
    ASSUME NEW l, NEW m, Awaits(l), SameControl(l, m)
    PROVE  Steady(l, m)
BY DEF Steady, Awaits, Asleep, SameControl

(* What goes on is not stranded. *)
LEMMA OnwardSteady ==
    ASSUME NEW l, NEW m, Awaits(l), ~l.cancelling, Onward(l, m), ~Asleep(m)
    PROVE  Steady(l, m)
<1>1. CASE m.event \in {"restart", "stopped"} /\ m.jobs = l.jobs
  BY <1>1 DEF Onward, Awaits, Steady
<1>2. CASE /\ m.event = "start" /\ m.jobs # <<>>
           /\ ~m.jobs[1].cancelled /\ m.jobs[1].result # Cancelled
           /\ \A i \in 1..Len(m.jobs) : i = 1 \/ m.jobs[i].cancelled
  BY <1>2 DEF Onward, Awaits, Steady
<1>3. CASE m.event = l.event /\ m.jobs = l.jobs /\ ~m.loading
  BY <1>3 DEF Onward, Awaits, Steady
<1> QED  BY <1>1, <1>2, <1>3 DEF Onward

(* A list that is not cancelled calls the thumbnailer after its operations; one that is
   leaves nothing in the queue. *)
LEMMA ExecNextOpSteady ==
    ASSUME NEW d, NEW l, Good(l, d), Awaits(l), ~l.loading
    PROVE  LET m == ExecNextOp(l)
           IN  Awaits(m) /\ (~l.cancelling \/ Len(l.queue) = 1 => ~Asleep(m))
<1> DEFINE m == ExecNextOp(l)
<1>1. /\ m.jobs = l.jobs /\ m.event = l.event /\ m.cancelling = l.cancelling
      /\ m.loading = l.loading /\ (m.timer => l.timer \/ ~l.cancelling)
      /\ ~l.cancelling /\ ~l.loading => m.timer
      /\ Len(l.queue) = 1 => m.queue = <<>>
  BY ExecNextOpFacts
<1> HIDE DEF m
<1>2. Awaits(m)
  BY <1>1 DEF Awaits
<1>3. ~l.cancelling \/ Len(l.queue) = 1 => ~Asleep(m)
  BY <1>1 DEF Asleep
<1> QED  BY <1>2, <1>3 DEF m

(* An operation that comes from outside strands the list only if it is a new list of
   files. *)
LEMMA QueueOpSteady ==
    ASSUME NEW d, NEW l, Good(l, d), Awaits(l), NEW op \in Operation, OperationOK(op, d)
    PROVE  LET m == QueueOp(l, op)
           IN  Awaits(m) /\ (op.kind # "set" => Steady(l, m))
<1> DEFINE q == Queued(l, op)
           m == QueueOp(l, op)
<1>1. /\ Good(q, d) /\ q.jobs = l.jobs /\ q.loading = l.loading
      /\ q.cancelling = l.cancelling
      /\ \/ q.event = l.event /\ q.timer = l.timer
         \/ op.kind = "set" /\ q.event = "none" /\ ~q.timer
      /\ l.queue = <<>> \/ op.kind = "set" => Len(q.queue) = 1
  BY QueuedFacts
<1>2. m = IF l.loading THEN q ELSE ExecNextOp(q)
  BY QueueOpIs
<1> HIDE DEF q, m
<1>3. Awaits(q)
  BY <1>1 DEF Awaits
<1>4. CASE l.loading
  <2>1. m = q
    BY <1>2, <1>4
  <2>2. ASSUME op.kind # "set", Asleep(q)  PROVE Asleep(l)
    BY <1>1, <1>4, <2>2 DEF Asleep
  <2> QED  BY <1>3, <2>1, <2>2 DEF m, Steady
<1>5. CASE ~l.loading
  <2>1. m = ExecNextOp(q)
    BY <1>2, <1>5
  <2>2. Awaits(m) /\ (~q.cancelling \/ Len(q.queue) = 1 => ~Asleep(m))
    BY <1>1, <1>3, <1>5, <2>1, ExecNextOpSteady
  <2>3. ASSUME Asleep(m)  PROVE Asleep(l)
    <3>1. l.cancelling /\ l.queue # <<>>
      BY <1>1, <2>2, <2>3
    <3>2. \A i \in DOMAIN l.jobs : l.jobs[i].cancelled
      <4>1. l.jobs \in Seq(Job)
        BY ListFields DEF Good
      <4> QED  BY <3>1, <4>1 DEF Awaits
    <3> QED  BY <3>1, <3>2 DEF Awaits, Asleep
  <2> QED  BY <2>2, <2>3 DEF m, Steady
<1> QED  BY <1>4, <1>5

(* A job that was cancelled goes. *)
LEMMA FreeJobAwaits ==
    ASSUME NEW d, NEW l, Good(l, d), Awaits(l), NEW i \in 1..Len(l.jobs),
           l.jobs[i].stage # "none"
    PROVE  LET m == FreeJob(l, i)
           IN  Awaits(m) /\ (l.jobs[i].cancelled => Steady(l, m))
<1> DEFINE m == FreeJob(l, i)
           J == RemoveAt(l.jobs, i)
<1>1. /\ Good(m, d) /\ m = [l EXCEPT !.loading = m.loading, !.jobs = m.jobs]
      /\ m.jobs = J /\ (m.loading => l.loading)
  BY FreeJobFacts
<1> HIDE DEF m
<1>2. l \in ListRecord /\ l.jobs \in Seq(Job) /\ Len(l.jobs) \in Nat
  BY ListFields DEF Good
<1>3. /\ m.event = l.event /\ m.cancelling = l.cancelling /\ m.queue = l.queue
      /\ m.timer = l.timer
  BY <1>1, <1>2 DEF ListRecord
<1>4. /\ J \in Seq(Job) /\ Len(J) = Len(l.jobs) - 1
      /\ \A k \in 1..Len(l.jobs) - 1 : J[k] = l.jobs[IF k < i THEN k ELSE k + 1]
  BY <1>2, RemoveAtFacts
<1> HIDE DEF J
<1>5. \A k \in 1..Len(J) : \E n \in 1..Len(l.jobs) : J[k] = l.jobs[n]
  <2> TAKE k \in 1..Len(J)
  <2>1. CASE k < i
    <3>1. k \in 1..Len(l.jobs) - 1 /\ k \in 1..Len(l.jobs)
      BY <1>2, <1>4
    <3>2. J[k] = l.jobs[k]
      BY <1>4, <2>1, <3>1
    <3> QED  BY <3>1, <3>2
  <2>2. CASE ~ (k < i)
    <3>1. J[k] = l.jobs[k + 1] /\ k + 1 \in 1..Len(l.jobs)
      BY <1>2, <1>4, <2>2
    <3> QED  BY <3>1
  <2> QED  BY <2>1, <2>2
<1>6. \A n \in 1..Len(l.jobs) : n = i \/ \E k \in 1..Len(J) : J[k] = l.jobs[n]
  <2> TAKE n \in 1..Len(l.jobs)
  <2>1. CASE n < i
    BY <1>2, <1>4, <2>1
  <2>2. CASE n > i
    <3>1. n - 1 \in 1..Len(l.jobs) - 1 /\ ~ (n - 1 < i) /\ (n - 1) + 1 = n
      BY <1>2, <2>2
    <3>2. J[n - 1] = l.jobs[n] /\ n - 1 \in 1..Len(J)
      BY <1>4, <3>1
    <3> QED  BY <3>2
  <2> QED  BY <1>2, <2>1, <2>2
<1>7. ASSUME l.event = "start"  PROVE J # <<>> /\ ~J[1].cancelled
  <2>1. l.jobs[1].stage = "none" /\ i # 1 /\ ~l.jobs[1].cancelled
    BY <1>7 DEF Good, StartsNewest, Awaits
  <2>2. Len(J) >= 1 /\ J[1] = l.jobs[1]
    BY <1>2, <1>4, <2>1
  <2> QED  BY <1>4, <2>1, <2>2
<1>8. Awaits(m)
  BY <1>1, <1>3, <1>5, <1>7 DEF Awaits
<1>9. ASSUME l.jobs[i].cancelled, Asleep(m)  PROVE Asleep(l)
  <2>1. \A k \in 1..Len(J) : J[k].started => J[k].cancelled
    BY <1>1, <1>4, <1>9 DEF Asleep
  <2>2. \A n \in 1..Len(l.jobs) : l.jobs[n].started => l.jobs[n].cancelled
    BY <1>6, <1>9, <2>1
  <2>3. DOMAIN l.jobs = 1..Len(l.jobs)
    BY <1>2
  <2>4. (l.loading \/ l.queue # <<>>) /\ l.event = "none" /\ ~l.timer
    BY <1>1, <1>3, <1>9 DEF Asleep
  <2> QED  BY <2>2, <2>3, <2>4 DEF Asleep
<1> QED  BY <1>8, <1>9 DEF m, Steady

(* The answer of a job changes rows only. *)
LEMMA AnsweredSame ==
    ASSUME NEW l \in ListRecord, NEW job
    PROVE  SameControl(l, Answered(l, job))
<1> DEFINE f == job.file
           image == IF job.result = Failed THEN NoImage ELSE job.result
           row == IF job.inView THEN SetRow(l, f, job.pos, image) ELSE l
           m == [row EXCEPT !.disturbed = @ \/ job.cancelled \/ l.rows[f].error]
<1>1. Answered(l, job) = IF f \notin DOMAIN l.rows THEN l
                         ELSE IF job.result = Failed
                         THEN NoteFailed(m, f) ELSE NoteMade(m, f, job.inView)
  BY DEF Answered, NoteFailed, NoteMade
<1>2. row = [l EXCEPT !.rows = row.rows]
  <2>1. l = [l EXCEPT !.rows = l.rows]
    BY DEF ListRecord
  <2>2. CASE row = l
    BY <2>1, <2>2
  <2>3. CASE row = [l EXCEPT !.rows[f].shown = image]
    BY <2>3 DEF ListRecord
  <2> QED  BY <2>2, <2>3 DEF SetRow
<1> DEFINE R == row.rows
<1> HIDE DEF R
<1>3. row = [l EXCEPT !.rows = R]
  BY <1>2 DEF R
<1> HIDE DEF row
<1>4. m = [l EXCEPT !.rows = R, !.disturbed = m.disturbed]
  BY <1>3 DEF ListRecord
<1> DEFINE x == m.disturbed
<1> HIDE DEF x
<1>5. m = [l EXCEPT !.rows = R, !.disturbed = x]
  BY <1>4 DEF x
<1> HIDE DEF m, f
<1>6. /\ SameControl(l, NoteFailed(m, f)) /\ SameControl(l, NoteMade(m, f, job.inView))
  BY <1>5 DEF SameControl, NoteFailed, NoteMade, ListRecord
<1>7. SameControl(l, l)
  BY DEF SameControl
<1> QED  BY <1>1, <1>6, <1>7

LEMMA RunsSteady ==
    ASSUME NEW l, NEW m, Awaits(l), Runs(l, m)
    PROVE  Steady(l, m)
BY DEF Steady, Awaits, Asleep, Runs

-----------------------------------------------------------------------------
(* The steps, and the control *)

LEMMA CallSteady ==
    ASSUME LInv, Awaits(list), NEW kind \in Kinds \ {"rename"}, NEW fs \in Seq(Files),
           IsInjective(fs), Call(Op(kind, fs))
    PROVE  Awaits(list') /\ (kind # "set" => Steady(list, list'))
<1> DEFINE op == Op(kind, fs)
<1>1. op \in Operation /\ OperationOK(op, disk) /\ Good(list, disk)
  BY LInvFacts, OpFacts
<1>2. list' = QueueOp(list, op)
  BY DEF Call
<1>3. op.kind = kind
  BY DEF Op
<1> HIDE DEF op
<1> DEFINE m == QueueOp(list, op)
<1>4. Awaits(m) /\ (op.kind # "set" => Steady(list, m))
  BY <1>1, QueueOpSteady
<1> HIDE DEF m
<1> QED  BY <1>2, <1>3, <1>4 DEF m

\* the step that an operation of the user takes, with a new list of files
SetsFiles == \E fs \in SUBSET Files : Call(Op("set", SetToSeq(fs)))

LEMMA CallsSteady ==
    ASSUME LInv, Awaits(list), Calls
    PROVE  Awaits(list') /\ (SetsFiles \/ Steady(list, list'))
<1>1. CASE \E kind \in {"set", "filter"}, fs \in SUBSET Files : Call(Op(kind, SetToSeq(fs)))
  <2>1. PICK kind \in {"set", "filter"}, fs \in SUBSET Files : Call(Op(kind, SetToSeq(fs)))
    BY <1>1
  <2>2. SetToSeq(fs) \in Seq(Files) /\ IsInjective(SetToSeq(fs))
    BY SetToSeqOfFiles
  <2>3. kind \in Kinds \ {"rename"}
    BY DEF Kinds
  <2>4. Awaits(list') /\ (kind # "set" => Steady(list, list'))
    BY <2>1, <2>2, <2>3, CallSteady
  <2>5. kind = "set" => SetsFiles
    BY <2>1 DEF SetsFiles
  <2> QED  BY <2>4, <2>5
<1>2. CASE \E f \in Files, kind \in {"add", "delete", "update"} : Call(Op(kind, <<f>>))
  <2>1. PICK f \in Files, kind \in {"add", "delete", "update"} : Call(Op(kind, <<f>>))
    BY <1>2
  <2>2. <<f>> \in Seq(Files) /\ IsInjective(<<f>>)
    BY DEF IsInjective
  <2>3. kind \in Kinds \ {"rename"} /\ kind # "set"
    BY DEF Kinds
  <2> QED  BY <2>1, <2>2, <2>3, CallSteady
<1>3. CASE \E f, g \in Files : Rename(f, g)
  <2>1. PICK f \in Files, g \in Files : Rename(f, g)
    BY <1>3
  <2> DEFINE op == Op("rename", <<f, g>>)
             d == disk'
             m == QueueOp(list, op)
  <2>2. op \in Operation /\ op.kind = "rename" /\ OperationOK(op, d) /\ Good(list, d)
    BY <2>1, RenameOpFacts
  <2>3. list' = m
    BY <2>1 DEF Rename
  <2> HIDE DEF op, d
  <2>4. Awaits(m) /\ (op.kind # "set" => Steady(list, m))
    BY <2>2, QueueOpSteady
  <2> HIDE DEF m
  <2> QED  BY <2>2, <2>3, <2>4
<1>4. CASE \E kind \in {"sort", "enable"} : Call(Op(kind, <<>>))
  <2>1. PICK kind \in {"sort", "enable"} : Call(Op(kind, <<>>))
    BY <1>4
  <2>2. <<>> \in Seq(Files) /\ IsInjective(<<>>)
    BY DEF IsInjective
  <2>3. kind \in Kinds \ {"rename"} /\ kind # "set"
    BY DEF Kinds
  <2> QED  BY <2>1, <2>2, <2>3, CallSteady
<1> QED  BY <1>1, <1>2, <1>3, <1>4 DEF Calls

LEMMA CancelDoneSteady ==
    ASSUME LInv, Awaits(list), CancelDone
    PROVE  Steady(list, list')
<1> DEFINE m == list'
<1>1. list \in ListRecord
  BY LInvFacts
<1>2. m = [list EXCEPT !.cancelling = FALSE, !.waits = @ - 1]
  BY DEF CancelDone
<1> HIDE DEF m
<1>3. /\ m.jobs = list.jobs /\ m.event = list.event /\ m.cancelling = FALSE
      /\ m.loading = list.loading /\ m.queue = list.queue /\ m.timer = list.timer
  BY <1>1, <1>2 DEF ListRecord
<1>4. Steady(list, m)
  BY <1>3 DEF Steady, Awaits, Asleep
<1> QED  BY <1>4 DEF m

LEMMA ScrollSteady ==
    ASSUME LInv, Awaits(list), NEW pos, Scroll(pos)
    PROVE  Steady(list, list')
<1> DEFINE n == [list EXCEPT !.scan = Initialize]
           m == StartUpdateNextThumb(n)
<1>1. list \in ListRecord /\ Initialize \in Scan
  BY LInvFacts DEF Initialize, Scan
<1>2. /\ n \in ListRecord /\ n.jobs = list.jobs /\ n.event = list.event
      /\ n.cancelling = list.cancelling
      /\ n.loading = list.loading /\ n.queue = list.queue /\ n.timer = list.timer
  BY <1>1 DEF ListRecord
<1> HIDE DEF n
<1>3. Runs(n, m)
  BY <1>2, StartUpdateNextThumbRuns
<1> HIDE DEF m
<1>4. Runs(list, m)
  BY <1>2, <1>3 DEF Runs
<1>5. list' = m
  BY DEF Scroll, m, n
<1> QED  BY <1>4, <1>5, RunsSteady

(* The thumbnailer is called, and waits for nothing else. *)
LEMMA CalledSteady ==
    ASSUME NEW d, NEW l, Good(l, d), Awaits(l), l.timer \/ l.event \in {"restart", "stopped"},
           NEW timer \in BOOLEAN, NEW loading \in BOOLEAN
    PROVE  LET m == [l EXCEPT !.event = "none", !.timer = timer, !.loading = loading]
           IN  /\ Good(m, d) /\ Awaits(m) /\ ~m.cancelling /\ m.loading = loading
<1> DEFINE m == [l EXCEPT !.event = "none", !.timer = timer, !.loading = loading]
<1>1. l \in ListRecord
  BY DEF Good
<1>2. ~l.cancelling
  BY DEF Awaits
<1>3. Good(m, d)
  BY ControlFacts
<1>4. /\ m.jobs = l.jobs /\ m.event = "none" /\ m.cancelling = l.cancelling
      /\ m.loading = loading
  BY <1>1 DEF ListRecord
<1> HIDE DEF m
<1>5. Awaits(m)
  BY <1>2, <1>4 DEF Awaits
<1> QED  BY <1>2, <1>3, <1>4, <1>5 DEF m

LEMMA RestartThumbUpdateSteady ==
    ASSUME LInv, Awaits(list), RestartThumbUpdate
    PROVE  Steady(list, list')
<1> DEFINE l == [list EXCEPT !.event = "none", !.timer = FALSE, !.loading = TRUE]
           m == list'
<1>1. list.timer \/ list.event \in {"restart", "stopped"}
  BY DEF RestartThumbUpdate
<1>2. Good(l, disk) /\ Awaits(l) /\ ~l.cancelling
  BY <1>1, LInvFacts, CalledSteady
<1>3. m \in UpdateNextThumb(l)
  BY DEF RestartThumbUpdate
<1> HIDE DEF l, m
<1>4. Onward(l, m) /\ ~Asleep(m)
  BY <1>2, <1>3, LInvFacts, UpdateNextThumbFacts
<1>5. Awaits(m)
  BY <1>2, <1>4, OnwardSteady DEF Steady
<1> QED  BY <1>4, <1>5 DEF Steady, m

LEMMA UpdateThumbsStoppedSteady ==
    ASSUME LInv, Awaits(list), UpdateThumbsStopped
    PROVE  Steady(list, list')
<1> DEFINE l == [list EXCEPT !.event = "none", !.timer = list.timer, !.loading = FALSE]
           m == ExecNextOp(l)
<1>1. list.event \in {"restart", "stopped"} /\ list.timer \in BOOLEAN
  BY LInvFacts, ListFields DEF UpdateThumbsStopped
<1>2. Good(l, disk) /\ Awaits(l) /\ ~l.cancelling /\ l.loading = FALSE
  BY <1>1, LInvFacts, CalledSteady
<1>3. l = [list EXCEPT !.event = "none", !.loading = FALSE]
  BY LInvFacts DEF ListRecord
<1> HIDE DEF l
<1>4. list' = m
  BY <1>3 DEF UpdateThumbsStopped
<1>5. Awaits(m) /\ (~l.cancelling \/ Len(l.queue) = 1 => ~Asleep(m))
  BY <1>2, ExecNextOpSteady
<1> HIDE DEF m
<1> QED  BY <1>2, <1>4, <1>5 DEF Steady

LEMMA StartThumbnailJobSteady ==
    ASSUME LInv, Awaits(list), StartThumbnailJob
    PROVE  Steady(list, list')
<1>1. PICK next \in {<<"answer", Failed>>, <<"cache", NoImage>>, <<"original", NoImage>>} :
           list' = [list EXCEPT !.event = "none", !.jobs[1].started = TRUE,
                                !.jobs[1].stage = next[1], !.jobs[1].result = next[2]]
  BY DEF StartThumbnailJob
<1> DEFINE u == [list.jobs[1] EXCEPT !.started = TRUE, !.stage = next[1], !.result = next[2]]
           J == [list.jobs EXCEPT ![1] = u]
           m == list'
<1>2. /\ 1 \in 1..Len(list.jobs) /\ list \in ListRecord /\ list.jobs[1] \in Job
      /\ ~list.jobs[1].cancelled /\ ~list.cancelling
  <2>1. list.jobs # <<>> /\ ~list.jobs[1].cancelled /\ ~list.cancelling
    BY DEF StartThumbnailJob, Awaits
  <2> QED  BY <2>1, LInvFacts
<1>3. next[2] # Cancelled
  BY DEF NoImage, Failed, Cancelled
<1>4. u.started /\ ~u.cancelled /\ u.result # Cancelled
  <2> DEFINE j == list.jobs[1]
             stage == next[1]
             result == next[2]
  <2> HIDE DEF j, stage, result
  <2>1. [j EXCEPT !.started = TRUE, !.stage = stage, !.result = result].result = result
        /\ [j EXCEPT !.started = TRUE, !.stage = stage, !.result = result].started = TRUE
        /\ [j EXCEPT !.started = TRUE, !.stage = stage, !.result = result].cancelled = j.cancelled
    <3>1. j \in Job
      BY <1>2 DEF j
    <3> QED  BY <3>1 DEF Job
  <2> QED  BY <1>2, <1>3, <2>1 DEF j, stage, result
<1>5. m = [list EXCEPT !.event = "none", !.jobs = J]
  <2> DEFINE stage == next[1]
             result == next[2]
  <2>1. m = Staged(list, "none", 1, TRUE, stage, result)
    BY <1>1, <1>2, LInvFacts DEF ListRecord, Staged
  <2> HIDE DEF m, stage, result
  <2> DEFINE v == [list.jobs EXCEPT ![1].started = TRUE, ![1].stage = stage, ![1].result = result]
             k == [list.jobs EXCEPT ![1] = [list.jobs[1] EXCEPT !.started = TRUE,
                                               !.stage = stage, !.result = result]]
  <2>2. v = k
    BY <1>2, LInvFacts
  <2>3. m = [list EXCEPT !.event = "none", !.jobs = v]
    BY <1>2, <2>1 DEF ListRecord, Staged
  <2> HIDE DEF v, k
  <2>4. m = [list EXCEPT !.event = "none", !.jobs = k]
    BY <2>2, <2>3
  <2> QED  BY <2>4 DEF k, stage, result
<1>6. /\ Len(J) = Len(list.jobs) /\ DOMAIN J = 1..Len(list.jobs)
      /\ \A k \in 1..Len(list.jobs) : J[k] = IF k = 1 THEN u ELSE list.jobs[k]
  BY <1>2, LInvFacts
<1> HIDE DEF u, J, m
<1>7. m.jobs = J /\ m.event = "none" /\ m.cancelling = list.cancelling
  BY <1>2, <1>5 DEF ListRecord
<1>8. Awaits(m)
  BY <1>2, <1>4, <1>6, <1>7 DEF Awaits
<1>9. ~Asleep(m)
  BY <1>2, <1>4, <1>6, <1>7 DEF Asleep
<1> QED  BY <1>8, <1>9 DEF Steady, m

(* A load goes on: only one that was cancelled answers so. *)
LEMMA GotoSteady ==
    ASSUME LInv, Awaits(list), NEW i \in 1..Len(list.jobs), NEW stage, NEW result,
           result = Cancelled => list.jobs[i].cancelled,
           Goto(i, stage, result)
    PROVE  Steady(list, list')
<1> DEFINE u == [list.jobs[i] EXCEPT !.stage = stage, !.result = result]
           J == [list.jobs EXCEPT ![i] = u]
           m == list'
<1>1. list \in ListRecord /\ list.jobs[i] \in Job
  BY LInvFacts
<1>2. m = [list EXCEPT !.jobs = J]
  <2>1. m = [list EXCEPT !.jobs[i].stage = stage, !.jobs[i].result = result]
    BY DEF Goto
  <2> QED  BY <1>1, <2>1, LInvFacts DEF ListRecord
<1>3. /\ u.result = result /\ u.started = list.jobs[i].started
      /\ u.cancelled = list.jobs[i].cancelled
  BY <1>1 DEF Job
<1>4. /\ Len(J) = Len(list.jobs) /\ DOMAIN J = 1..Len(list.jobs)
      /\ \A k \in 1..Len(list.jobs) : J[k] = IF k = i THEN u ELSE list.jobs[k]
  BY LInvFacts
<1> HIDE DEF u, J, m
<1>5. /\ m.jobs = J /\ m.event = list.event /\ m.cancelling = list.cancelling
      /\ m.loading = list.loading /\ m.queue = list.queue /\ m.timer = list.timer
  BY <1>1, <1>2 DEF ListRecord
<1>6. \A k \in 1..Len(list.jobs) : /\ J[k].started = list.jobs[k].started
                                   /\ J[k].cancelled = list.jobs[k].cancelled
                                   /\ J[k].result = Cancelled => J[k].cancelled
  BY <1>3, <1>4 DEF Awaits
<1>7. Len(list.jobs) \in Nat /\ (list.jobs # <<>> => 1 \in 1..Len(list.jobs))
      /\ DOMAIN list.jobs = 1..Len(list.jobs)
  BY LInvFacts
<1>8. Awaits(m)
  <2>1. list.event = "start" => J # <<>> /\ ~J[1].cancelled
    BY <1>4, <1>6, <1>7 DEF Awaits
  <2>2. list.cancelling => \A k \in 1..Len(J) : J[k].cancelled
    BY <1>4, <1>6 DEF Awaits
  <2> QED  BY <1>4, <1>5, <1>6, <2>1, <2>2 DEF Awaits
<1>9. Asleep(m) => Asleep(list)
  BY <1>4, <1>5, <1>6, <1>7 DEF Asleep
<1> QED  BY <1>8, <1>9 DEF Steady, m

LEMMA JobReadySteady ==
    ASSUME LInv, Awaits(list), NEW i \in 1..Len(list.jobs), JobReady(i)
    PROVE  Steady(list, list')
<1> DEFINE job == list.jobs[i]
<1>1. job.stage = "answer" /\ Good(list, disk) /\ scroll \in Nat
  BY LInvFacts DEF JobReady, Loading
<1>2. CASE job.result = Cancelled \/ list.cancelling
  <2> DEFINE m == FreeJob(list, i)
  <2>1. job.cancelled
    BY <1>2 DEF Awaits
  <2>2. list' = m
    BY <1>2 DEF JobReady
  <2>3. Awaits(m) /\ (job.cancelled => Steady(list, m))
    BY <1>1, FreeJobAwaits
  <2> HIDE DEF m
  <2> QED  BY <2>1, <2>2, <2>3
<1>3. CASE job.result # Cancelled /\ ~list.cancelling
  <2> DEFINE a == Answered(list, job)
             l == FreeJob(a, i)
  <2>1. Good(a, disk) /\ a.jobs = list.jobs
    BY <1>1, <1>3, AnsweredFacts
  <2>2. SameControl(list, a)
    BY LInvFacts, AnsweredSame
  <2>3. list' \in UpdateNextThumb(l)
    BY <1>3 DEF JobReady
  <2> HIDE DEF a
  <2>4. Awaits(a)
    BY <2>2, SameControlSteady DEF Steady
  <2>5. i \in 1..Len(a.jobs) /\ a.jobs[i].stage # "none"
    BY <1>1, <2>1
  <2>6. /\ Good(l, disk) /\ l = [a EXCEPT !.loading = l.loading, !.jobs = l.jobs]
        /\ l.jobs = RemoveAt(a.jobs, i) /\ (l.loading => a.loading)
    <3>1. Good(a, disk)
      BY <2>1
    <3> QED  BY <2>5, <3>1, FreeJobFacts
  <2>7. Awaits(l)
    BY <2>1, <2>4, <2>5, FreeJobAwaits
  <2> HIDE DEF l
  <2>8. ~l.cancelling
    <3>1. l.cancelling = a.cancelling
      BY <2>1, <2>6 DEF Good, ListRecord
    <3> QED  BY <1>3, <2>2, <3>1 DEF SameControl
  <2> DEFINE m == list'
  <2>9. Onward(l, m) /\ ~Asleep(m)
    BY <1>1, <2>3, <2>6, <2>8, UpdateNextThumbFacts
  <2> HIDE DEF m
  <2>10. Awaits(m)
    BY <2>7, <2>8, <2>9, OnwardSteady DEF Steady
  <2> QED  BY <2>9, <2>10 DEF Steady, m
<1> QED  BY <1>2, <1>3

LEMMA JobStepsSteady ==
    ASSUME LInv, Awaits(list), JobSteps
    PROVE  Steady(list, list')
<1> SUFFICES ASSUME NEW i \in 1..Len(list.jobs),
                    \/ CacheImageReady(i)
                    \/ OriginalImageReady(i)
                    \/ ThumbnailerTimeout(i)
                    \/ ThumbnailerCancelled(i)
                    \/ ThumbnailerEnds(i)
                    \/ JobReady(i)
             PROVE  Steady(list, list')
  BY DEF JobSteps
<1> DEFINE job == list.jobs[i]
<1>1. disk[job.file] # Cancelled /\ NoImage # Cancelled /\ Failed # Cancelled
  <2>1. job.file \in Files
    BY LInvFacts DEF Job
  <2>2. disk[job.file] \in Versions
    BY <2>1, LInvFacts
  <2> QED  BY <2>2 DEF Versions, NoImage, Failed, Cancelled
<1>2. CASE CacheImageReady(i)
  <2>1. \A version \in job.data..disk[job.file] : version # Cancelled
    <3>1. job.data \in Versions
      BY LInvFacts DEF Job
    <3> QED  BY <3>1 DEF Versions, Cancelled
  <2>2. \/ \E version \in job.data..disk[job.file] : Goto(i, "answer", version)
        \/ Goto(i, "original", NoImage)
    BY <1>2 DEF CacheImageReady
  <2> QED  BY <1>1, <2>1, <2>2, GotoSteady
<1>3. CASE OriginalImageReady(i)
  <2>1. \/ Goto(i, "answer", disk[job.file])
        \/ job.cancelled /\ Goto(i, "answer", Cancelled)
        \/ Goto(i, "script", NoImage)
        \/ Goto(i, "answer", Failed)
    BY <1>3 DEF OriginalImageReady
  <2> QED  BY <1>1, <2>1, GotoSteady
<1>4. CASE ThumbnailerTimeout(i)
  <2>1. Goto(i, "killed", NoImage)
    BY <1>4 DEF ThumbnailerTimeout
  <2> QED  BY <1>1, <2>1, GotoSteady
<1>5. CASE ThumbnailerCancelled(i)
  <2>1. job.cancelled /\ Goto(i, "killed", Cancelled)
    BY <1>5 DEF ThumbnailerCancelled
  <2> QED  BY <2>1, GotoSteady
<1>6. CASE ThumbnailerEnds(i)
  <2>1. \/ job.result = Cancelled /\ Goto(i, "answer", Cancelled)
        \/ Goto(i, "answer", Failed) \/ Goto(i, "answer", disk[job.file])
    BY <1>6 DEF ThumbnailerEnds
  <2>2. job.result = Cancelled => job.cancelled
    BY DEF Awaits
  <2> QED  BY <1>1, <2>1, <2>2, GotoSteady
<1>7. CASE JobReady(i)
  BY <1>7, JobReadySteady
<1> QED  BY <1>2, <1>3, <1>4, <1>5, <1>6, <1>7

(* A step keeps Awaits, and only a new list of files or a cancellation strands the list. *)
LEMMA NextSteady ==
    ASSUME LInv, Awaits(list), [Next]_vars
    PROVE  Awaits(list') /\ (SetsFiles \/ Cancel \/ Steady(list, list'))
<1>1. CASE list' = list
  BY <1>1 DEF Steady
<1>2. CASE Calls
  BY <1>2, CallsSteady
<1>3. CASE Cancel
  BY <1>3, CancelStep
<1>4. CASE \E pos \in 1..Cardinality(Files) : Scroll(pos)
  BY <1>4, ScrollSteady DEF Steady
<1>5. CASE CancelDone \/ RestartThumbUpdate \/ UpdateThumbsStopped \/ StartThumbnailJob \/ JobSteps
  BY <1>5, CancelDoneSteady, RestartThumbUpdateSteady, UpdateThumbsStoppedSteady,
     StartThumbnailJobSteady, JobStepsSteady DEF Steady
<1>6. CASE \E f \in Files : FileChanges(f) \/ Ages(f)
  BY <1>1, <1>6 DEF FileChanges, Ages
<1>7. CASE UNCHANGED vars
  BY <1>1, <1>7 DEF vars
<1> QED  BY <1>2, <1>3, <1>4, <1>5, <1>6, <1>7 DEF Next

-----------------------------------------------------------------------------
(***************************************************************************)
(* The theorems                                                            *)
(***************************************************************************)

\* The inductive invariant of the file list: however the operations, the jobs and
\* the files on disk interleave, nothing in the list is newer than the disk, the
\* newest job is the only one that was not cancelled, and, unless the list was
\* disturbed, every job is for the data and the place that its row still has.
THEOREM ListInvariant == Spec => []LInv
<1>1. LInv /\ [Next]_vars => LInv'
  BY NextKeepsLInv
<1> QED  BY InitGood, <1>1, PTL DEF Spec

\* The rows of the store and the thumb_data are of the same files, each once, and
\* the private data of the list has its type.
THEOREM ListTypes == Spec => []ListTypeOK
<1>1. LInv => ListTypeOK
  <2> SUFFICES ASSUME LInv  PROVE ListTypeOK
    OBVIOUS
  <2>1. list \in ListRecord /\ Paired(list) /\ list.waits <= events /\ events \in Nat
    BY LInvFacts DEF LInv, Good
  <2>2. \A f \in DOMAIN list.rows : list.rows[f] \in Row
    BY <2>1, ListFields, RowMapFacts
  <2>3. \A i \in DOMAIN list.queue : list.queue[i].kind \in Kinds
    <3>1. list.queue \in Seq(Operation)
      BY <2>1, ListFields
    <3>2. \A i \in DOMAIN list.queue : list.queue[i] \in Operation
      BY <3>1
    <3> QED  BY <3>2 DEF Operation
  <2>4. list.scan.phase \in {"initialize", "scan", "completed"}
    BY <2>1, ListFields DEF Scan
  <2>5. list.waits \in 0..events
    BY <2>1, ListFields
  <2> QED  BY <2>1, <2>2, <2>3, <2>4, <2>5, ListFields, LInvFacts DEF ListTypeOK, Paired, Row
<1> QED  BY <1>1, ListInvariant, PTL

\* One thumbnail is wanted at a time: _gth_file_list_update_thumb cancels every job at
\* work before it starts another.
THEOREM OneLiveJobHolds == Spec => []OneLiveJob
<1>1. LInv => OneLiveJob
  BY DEF LInv, Good, Older, OneLiveJob
<1> QED  BY <1>1, ListInvariant, PTL

\* In a list that was not disturbed a thumbnail that counts as loaded is in its row
\* and is not older than the file's data, wherever the answer came from.
THEOREM LoadedIsShownHolds == Spec => []LoadedIsShown
<1>1. LInv => LoadedIsShown
  BY DEF LInv, Good, Undisturbed, RowShown, LoadedIsShown
<1> QED  BY <1>1, ListInvariant, PTL

\* What the thumbnailer goes on with: a list that was cancelled waits for its jobs
\* only, which were told, and a job that answers that it was cancelled was.
THEOREM ControlInvariant == Spec => [](LInv /\ Awaits(list))
<1>1. Init => LInv /\ Awaits(list)
  <2>1. Init => Awaits(list)
    BY DEF Init, Awaits
  <2> QED  BY <2>1, InitGood
<1>2. (LInv /\ Awaits(list)) /\ [Next]_vars => (LInv /\ Awaits(list))'
  BY NextKeepsLInv, NextSteady
<1> QED  BY <1>1, <1>2, PTL DEF Spec

\* Only gth_file_list_set_files, gth_file_list_clear and gth_file_list_cancel, which remove
\* the callback that the list waits for, leave it loading with nothing that goes on.
THEOREM OnlyClearingStrandsHolds == Spec => OnlyClearingStrands
<1>1. LInv /\ Awaits(list) /\ [Next]_vars =>
          [~Stranded /\ Stranded' =>
               (\E fs \in SUBSET Files : Call(Op("set", SetToSeq(fs)))) \/ Cancel]_vars
  <2> SUFFICES ASSUME LInv, Awaits(list), [Next]_vars, ~Stranded, Stranded'
               PROVE  (\E fs \in SUBSET Files : Call(Op("set", SetToSeq(fs)))) \/ Cancel
    OBVIOUS
  <2>1. Stranded = Asleep(list) /\ Stranded' = Asleep(list')
    BY DEF Stranded, Asleep
  <2>2. SetsFiles \/ Cancel \/ Steady(list, list')
    BY NextSteady
  <2>3. ~Asleep(list) /\ Asleep(list')
    BY <2>1
  <2> QED  BY <2>2, <2>3 DEF Steady, SetsFiles
<1> QED  BY <1>1, ControlInvariant, PTL DEF Spec, OnlyClearingStrands
=============================================================================
