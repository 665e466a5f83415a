---------------------------- MODULE Tasks_proofs ----------------------------
(***************************************************************************)
(* Theorems about Tasks and FileWrite, for any number of tasks, chunks,    *)
(* write errors and requests.                                              *)
(*                                                                         *)
(* What a step does to one task is one of a few moves (Moves), whatever    *)
(* the other tasks, the page and the user do; that is shown once, action   *)
(* by action, and everything else follows from the moves.                  *)
(***************************************************************************)
EXTENDS Tasks, SequenceTheorems, TLAPS

\* What is true of the file of a task at any time.  WrittenPrefix alone is not
\* inductive: the first write begins at the start of an empty stream, and the file
\* is that of the flush before.
WriteOK(t) ==
    /\ out[t] \in WriteRecord
    /\ - out[t].failed <= out[t].written
    /\ out[t].at \in {"idle", "opening"} => out[t].written = 0 /\ out[t].stream = <<>>
    /\ out[t].at = "flushed" /\ out[t].failed = 0 => out[t].file = Buffer
    /\ WrittenPrefix(t)

\* What is true of a task: the events that it waits for, what its kind does, and
\* that only the end of a task changes the page and only writing changes the file.
JobOK(t) ==
    /\ job[t] \in JobRecord
    /\ job[t].timer <=> job[t].at = "thread"
    /\ job[t].thread = "running" => job[t].at = "thread"
    /\ job[t].at \in {"thread", "leaving"} => job[t].kind \in {"edit", "apply"}
    /\ job[t].at \in {"encoding", "writing"} => job[t].kind = "save"
    /\ job[t].at = "writing" <=> out[t].at # "idle"
    /\ t \in background <=> Running(t)
    /\ t \in applied => job[t].at = "over"
    /\ out[t].file # NotWritten => job[t].at \in {"writing", "over"}
    /\ job[t].kind = "save" /\ job[t].at = "over" /\ ~ job[t].error /\ out[t].failed = 0
       => out[t].file = Buffer
    /\ WriteOK(t)

\* The rest of the window.
WindowOK ==
    /\ DOMAIN job = Jobs /\ job = [t \in Jobs |-> job[t]]
    /\ DOMAIN out = Jobs /\ out = [t \in Jobs |-> out[t]]
    /\ background \subseteq Jobs
    /\ applied \subseteq Jobs
    /\ closing \in {"open", "cancelling", "lists", "destroyed"}
    /\ closer \in background \union {NoJob}
    /\ crashed \in BOOLEAN
    /\ latest \in 0..MaxRequests

\* The inductive invariant.
TInv == WindowOK /\ \A t \in Jobs : JobOK(t)

-----------------------------------------------------------------------------
(* The moves of a task *)

\* Its file, and what it gave to the page, stay.
Untouched(t) == out'[t] = out[t] /\ (t \in applied' <=> t \in applied)
Listed(t) == t \in background' <=> t \in background

\* The step is about something else, or cancels the task.
Rests(t) ==
    /\ Untouched(t)
    /\ Listed(t)
    /\ job'[t] = job[t] \/ (Running(t) /\ job'[t] = Cancelled(job[t]))

Starts(t) ==
    /\ job[t].at = "new"
    /\ Untouched(t)
    /\ t \in background'
    /\ \/ job'[t] = ExecThread([job[t] EXCEPT !.kind = "apply"])
       \/ /\ latest + 1 \in 0..MaxRequests
          /\ \E k \in Kinds \ {"apply"} :
                job'[t] = [job[t] EXCEPT !.kind = k, !.at = "loading", !.request = latest + 1]

GetsImage(t) ==
    /\ job[t].at = "loading"
    /\ Untouched(t)
    /\ Listed(t)
    /\ \/ job[t].kind = "edit" /\ job'[t] = ExecThread(job[t])
       \/ job[t].kind = "save" /\ job'[t] = [job[t] EXCEPT !.at = "encoding"]

Works(t) ==
    /\ Untouched(t)
    /\ Listed(t)
    /\ \/ job[t].thread = "running" /\ job'[t] = [job[t] EXCEPT !.thread = "ended"]
       \/ /\ job[t].timer
          /\ job[t].thread = "ended"
          /\ job'[t] = [job[t] EXCEPT !.timer = FALSE, !.at = "leaving", !.error = job[t].async]

BeginsWriting(t) ==
    /\ job[t].at = "encoding"
    /\ ~ job[t].cancelled
    /\ job'[t] = [job[t] EXCEPT !.at = "writing"]
    /\ out'[t] = [out[t] EXCEPT !.at = "opening", !.refused = FALSE]
    /\ t \in applied' <=> t \in applied
    /\ Listed(t)

Writes(t) ==
    /\ job'[t] = job[t]
    /\ t \in applied' <=> t \in applied
    /\ Listed(t)
    /\ \/ Opened(t, job[t].cancelled)
       \/ \E n \in 1..Size + MaxErrors : Wrote(t, n, job[t].cancelled)
       \/ WriteFails(t, job[t].cancelled)
       \/ Flushed(t)

\* The task is over.  A save ends without an error only after the flush.
Ends(t, error) ==
    /\ job'[t] = Over(job[t], error)
    /\ t \notin background'
    /\ t \in applied' => t \in applied \/ ~ error
    /\ \/ /\ job[t].at \in {"loading", "encoding"}
          /\ job[t].kind = "save" => error
          /\ out'[t] = out[t]
       \/ job[t].at = "leaving" /\ error = job[t].error /\ out'[t] = out[t]
       \/ /\ out[t].at \in {"opening", "flushed"}
          /\ out[t].at = "opening" => error
          /\ out'[t] = Ended(out[t])

Moves(t) ==
    \/ Rests(t) \/ Starts(t) \/ GetsImage(t) \/ Works(t) \/ BeginsWriting(t) \/ Writes(t)
    \/ \E error \in BOOLEAN : Ends(t, error)

\* The window, while the tasks move.
WindowMoves ==
    /\ WindowOK'
    /\ closing' \in {"lists", "destroyed"} => closing \in {"lists", "destroyed"} \/ background = {}

-----------------------------------------------------------------------------
(* Writing *)

\* A write continues the row of chunks.
LEMMA ChunksJoin ==
    ASSUME NEW w \in Int, NEW n \in Nat, w >= 0
    PROVE  Chunks(1, w) \o Chunks(w + 1, n) = Chunks(1, w + n)
<1>1. /\ Chunks(1, w) \in Seq(Int) /\ Len(Chunks(1, w)) = w
      /\ Chunks(w + 1, n) \in Seq(Int) /\ Len(Chunks(w + 1, n)) = n
      /\ Chunks(1, w + n) \in Seq(Int) /\ Len(Chunks(1, w + n)) = w + n
  BY DEF Chunks
<1>2. /\ Chunks(1, w) \o Chunks(w + 1, n) \in Seq(Int)
      /\ Len(Chunks(1, w) \o Chunks(w + 1, n)) = w + n
      /\ \A k \in 1 .. w + n : (Chunks(1, w) \o Chunks(w + 1, n))[k] =
            IF k <= w THEN Chunks(1, w)[k] ELSE Chunks(w + 1, n)[k - w]
  <2> DEFINE p == Chunks(1, w)
             q == Chunks(w + 1, n)
  <2>1. p \in Seq(Int) /\ q \in Seq(Int) /\ Len(p) = w /\ Len(q) = n
    BY <1>1
  <2> HIDE DEF p, q
  <2>2. /\ p \o q \in Seq(Int)
        /\ Len(p \o q) = Len(p) + Len(q)
        /\ \A k \in 1 .. Len(p) + Len(q) :
              (p \o q)[k] = IF k <= Len(p) THEN p[k] ELSE q[k - Len(p)]
    BY <2>1, ConcatProperties
  <2>3. /\ p \o q \in Seq(Int)
        /\ Len(p \o q) = w + n
        /\ \A k \in 1 .. w + n : (p \o q)[k] = IF k <= w THEN p[k] ELSE q[k - w]
    BY <2>1, <2>2, Zenon
  <2>4. QED
    BY <2>3 DEF p, q
<1>3. \A k \in 1 .. w + n :
        (IF k <= w THEN Chunks(1, w)[k] ELSE Chunks(w + 1, n)[k - w]) = Chunks(1, w + n)[k]
  BY DEF Chunks
<1>4. \A k \in 1 .. w + n : (Chunks(1, w) \o Chunks(w + 1, n))[k] = Chunks(1, w + n)[k]
  BY <1>2, <1>3
<1>5. QED
  BY <1>1, <1>2, <1>4, SeqEqual

LEMMA ChunksType ==
    ASSUME NEW w \in - MaxErrors .. Size, NEW n \in 1 .. Size - w
    PROVE  Chunks(w + 1, n) \in Seq(- MaxErrors .. Size)
BY WriteAssumption DEF Chunks, WriteAssumption

\* Every step of a write keeps WriteOK, be it short, failed, cancelled or the last.
LEMMA WriteKeepsOK ==
    ASSUME NEW t \in Jobs, WriteOK(t), DOMAIN out = Jobs, NEW c \in BOOLEAN,
           \/ Opened(t, c)
           \/ \E n \in 1..Size + MaxErrors : Wrote(t, n, c)
           \/ WriteFails(t, c)
           \/ Flushed(t)
    PROVE  /\ WriteOK(t)'
           /\ out[t].at # "idle" /\ out'[t].at # "idle"
<1>1. CASE Opened(t, c)
  BY <1>1, WriteAssumption DEF Opened, WriteOK, WriteRecord, WrittenPrefix, WriteStates, WriteAssumption
<1>2. ASSUME NEW n \in 1..Size + MaxErrors, Wrote(t, n, c)
      PROVE  WriteOK(t)' /\ out[t].at # "idle" /\ out'[t].at # "idle"
  <2> DEFINE o == out[t]
  <2>1. /\ o.at = "writing" /\ o \in WriteRecord /\ n \in 1 .. Size - o.written
        /\ out'[t] = [o EXCEPT !.at = NextCall(o.written + n), !.refused = c,
                               !.written = o.written + n,
                               !.stream = o.stream \o Chunks(o.written + 1, n)]
    BY <1>2 DEF Wrote, WriteOK
  <2>2. Chunks(o.written + 1, n) \in Seq(- MaxErrors .. Size)
    BY <2>1, ChunksType DEF WriteRecord
  <2>3. o.failed = 0 => o.stream \o Chunks(o.written + 1, n) = Chunks(1, o.written + n)
    <3> SUFFICES ASSUME o.failed = 0 PROVE o.stream \o Chunks(o.written + 1, n) = Chunks(1, o.written + n)
      OBVIOUS
    <3>1. o.written \in Int /\ o.written >= 0 /\ n \in Nat /\ o.stream = Chunks(1, o.written)
      BY <2>1, WriteAssumption DEF WriteOK, WriteRecord, WrittenPrefix, WriteAssumption
    <3>2. QED
      BY <3>1, ChunksJoin
  <2>4. /\ out'[t].at = NextCall(o.written + n)
        /\ out'[t].written = o.written + n
        /\ out'[t].stream = o.stream \o Chunks(o.written + 1, n)
        /\ out'[t].refused = c
        /\ out'[t].failed = o.failed /\ out'[t].file = o.file /\ out'[t].error = o.error
    BY <2>1 DEF WriteRecord
  <2>5. out'[t] \in WriteRecord /\ - o.failed <= o.written + n
    <3>1. NextCall(o.written + n) \in WriteStates
      BY DEF NextCall, WriteStates
    <3>2. o.written + n \in - MaxErrors .. Size
      BY <2>1, WriteAssumption DEF WriteRecord, WriteAssumption
    <3>3. o.stream \o Chunks(o.written + 1, n) \in Seq(- MaxErrors .. Size)
      BY <2>1, <2>2 DEF WriteRecord
    <3>4. - o.failed <= o.written + n
      BY <2>1, WriteAssumption DEF WriteOK, WriteRecord, WriteAssumption
    <3>5. QED
      BY <2>1, <3>1, <3>2, <3>3, <3>4 DEF WriteRecord
  <2>6. out'[t].at \in {"writing", "flushing"} /\ (out'[t].at = "flushing" => o.written + n = Size)
    BY <2>4 DEF NextCall
  <2>7. WrittenPrefix(t)'
    BY <2>1, <2>3, <2>4, <2>6 DEF WrittenPrefix, WriteOK
  <2>8. QED
    BY <2>1, <2>4, <2>5, <2>6, <2>7 DEF WriteOK
<1>3. CASE WriteFails(t, c)
  BY <1>3, WriteAssumption DEF WriteFails, WriteOK, WriteRecord, WrittenPrefix, WriteStates, WriteAssumption
<1>4. CASE Flushed(t)
  <2>1. PICK error \in BOOLEAN :
          out' = [out EXCEPT ![t].at = "flushed", ![t].error = error, ![t].file = out[t].stream]
    BY <1>4 DEF Flushed
  <2>2. out[t].at = "flushing"
    BY <1>4 DEF Flushed
  <2>3. out[t].failed = 0 => out[t].stream = Buffer
    BY <2>2 DEF WriteOK, WrittenPrefix, Buffer
  <2>4. QED
    BY <2>1, <2>2, <2>3 DEF WriteOK, WriteRecord, WrittenPrefix, WriteStates
<1>5. QED
  BY <1>1, <1>2, <1>3, <1>4

-----------------------------------------------------------------------------
(* The moves keep the invariant *)

\* What cancelling leaves of a task.
LEMMA CancelledFacts ==
    ASSUME NEW j \in JobRecord
    PROVE  /\ Cancelled(j) \in JobRecord
           /\ Cancelled(j).kind = j.kind /\ Cancelled(j).at = j.at
           /\ Cancelled(j).thread = j.thread /\ Cancelled(j).timer = j.timer
           /\ Cancelled(j).error = j.error /\ Cancelled(j).cancelled = TRUE
           /\ Cancelled(j).async = (j.kind # "save")
BY DEF Cancelled, JobRecord

LEMMA OverFacts ==
    ASSUME NEW j \in JobRecord, NEW e \in BOOLEAN
    PROVE  /\ Over(j, e) \in JobRecord
           /\ Over(j, e).kind = j.kind /\ Over(j, e).at = "over" /\ Over(j, e).error = e
           /\ Over(j, e).timer = FALSE
           /\ Over(j, e).thread = "running" => j.thread = "running"
<1>1. 0 \in 0..MaxRequests
  BY TasksAssumption DEF TasksAssumption
<1>2. QED
  BY <1>1 DEF Over, JobRecord, Places

LEMMA EndedFacts ==
    ASSUME NEW t \in Jobs, WriteOK(t), out[t].at \in {"opening", "flushed"}, out'[t] = Ended(out[t])
    PROVE  /\ WriteOK(t)'
           /\ out'[t].at = "idle" /\ out'[t].file = out[t].file /\ out'[t].failed = out[t].failed
<1>0. out[t] \in WriteRecord
  BY DEF WriteOK
<1>1. /\ out'[t].at = "idle" /\ out'[t].written = 0 /\ out'[t].stream = <<>>
      /\ out'[t].refused = FALSE /\ out'[t].error = FALSE
      /\ out'[t].file = out[t].file /\ out'[t].failed = out[t].failed
      /\ out'[t] \in WriteRecord
  <2>1. 0 \in - MaxErrors .. Size /\ <<>> \in Seq(- MaxErrors .. Size)
    BY WriteAssumption DEF WriteAssumption
  <2>2. QED
    BY <1>0, <2>1 DEF Ended, WriteRecord, WriteStates
<1>2. <<>> = Chunks(1, 0)
  BY DEF Chunks
<1>3. - out'[t].failed <= out'[t].written
  BY <1>1, WriteAssumption DEF WriteOK, WriteRecord, WriteAssumption
<1>4. WrittenPrefix(t)'
  BY <1>1, <1>2 DEF WriteOK, WrittenPrefix
<1>5. QED
  BY <1>1, <1>3, <1>4 DEF WriteOK

LEMMA MovesKeepOK ==
    ASSUME TInv, NEW t \in Jobs, Moves(t)
    PROVE  JobOK(t)'
<1> DEFINE j == job[t]
<1>1. JobOK(t) /\ j \in JobRecord /\ WriteOK(t)
  BY DEF TInv, JobOK
<1>2. ASSUME out'[t] = out[t] PROVE WriteOK(t)' /\ out'[t].file = out[t].file
  BY <1>1, <1>2 DEF WriteOK, WrittenPrefix
<1>3. CASE Rests(t)
  <2>1. CASE job'[t] = j
    BY <1>1, <1>2, <1>3, <2>1 DEF Rests, Untouched, Listed, JobOK, Running
  <2>2. CASE Running(t) /\ job'[t] = Cancelled(j)
    <3>1. /\ job'[t] \in JobRecord /\ job'[t].kind = j.kind /\ job'[t].at = j.at
          /\ job'[t].thread = j.thread /\ job'[t].timer = j.timer /\ job'[t].error = j.error
      BY <1>1, <2>2, CancelledFacts
    <3>2. QED
      BY <1>1, <1>2, <1>3, <3>1 DEF Rests, Untouched, Listed, JobOK, Running
  <2>3. QED
    BY <1>3, <2>1, <2>2 DEF Rests
<1>4. CASE Starts(t)
  <2>1. /\ job'[t] \in JobRecord
        /\ \/ /\ job'[t].at = "thread" /\ job'[t].kind = "apply"
              /\ job'[t].timer = TRUE
           \/ job'[t].at = "loading" /\ job'[t].timer = j.timer /\ job'[t].thread = j.thread
    BY <1>1, <1>4 DEF Starts, ExecThread, JobRecord, Kinds, Places
  <2>2. Running(t)' /\ t \in background' /\ t \notin applied' /\ out'[t] = out[t]
        /\ out[t].at = "idle" /\ out[t].file = NotWritten
    BY <1>1, <1>4, <2>1 DEF Starts, JobOK, Running, Untouched
  <2>3. QED
    BY <1>1, <1>2, <1>4, <2>1, <2>2 DEF Starts, JobOK
<1>5. CASE GetsImage(t)
  <2>1. /\ job'[t] \in JobRecord /\ job'[t].kind = j.kind
        /\ \/ job'[t].at = "thread" /\ job'[t].timer = TRUE /\ j.kind = "edit"
           \/ /\ job'[t].at = "encoding" /\ job'[t].timer = j.timer /\ job'[t].thread = j.thread
              /\ j.kind = "save"
    BY <1>1, <1>5 DEF GetsImage, ExecThread, JobRecord, Kinds, Places
  <2>2. QED
    BY <1>1, <1>2, <1>5, <2>1 DEF GetsImage, JobOK, Running, Untouched, Listed
<1>6. CASE Works(t)
  <2>1. CASE j.thread = "running" /\ job'[t] = [j EXCEPT !.thread = "ended"]
    <3>1. /\ job'[t] \in JobRecord /\ job'[t].kind = j.kind /\ job'[t].at = j.at
          /\ job'[t].timer = j.timer /\ job'[t].thread = "ended" /\ job'[t].error = j.error
      BY <1>1, <2>1 DEF JobRecord
    <3>2. QED
      BY <1>1, <1>2, <1>6, <3>1 DEF Works, JobOK, Running, Untouched, Listed
  <2>2. CASE /\ j.timer /\ j.thread = "ended"
             /\ job'[t] = [j EXCEPT !.timer = FALSE, !.at = "leaving", !.error = j.async]
    <3>1. /\ job'[t] \in JobRecord /\ job'[t].kind = j.kind /\ job'[t].at = "leaving"
          /\ job'[t].timer = FALSE /\ job'[t].thread = "ended"
      <4>1. j \in JobRecord /\ j.async \in BOOLEAN
        BY <1>1 DEF JobRecord
      <4>2. job'[t].at = "leaving" /\ job'[t].timer = FALSE /\ job'[t].thread = "ended" /\ job'[t].kind = j.kind
        BY <2>2, <4>1 DEF JobRecord
      <4>3. \A e \in BOOLEAN : [j EXCEPT !.timer = FALSE, !.at = "leaving", !.error = e] \in JobRecord
        <5>1. [j EXCEPT !.timer = FALSE, !.at = "leaving", !.error = TRUE] \in JobRecord
          BY <4>1 DEF JobRecord, Places
        <5>2. [j EXCEPT !.timer = FALSE, !.at = "leaving", !.error = FALSE] \in JobRecord
          BY <4>1 DEF JobRecord, Places
        <5>3. QED
          BY <5>1, <5>2
      <4>4. QED
        BY <2>2, <4>1, <4>2, <4>3
    <3>2. QED
      BY <1>1, <1>2, <1>6, <2>2, <3>1 DEF Works, JobOK, Running, Untouched, Listed
  <2>3. QED
    BY <1>6, <2>1, <2>2 DEF Works
<1>7. CASE BeginsWriting(t)
  <2>1. /\ job'[t] \in JobRecord /\ job'[t].kind = j.kind /\ job'[t].at = "writing"
        /\ job'[t].timer = j.timer /\ job'[t].thread = j.thread
    BY <1>1, <1>7 DEF BeginsWriting, JobRecord, Places
  <2>2. /\ out'[t].at = "opening" /\ out'[t] \in WriteRecord
        /\ out'[t].written = out[t].written /\ out'[t].stream = out[t].stream
        /\ out'[t].failed = out[t].failed /\ out'[t].file = out[t].file
    BY <1>1, <1>7 DEF BeginsWriting, WriteOK, WriteRecord, WriteStates
  <2>3. out[t].at = "idle"
    BY <1>1, <1>7 DEF BeginsWriting, JobOK
  <2>4. WriteOK(t)'
    BY <1>1, <2>2, <2>3 DEF WriteOK, WrittenPrefix
  <2>5. QED
    BY <1>1, <1>7, <2>1, <2>2, <2>3, <2>4 DEF BeginsWriting, JobOK, Running, Listed
<1>8. CASE Writes(t)
  <2>1. WriteOK(t)' /\ out[t].at # "idle" /\ out'[t].at # "idle"
    BY <1>1, <1>8, WriteKeepsOK DEF Writes, TInv, WindowOK, JobRecord
  <2>2. j.at = "writing"
    BY <1>1, <2>1 DEF JobOK
  <2>3. QED
    BY <1>1, <1>8, <2>1, <2>2 DEF Writes, JobOK, Running, Listed
<1>9. ASSUME NEW error \in BOOLEAN, Ends(t, error) PROVE JobOK(t)'
  <2>1. /\ job'[t] \in JobRecord /\ job'[t].kind = j.kind /\ job'[t].at = "over"
        /\ job'[t].error = error /\ job'[t].timer = FALSE
        /\ job'[t].thread = "running" => j.thread = "running"
    <3>1. job'[t] = Over(j, error)
      BY <1>9 DEF Ends
    <3>2. /\ Over(j, error) \in JobRecord
          /\ Over(j, error).kind = j.kind /\ Over(j, error).at = "over"
          /\ Over(j, error).error = error /\ Over(j, error).timer = FALSE
          /\ Over(j, error).thread = "running" => j.thread = "running"
      BY <1>1, OverFacts, Zenon
    <3>3. QED
      BY <3>1, <3>2, Zenon
  <2>2. ~ Running(t)' /\ t \notin background'
    BY <1>9, <2>1 DEF Running, Ends
  <2>3. CASE /\ j.at \in {"loading", "encoding"} /\ (j.kind = "save" => error)
             /\ out'[t] = out[t]
    BY <1>1, <1>2, <2>1, <2>2, <2>3 DEF JobOK
  <2>4. CASE j.at = "leaving" /\ out'[t] = out[t]
    BY <1>1, <1>2, <2>1, <2>2, <2>4 DEF JobOK
  <2>5. CASE /\ out[t].at \in {"opening", "flushed"} /\ (out[t].at = "opening" => error)
             /\ out'[t] = Ended(out[t])
    <3>1. /\ WriteOK(t)' /\ out'[t].at = "idle"
          /\ out'[t].file = out[t].file /\ out'[t].failed = out[t].failed
      BY <1>1, <2>5, EndedFacts
    <3>2. j.at = "writing"
      BY <1>1, <2>5 DEF JobOK
    <3>3. ~ error /\ out'[t].failed = 0 => out'[t].file = Buffer
      BY <1>1, <2>5, <3>1 DEF WriteOK
    <3>4. Buffer' = Buffer
      OBVIOUS
    <3>5. QED
      BY <1>1, <2>1, <2>2, <3>1, <3>2, <3>3 DEF JobOK
  <2>6. QED
    BY <1>9, <2>3, <2>4, <2>5 DEF Ends
<1>10. QED
  BY <1>3, <1>4, <1>5, <1>6, <1>7, <1>8, <1>9 DEF Moves

-----------------------------------------------------------------------------
(* The steps are moves *)

\* The parts of WindowOK that a step has to see to.
Frame ==
    /\ DOMAIN job' = Jobs /\ job' = [t \in Jobs |-> job'[t]]
    /\ background' \subseteq Jobs
    /\ applied' \subseteq Jobs
    /\ closing' \in {"open", "cancelling", "lists", "destroyed"}
    /\ closing' \in {"lists", "destroyed"} => closing \in {"lists", "destroyed"}

\* What happens to the other tasks.
Others(t) ==
    \A u \in Jobs \ {t} :
        /\ u \in applied' <=> u \in applied
        /\ Listed(u)
        /\ job'[u] = job[u] \/ (Running(u) /\ job'[u] = Cancelled(job[u]))

LEMMA RealCloseFacts ==
    ASSUME NEW jobs, DOMAIN jobs = Jobs, RealClose(jobs)
    PROVE  /\ closing' = "cancelling"
           /\ DOMAIN job' = Jobs /\ job' = [t \in Jobs |-> job'[t]]
           /\ \A t \in Jobs : \/ job'[t] = jobs[t]
                              \/ jobs[t].at \notin {"new", "over"} /\ job'[t] = Cancelled(jobs[t])
BY DEF RealClose, CancelAll

LEMMA CompleteFacts ==
    ASSUME TInv, NEW t \in Jobs, NEW error \in BOOLEAN, Running(t), Complete(t, error)
    PROVE  /\ job'[t] = Over(job[t], error)
           /\ t \notin background'
           /\ t \in applied' => t \in applied \/ ~ error
           /\ Others(t)
           /\ Frame
           /\ closer' \in background' \union {NoJob}
           /\ crashed' \in BOOLEAN
<1> DEFINE ended == [job EXCEPT ![t] = Over(@, error)]
<1>1. DOMAIN job = Jobs /\ job = [x \in Jobs |-> job[x]] /\ job[t] \in JobRecord
  BY DEF TInv, WindowOK, JobOK
<1>2. /\ DOMAIN ended = Jobs /\ ended[t] = Over(job[t], error) /\ ended[t].at = "over"
      /\ \A u \in Jobs \ {t} : ended[u] = job[u]
      /\ ended = [x \in Jobs |-> ended[x]]
  BY <1>1, OverFacts
<1>3. /\ background' = background \ {t} /\ crashed' = crashed
      /\ closer' = IF t = closer THEN NoJob ELSE closer
      /\ applied' = IF job[t].kind \in {"edit", "apply"} /\ ~ error
                    THEN applied \union {t} ELSE applied
      /\ RealClose(ended) \/ (job' = ended /\ closing' = closing)
  BY DEF Complete, SetDestination
<1>4. /\ DOMAIN job' = Jobs /\ job' = [x \in Jobs |-> job'[x]]
      /\ job'[t] = ended[t]
      /\ \A u \in Jobs \ {t} : \/ job'[u] = job[u]
                               \/ Running(u) /\ job'[u] = Cancelled(job[u])
      /\ closing' \in {closing, "cancelling"}
  <2>1. CASE RealClose(ended)
    BY <1>2, <2>1, RealCloseFacts DEF Running
  <2>2. CASE job' = ended /\ closing' = closing
    BY <1>2, <2>2
  <2>3. QED
    BY <1>3, <2>1, <2>2
<1>5. Frame
  BY <1>3, <1>4 DEF Frame, TInv, WindowOK
<1>6. closer' \in background' \union {NoJob}
  BY <1>3 DEF TInv, WindowOK
<1>7. crashed' \in BOOLEAN
  BY <1>3 DEF TInv, WindowOK
<1>8. Others(t)
  BY <1>3, <1>4 DEF Others, Listed
<1>9. QED
  BY <1>2, <1>3, <1>4, <1>5, <1>6, <1>7, <1>8

\* Asking the preloader may cancel the tasks that wait for it.
LEMMA AskFacts ==
    ASSUME TInv, NEW jobs, DOMAIN jobs = Jobs, jobs = [t \in Jobs |-> jobs[t]], AskPreloader(jobs)
    PROVE  /\ latest' = latest + 1 /\ latest' \in 0..MaxRequests
           /\ DOMAIN job' = Jobs /\ job' = [t \in Jobs |-> job'[t]]
           /\ \A t \in Jobs : \/ job'[t] = jobs[t]
                              \/ job[t].at = "loading" /\ job'[t] = Cancelled(jobs[t])
<1>1. latest' = latest + 1 /\ latest' \in 0..MaxRequests
  BY TasksAssumption DEF AskPreloader, Preloader!Ask, TInv, WindowOK, TasksAssumption
<1>2. CASE job' = jobs
  BY <1>1, <1>2
<1>3. ASSUME NEW t \in WaitingJobs, job' = [jobs EXCEPT ![t] = Cancelled(@)]
      PROVE  /\ DOMAIN job' = Jobs /\ job' = [u \in Jobs |-> job'[u]]
             /\ \A u \in Jobs : \/ job'[u] = jobs[u]
                                \/ job[u].at = "loading" /\ job'[u] = Cancelled(jobs[u])
  BY <1>3 DEF WaitingJobs
<1>4. QED
  BY <1>1, <1>2, <1>3 DEF AskPreloader

LEMMA ExecFacts ==
    ASSUME TInv, NEW t \in Jobs, NEW kind \in Kinds, Exec(t, kind)
    PROVE  /\ Starts(t)
           /\ Others(t)
           /\ out' = out
           /\ background' = background \union {t}
           /\ Frame
           /\ closing' = closing /\ crashed' = crashed
           /\ latest' \in 0..MaxRequests
<1>1. DOMAIN job = Jobs /\ job = [x \in Jobs |-> job[x]]
  BY DEF TInv, WindowOK
<1>2. /\ job[t].at = "new" /\ background' = background \union {t}
      /\ applied' = applied /\ closing' = closing /\ crashed' = crashed /\ out' = out
  BY DEF Exec
<1>3. \A u \in Jobs \ {t} : Listed(u) /\ (u \in applied' <=> u \in applied)
  BY <1>2 DEF Listed
<1>4. background' \subseteq Jobs /\ applied' \subseteq Jobs
      /\ closing' \in {"open", "cancelling", "lists", "destroyed"}
  BY <1>2 DEF TInv, WindowOK
<1>5. CASE /\ kind = "apply"
           /\ job' = [job EXCEPT ![t] = ExecThread([@ EXCEPT !.kind = kind])]
           /\ UNCHANGED svars
  <2>1. /\ DOMAIN job' = Jobs /\ job' = [x \in Jobs |-> job'[x]]
        /\ job'[t] = ExecThread([job[t] EXCEPT !.kind = "apply"])
        /\ \A u \in Jobs \ {t} : job'[u] = job[u]
    BY <1>1, <1>5
  <2>2. latest' = latest /\ latest' \in 0..MaxRequests
    BY <1>5 DEF svars, TInv, WindowOK
  <2>3. Starts(t)
    BY <1>2, <2>1 DEF Starts, Untouched
  <2>4. QED
    BY <1>2, <1>3, <1>4, <2>1, <2>2, <2>3 DEF Others, Frame
<1>6. CASE /\ kind # "apply"
           /\ AskPreloader([job EXCEPT ![t] = [@ EXCEPT !.kind = kind, !.at = "loading",
                                                        !.request = latest + 1]])
  <2> DEFINE jobs == [job EXCEPT ![t] = [@ EXCEPT !.kind = kind, !.at = "loading",
                                                   !.request = latest + 1]]
  <2>1. /\ DOMAIN jobs = Jobs /\ jobs = [x \in Jobs |-> jobs[x]]
        /\ jobs[t] = [job[t] EXCEPT !.kind = kind, !.at = "loading", !.request = latest + 1]
        /\ \A u \in Jobs \ {t} : jobs[u] = job[u]
    BY <1>1
  <2> HIDE DEF jobs
  <2>2. AskPreloader(jobs)
    BY <1>6 DEF jobs
  <2>3. /\ latest' = latest + 1 /\ latest' \in 0..MaxRequests
        /\ DOMAIN job' = Jobs /\ job' = [x \in Jobs |-> job'[x]]
        /\ \A x \in Jobs : \/ job'[x] = jobs[x]
                           \/ job[x].at = "loading" /\ job'[x] = Cancelled(jobs[x])
    BY <2>1, <2>2, AskFacts
  <2>4. job'[t] = jobs[t]
    BY <1>2, <2>3
  <2>5. \A u \in Jobs \ {t} : \/ job'[u] = job[u]
                              \/ Running(u) /\ job'[u] = Cancelled(job[u])
    BY <2>1, <2>3 DEF Running
  <2>6. kind \in Kinds \ {"apply"}
    BY <1>6
  <2>7. Starts(t)
    BY <1>2, <2>1, <2>3, <2>4, <2>6 DEF Starts, Untouched
  <2>8. QED
    BY <1>2, <1>3, <1>4, <2>3, <2>5, <2>7 DEF Others, Frame
<1>7. QED
  BY <1>5, <1>6 DEF Exec

\* A step that does nothing to a task.
LEMMA RestsFacts ==
    ASSUME NEW t \in Jobs, Others(t), NEW u \in Jobs \ {t}, out'[u] = out[u]
    PROVE  Moves(u)
BY DEF Others, Moves, Rests, Untouched

\* One step of the window is a move of every task.
LEMMA StepMoves ==
    ASSUME TInv, TasksNext
    PROVE  WindowMoves /\ \A t \in Jobs : Moves(t)
<1> DEFINE Goal == WindowMoves /\ \A t \in Jobs : Moves(t)
<1>1. /\ DOMAIN job = Jobs /\ job = [x \in Jobs |-> job[x]]
      /\ DOMAIN out = Jobs /\ out = [x \in Jobs |-> out[x]]
      /\ \A x \in Jobs : job[x] \in JobRecord /\ JobOK(x)
  BY DEF TInv, WindowOK, JobOK
\* Everything but one task's own part.
<1>2. ASSUME NEW t \in Jobs, Others(t), Frame, Moves(t),
             DOMAIN out' = Jobs /\ out' = [x \in Jobs |-> out'[x]],
             \A u \in Jobs \ {t} : out'[u] = out[u],
             closer' \in background' \union {NoJob}, crashed' \in BOOLEAN, latest' \in 0..MaxRequests
      PROVE  Goal
  <2>1. \A u \in Jobs : Moves(u)
    BY <1>2, RestsFacts
  <2>2. WindowMoves
    BY <1>2 DEF WindowMoves, WindowOK, Frame
  <2>3. QED
    BY <2>1, <2>2
\* A step of one task that leaves the window alone.
<1>3. ASSUME NEW t \in Jobs, NEW j, job' = [job EXCEPT ![t] = j], Moves(t),
             UNCHANGED <<background, applied, closing, closer, crashed, svars, out>>
      PROVE  Goal
  <2>1. Others(t) /\ Frame
    BY <1>1, <1>3 DEF Others, Listed, Frame, TInv, WindowOK
  <2>2. closer' \in background' \union {NoJob} /\ crashed' \in BOOLEAN /\ latest' \in 0..MaxRequests
    BY <1>3 DEF TInv, WindowOK, svars
  <2>3. QED
    BY <1>1, <1>2, <1>3, <2>1, <2>2
\* The end of a task.
<1>4. ASSUME NEW t \in Jobs, NEW error \in BOOLEAN, Complete(t, error), Running(t),
             \/ /\ job[t].at \in {"loading", "encoding"}
                /\ job[t].kind = "save" => error
                /\ out' = out
             \/ job[t].at = "leaving" /\ error = job[t].error /\ out' = out
             \/ /\ out[t].at \in {"opening", "flushed"}
                /\ out[t].at = "opening" => error
                /\ out' = [out EXCEPT ![t] = Ended(@)],
             latest' \in 0..MaxRequests
      PROVE  Goal
  <2>1. /\ job'[t] = Over(job[t], error) /\ t \notin background'
        /\ t \in applied' => t \in applied \/ ~ error
        /\ Others(t) /\ Frame
        /\ closer' \in background' \union {NoJob} /\ crashed' \in BOOLEAN
    BY <1>4, CompleteFacts
  <2>2. /\ DOMAIN out' = Jobs /\ out' = [x \in Jobs |-> out'[x]]
        /\ \A u \in Jobs \ {t} : out'[u] = out[u]
        /\ out' = out \/ out'[t] = Ended(out[t])
    BY <1>1, <1>4
  <2>3. Ends(t, error)
    BY <1>1, <1>4, <2>1, <2>2 DEF Ends
  <2>4. Moves(t)
    BY <2>3 DEF Moves
  <2>5. QED
    BY <1>2, <1>4, <2>1, <2>2, <2>4
\* A step that may cancel tasks.
<1>5. ASSUME DOMAIN job' = Jobs, job' = [x \in Jobs |-> job'[x]],
             \A x \in Jobs : job'[x] = job[x] \/ (Running(x) /\ job'[x] = Cancelled(job[x])),
             UNCHANGED <<background, applied, out>>,
             closer' = closer, crashed' \in BOOLEAN, latest' \in 0..MaxRequests,
             closing' \in {"open", "cancelling", "lists", "destroyed"},
             closing' \in {"lists", "destroyed"} => closing \in {"lists", "destroyed"} \/ background = {}
      PROVE  Goal
  <2>1. \A u \in Jobs : Moves(u)
    BY <1>5 DEF Moves, Rests, Untouched, Listed
  <2>2. WindowMoves
    BY <1>1, <1>5 DEF WindowMoves, WindowOK, TInv
  <2>3. QED
    BY <2>1, <2>2
<1>6. ASSUME NEW t \in Jobs, NEW kind \in Kinds, Exec(t, kind), closer' \in {closer, t}
      PROVE  Goal
  <2>1. /\ Starts(t) /\ Others(t) /\ out' = out /\ background' = background \union {t}
        /\ Frame /\ crashed' = crashed /\ latest' \in 0..MaxRequests
    BY <1>6, ExecFacts
  <2>2. Moves(t)
    BY <2>1 DEF Moves
  <2>3. closer' \in background' \union {NoJob} /\ crashed' \in BOOLEAN
    BY <1>6, <2>1 DEF TInv, WindowOK
  <2>4. QED
    BY <1>1, <1>2, <2>1, <2>2, <2>3
\* What the user does.
<1>7. CASE UserStep
  <2>1. ASSUME NEW t \in Jobs, NEW k \in Kinds, Start(t, k) PROVE Goal
    BY <1>6, <2>1 DEF Start
  <2>2. ASSUME NEW t \in Jobs, Cancel(t) PROVE Goal
    <3>1. /\ Running(t) /\ job' = [job EXCEPT ![t] = Cancelled(job[t])]
          /\ UNCHANGED <<background, applied, closing, closer, crashed, svars, out>>
      BY <2>2 DEF Cancel
    <3>2. job'[t] = Cancelled(job[t])
      BY <1>1, <3>1
    <3>3. Moves(t)
      BY <3>1, <3>2 DEF Moves, Rests, Untouched, Listed
    <3>4. QED
      BY <1>3, <3>1, <3>3
  <2>3. CASE PageLoads
    <3>1. /\ AskPreloader(job)
          /\ UNCHANGED <<background, applied, closing, closer, crashed, out>>
      BY <2>3 DEF PageLoads
    <3>2. /\ latest' \in 0..MaxRequests /\ DOMAIN job' = Jobs /\ job' = [x \in Jobs |-> job'[x]]
          /\ \A x \in Jobs : job'[x] = job[x] \/ (Running(x) /\ job'[x] = Cancelled(job[x]))
      BY <1>1, <3>1, AskFacts DEF Running
    <3>3. QED
      BY <1>5, <3>1, <3>2 DEF TInv, WindowOK
  <2>4. CASE Close
    <3>1. CASE RealClose(job) /\ UNCHANGED <<background, applied, closer, crashed, svars, out>>
      <4>1. /\ closing' = "cancelling" /\ DOMAIN job' = Jobs /\ job' = [x \in Jobs |-> job'[x]]
            /\ \A x \in Jobs : job'[x] = job[x] \/ (Running(x) /\ job'[x] = Cancelled(job[x]))
        BY <1>1, <3>1, RealCloseFacts DEF Running
      <4>2. QED
        BY <1>5, <3>1, <4>1 DEF TInv, WindowOK, svars
    <3>2. ASSUME NEW t \in Jobs, Exec(t, "save"), closer' = t PROVE Goal
      BY <1>6, <3>2 DEF Kinds
    <3>3. QED
      BY <2>4, <3>1, <3>2 DEF Close
  <2>5. QED
    BY <1>7, <2>1, <2>2, <2>3, <2>4 DEF UserStep
\* The preloader, and the steps of closing.
<1>8. CASE PreloaderStep
  <2>1. UNCHANGED <<tvars, out, latest>>
    BY <1>8 DEF PreloaderStep, Preloader!Answer, Preloader!Refuse
  <2>2. QED
    BY <1>1, <1>5, <2>1 DEF tvars, TInv, WindowOK
<1>9. CASE Poll
  BY <1>1, <1>5, <1>9 DEF Poll, svars, TInv, WindowOK
<1>10. CASE Destroy
  BY <1>1, <1>5, <1>10 DEF Destroy, svars, TInv, WindowOK
\* An answer of the preloader.
<1>11. CASE Deliver
  <2>1. out' = out /\ latest' \in 0..MaxRequests
    BY <1>11 DEF Deliver, Preloader!DeliverNext, TInv, WindowOK
  <2>2. ASSUME NEW t \in Askers PROVE t \in Jobs /\ job[t].at = "loading" /\ Running(t)
    BY DEF Askers, Running
  <2>3. ASSUME NEW t \in Askers, NEW j, job' = [job EXCEPT ![t] = j], GetsImage(t),
               UNCHANGED <<background, applied, closing, closer, crashed>>
        PROVE  Goal
    <3>1. Others(t) /\ Frame
      BY <1>1, <2>2, <2>3 DEF Others, Listed, Frame, TInv, WindowOK
    <3>2. closer' \in background' \union {NoJob} /\ crashed' \in BOOLEAN
      BY <2>3 DEF TInv, WindowOK
    <3>3. Moves(t)
      BY <2>3 DEF Moves
    <3>4. QED
      BY <1>1, <1>2, <2>1, <2>2, <3>1, <3>2, <3>3
  <2>4. ASSUME NEW t \in Askers, OriginalReady(t) PROVE Goal
    <3>1. CASE /\ job[t].kind = "edit" /\ job' = [job EXCEPT ![t] = ExecThread(@)]
               /\ UNCHANGED <<background, applied, closing, closer, crashed>>
      <4>1. job'[t] = ExecThread(job[t]) /\ GetsImage(t)
        BY <1>1, <2>1, <2>2, <3>1 DEF GetsImage, Untouched, Listed
      <4>2. QED
        BY <1>1, <2>2, <2>3, <3>1, <4>1
    <3>2. CASE /\ job[t].kind = "save" /\ job' = [job EXCEPT ![t].at = "encoding"]
               /\ UNCHANGED <<background, applied, closing, closer, crashed>>
      <4>1. job'[t] = [job[t] EXCEPT !.at = "encoding"] /\ GetsImage(t)
        BY <1>1, <2>1, <2>2, <3>2 DEF GetsImage, Untouched, Listed
      <4>2. QED
        BY <1>1, <2>2, <2>3, <3>2, <4>1
    <3>3. CASE job[t].kind = "load" /\ Complete(t, FALSE)
      BY <1>4, <2>1, <2>2, <3>3
    <3>4. QED
      BY <2>4, <3>1, <3>2, <3>3 DEF OriginalReady
  <2>5. ASSUME NEW t \in Askers, OriginalFails(t) PROVE Goal
    <3>1. CASE crashed' = TRUE /\ UNCHANGED <<job, background, applied, closing, closer>>
      BY <1>1, <1>5, <2>1, <3>1 DEF TInv, WindowOK
    <3>2. CASE Complete(t, TRUE)
      BY <1>4, <2>1, <2>2, <3>2
    <3>3. QED
      BY <2>5, <3>1, <3>2 DEF OriginalFails
  <2>6. CASE UNCHANGED tvars
    BY <1>1, <1>5, <2>1, <2>6 DEF tvars, TInv, WindowOK
  <2>7. QED
    BY <1>11, <2>4, <2>5, <2>6 DEF Deliver
\* The thread, the timer and the idle callback; encoding and writing.
<1>12. ASSUME NEW t \in Jobs, JobStep(t) PROVE Goal
  <2>1. CASE ThreadEnds(t)
    <3>1. /\ job[t].thread = "running" /\ job' = [job EXCEPT ![t] = [job[t] EXCEPT !.thread = "ended"]]
          /\ UNCHANGED <<background, applied, closing, closer, crashed, svars, out>>
      BY <2>1 DEF ThreadEnds
    <3>2. job'[t] = [job[t] EXCEPT !.thread = "ended"]
      BY <1>1, <3>1
    <3>3. Moves(t)
      BY <3>1, <3>2 DEF Moves, Works, Untouched, Listed
    <3>4. QED
      BY <1>3, <3>1, <3>3
  <2>2. CASE Tick(t)
    <3> DEFINE j2 == [job[t] EXCEPT !.timer = FALSE, !.at = "leaving", !.error = job[t].async]
    <3>1. /\ job[t].timer /\ job[t].thread = "ended" /\ job' = [job EXCEPT ![t] = j2]
          /\ UNCHANGED <<background, applied, closing, closer, crashed, svars, out>>
      BY <1>1, <2>2 DEF Tick
    <3>2. job'[t] = j2
      BY <1>1, <3>1
    <3>3. Moves(t)
      BY <3>1, <3>2 DEF Moves, Works, Untouched, Listed
    <3> HIDE DEF j2
    <3>4. QED
      BY <1>3, <3>1, <3>3
  <2>3. CASE Leave(t)
    <3>1. /\ job[t].at = "leaving" /\ Complete(t, job[t].error) /\ out' = out
          /\ latest' \in 0..MaxRequests
      BY <2>3 DEF Leave, svars, TInv, WindowOK
    <3>2. job[t].error \in BOOLEAN /\ Running(t)
      BY <1>1, <3>1 DEF JobRecord, Running
    <3>3. QED
      BY <1>4, <3>1, <3>2
  <2>4. CASE Encoded(t)
    <3>1. job[t].at = "encoding" /\ Running(t) /\ latest' \in 0..MaxRequests /\ UNCHANGED svars
      BY <2>4 DEF Encoded, svars, TInv, WindowOK, Running
    <3>2. CASE /\ ~ job[t].cancelled /\ job' = [job EXCEPT ![t].at = "writing"]
               /\ BeginWrite(t, FALSE)
               /\ UNCHANGED <<background, applied, closing, closer, crashed>>
      <4>1. /\ job'[t] = [job[t] EXCEPT !.at = "writing"]
            /\ out'[t] = [out[t] EXCEPT !.at = "opening", !.refused = FALSE]
            /\ \A u \in Jobs \ {t} : out'[u] = out[u]
            /\ DOMAIN out' = Jobs /\ out' = [x \in Jobs |-> out'[x]]
        BY <1>1, <3>2 DEF BeginWrite
      <4>2. Others(t) /\ Frame
        BY <1>1, <3>2 DEF Others, Listed, Frame, TInv, WindowOK
      <4>3. Moves(t)
        BY <3>1, <3>2, <4>1 DEF Moves, BeginsWriting, Listed
      <4>4. closer' \in background' \union {NoJob} /\ crashed' \in BOOLEAN
        BY <3>2 DEF TInv, WindowOK
      <4>5. QED
        BY <1>2, <3>1, <4>1, <4>2, <4>3, <4>4
    <3>3. CASE Complete(t, TRUE) /\ UNCHANGED out
      BY <1>4, <3>1, <3>3
    <3>4. QED
      BY <2>4, <3>2, <3>3 DEF Encoded
  <2>5. CASE WriteStep(t)
    <3>1. /\ UNCHANGED <<job, background, applied, closing, closer, crashed, latest>>
          /\ \/ Opened(t, job[t].cancelled)
             \/ \E n \in 1..Size + MaxErrors : Wrote(t, n, job[t].cancelled)
             \/ WriteFails(t, job[t].cancelled)
             \/ Flushed(t)
      BY <2>5 DEF WriteStep, tvars, svars
    <3>2. Moves(t)
      BY <3>1 DEF Moves, Writes, Listed
    <3>3. Others(t) /\ Frame
      BY <1>1, <3>1 DEF Others, Listed, Frame, TInv, WindowOK
    <3>4. /\ DOMAIN out' = Jobs /\ out' = [x \in Jobs |-> out'[x]]
          /\ \A u \in Jobs \ {t} : out'[u] = out[u]
      BY <1>1, <3>1 DEF Opened, Wrote, WriteFails, Flushed
    <3>5. closer' \in background' \union {NoJob} /\ crashed' \in BOOLEAN /\ latest' \in 0..MaxRequests
      BY <3>1 DEF TInv, WindowOK
    <3>6. QED
      BY <1>2, <3>2, <3>3, <3>4, <3>5
  <2>6. CASE WriteEnds(t)
    <3>1. latest' \in 0..MaxRequests
      BY <2>6 DEF WriteEnds, svars, TInv, WindowOK
    <3>2. CASE OpenFails(t) /\ Complete(t, TRUE)
      <4>1. out[t].at = "opening" /\ out' = [out EXCEPT ![t] = Ended(@)]
        BY <3>2 DEF OpenFails
      <4>2. Running(t)
        BY <1>1, <4>1 DEF JobOK, Running
      <4>3. QED
        BY <1>4, <3>1, <3>2, <4>1, <4>2
    <3>3. CASE Notified(t) /\ Complete(t, out[t].error)
      <4>1. out[t].at = "flushed" /\ out' = [out EXCEPT ![t] = Ended(@)]
        BY <3>3 DEF Notified
      <4>2. Running(t) /\ out[t].error \in BOOLEAN
        BY <1>1, <4>1 DEF JobOK, Running, WriteOK, WriteRecord
      <4>3. QED
        BY <1>4, <3>1, <3>3, <4>1, <4>2
    <3>4. QED
      BY <2>6, <3>2, <3>3 DEF WriteEnds
  <2>7. QED
    BY <1>12, <2>1, <2>2, <2>3, <2>4, <2>5, <2>6 DEF JobStep
<1>13. QED
  BY <1>7, <1>8, <1>9, <1>10, <1>11, <1>12 DEF TasksNext

-----------------------------------------------------------------------------
(* The invariant and what follows from it *)

LEMMA TInvInit == TasksInit => TInv
<1> SUFFICES ASSUME TasksInit PROVE TInv
  OBVIOUS
<1>1. /\ job = [t \in Jobs |-> NewJob] /\ out = [t \in Jobs |-> NoWrite]
      /\ background = {} /\ applied = {} /\ closing = "open" /\ closer = NoJob /\ crashed = FALSE
      /\ latest = 0
  BY DEF TasksInit, WriteInit, Preloader!ServiceInit
<1>2. WindowOK
  <2>1. DOMAIN job = Jobs /\ DOMAIN out = Jobs
    BY <1>1
  <2>2. job = [t \in Jobs |-> job[t]] /\ out = [t \in Jobs |-> out[t]]
    BY <1>1
  <2>3. latest \in 0..MaxRequests
    BY <1>1, TasksAssumption DEF TasksAssumption
  <2>4. QED
    BY <1>1, <2>1, <2>2, <2>3 DEF WindowOK
<1>3. ASSUME NEW t \in Jobs PROVE JobOK(t)
  <2>1. job[t] = NewJob /\ out[t] = NoWrite
    BY <1>1
  <2>2. job[t] \in JobRecord
    BY <2>1, TasksAssumption DEF NewJob, JobRecord, Kinds, Places, TasksAssumption
  <2>3. out[t] \in WriteRecord
    BY <2>1, WriteAssumption DEF NoWrite, WriteRecord, WriteStates, NotWritten, WriteAssumption
  <2>4. <<>> = Chunks(1, 0)
    BY DEF Chunks
  <2>5. WriteOK(t)
    BY <2>1, <2>3, <2>4, WriteAssumption DEF WriteOK, WrittenPrefix, NoWrite, WriteAssumption
  <2>6. QED
    BY <1>1, <2>1, <2>2, <2>5 DEF JobOK, Running, NewJob, NoWrite
<1>4. QED
  BY <1>2, <1>3 DEF TInv

LEMMA TInvStep == TInv /\ [TasksNext]_vars => TInv'
<1> SUFFICES ASSUME TInv, [TasksNext]_vars PROVE TInv'
  OBVIOUS
<1>1. CASE TasksNext
  BY <1>1, StepMoves, MovesKeepOK DEF TInv, WindowMoves
<1>2. CASE UNCHANGED vars
  BY <1>2 DEF vars, tvars, svars, TInv, WindowOK, JobOK, WriteOK, WrittenPrefix, Running
<1>3. QED
  BY <1>1, <1>2

\* Whatever the user cancels and whichever events come first, the window's list holds
\* the tasks that run, each waits for one event (the timer of gth_async_task_exec, a
\* callback of _g_file_write_async or the preloader), and writing keeps its place.
THEOREM TasksInvariant == TasksSpec => []TInv
<1>1. TInv /\ [TasksNext]_vars => TInv'
  BY TInvStep
<1>2. QED
  BY <1>1, TInvInit, PTL DEF TasksSpec

\* The types of the tasks and of the files, and the lists of the window.
THEOREM TasksTypes == TasksSpec => []TasksTypeOK
<1>1. ASSUME TInv PROVE TasksTypeOK
  <2>1. job \in [Jobs -> JobRecord] /\ out \in [Jobs -> WriteRecord]
    BY <1>1 DEF TInv, WindowOK, JobOK, WriteOK
  <2>2. background = {t \in Jobs : Running(t)}
    BY <1>1 DEF TInv, WindowOK, JobOK
  <2>3. QED
    BY <1>1, <2>1, <2>2 DEF TInv, WindowOK, JobOK, TasksTypeOK, WriteTypeOK
<1>2. QED
  BY <1>1, TasksInvariant, PTL

\* A save that reports no error, and none of whose writes failed, put the whole image
\* into the file, and no file is left with a part of one (_g_file_write_async).
THEOREM SavedIsWholeHolds == TasksSpec => []SavedIsWhole
<1>1. TInv => SavedIsWhole
  BY DEF TInv, JobOK, WriteOK, SavedIsWhole
<1>2. QED
  BY <1>1, TasksInvariant, PTL

-----------------------------------------------------------------------------
(* Closing and cancelling *)

\* A task that was started and that the window outlives only if it is over.
Awaited(t) == job[t].at # "new" /\ (closing \in {"lists", "destroyed"} => job[t].at = "over")

\* No move takes a task back, or out of its end.
LEMMA MovesForward ==
    ASSUME TInv, NEW t \in Jobs, Moves(t)
    PROVE  /\ job[t].at # "new" => job'[t].at # "new"
           /\ job[t].at = "over" => job'[t].at = "over" /\ Rests(t)
<1> DEFINE j == job[t]
<1>1. JobOK(t) /\ j \in JobRecord /\ WriteOK(t)
  BY DEF TInv, JobOK
<1>2. CASE Rests(t)
  BY <1>1, <1>2, CancelledFacts DEF Rests, Running
<1>3. CASE Starts(t)
  BY <1>3 DEF Starts
<1>4. CASE GetsImage(t)
  BY <1>1, <1>4 DEF GetsImage, ExecThread, JobRecord
<1>5. CASE Works(t)
  <2>1. j.at \notin {"over", "new"}
    BY <1>1, <1>5 DEF Works, JobOK
  <2>2. QED
    BY <1>1, <1>5, <2>1 DEF Works, JobRecord
<1>6. CASE BeginsWriting(t)
  BY <1>1, <1>6 DEF BeginsWriting, JobRecord
<1>7. CASE Writes(t)
  <2>1. j.at = "writing"
    <3>1. out[t].at # "idle"
      BY <1>7 DEF Writes, Opened, Wrote, WriteFails, Flushed
    <3>2. QED
      BY <1>1, <3>1, SMTT(60) DEF JobOK
  <2>2. QED
    BY <1>7, <2>1 DEF Writes
<1>8. ASSUME NEW error \in BOOLEAN, Ends(t, error)
      PROVE  j.at # "over" /\ job'[t].at = "over"
  <2>1. job'[t].at = "over"
    <3>1. job'[t] = Over(j, error)
      BY <1>8 DEF Ends
    <3>2. Over(j, error).at = "over"
      BY <1>1, OverFacts, Zenon
    <3>3. QED
      BY <3>1, <3>2
  <2>2. j.at # "over"
    BY <1>1, <1>8 DEF Ends, JobOK
  <2>3. QED
    BY <2>1, <2>2
<1>9. QED
  BY <1>2, <1>3, <1>4, <1>5, <1>6, <1>7, <1>8 DEF Moves

LEMMA AwaitedStays ==
    ASSUME NEW t \in Jobs
    PROVE  TInv /\ Awaited(t) /\ [TasksNext]_vars => Awaited(t)'
<1> SUFFICES ASSUME TInv, Awaited(t), [TasksNext]_vars PROVE Awaited(t)'
  OBVIOUS
<1>1. CASE TasksNext
  <2>1. Moves(t) /\ WindowMoves
    BY <1>1, StepMoves
  <2>2. /\ job[t].at # "new" => job'[t].at # "new"
        /\ job[t].at = "over" => job'[t].at = "over"
    BY <2>1, MovesForward
  <2>3. background = {} => ~ Running(t)
    BY DEF TInv, JobOK
  <2>4. QED
    BY <2>1, <2>2, <2>3 DEF Awaited, WindowMoves, Running
<1>2. CASE UNCHANGED vars
  BY <1>2 DEF vars, tvars, Awaited
<1>3. QED
  BY <1>1, <1>2

\* The window is not destroyed under a task that ran when it began to close, nor
\* under its thread (check_cancellable_cb, _gth_browser_close_final_step).
THEOREM WindowWaitsHolds == TasksSpec => WindowWaits
<1> SUFFICES ASSUME NEW t \in Jobs
             PROVE  TasksSpec => [](Running(t) /\ closing = "cancelling"
                      => [](closing \in {"lists", "destroyed"} => ~ Running(t) /\ job[t].thread # "running"))
  BY DEF WindowWaits
<1> DEFINE Before == Running(t) /\ closing = "cancelling"
           After == closing \in {"lists", "destroyed"} => ~ Running(t) /\ job[t].thread # "running"
<1>1. TInv /\ Awaited(t) /\ [TasksNext]_vars => Awaited(t)'
  BY AwaitedStays
<1>2. Before => Awaited(t)
  BY DEF Awaited, Running
<1>3. TInv /\ Awaited(t) => After
  BY DEF TInv, JobOK, Awaited, Running
<1> HIDE DEF Before, After
<1>4. TasksSpec => [](Before => []After)
  BY <1>1, <1>2, <1>3, TasksInvariant, PTL DEF TasksSpec
<1>5. QED
  BY <1>4 DEF Before, After

\* A task whose cancellation was noticed: it is on its way to an error.
Silenced(t) ==
    /\ t \notin applied
    /\ out[t].file = NotWritten
    /\ \/ job[t].at = "thread" /\ job[t].async = TRUE
       \/ job[t].at = "leaving" /\ job[t].error = TRUE
       \/ job[t].kind = "save" /\ job[t].at \in {"loading", "encoding"} /\ job[t].cancelled = TRUE
       \/ job[t].at = "over"

LEMMA SilencedStays ==
    ASSUME NEW t \in Jobs
    PROVE  TInv /\ Silenced(t) /\ [TasksNext]_vars => Silenced(t)'
<1> SUFFICES ASSUME TInv, Silenced(t), [TasksNext]_vars PROVE Silenced(t)'
  OBVIOUS
<1> DEFINE j == job[t]
<1>1. JobOK(t) /\ j \in JobRecord /\ WriteOK(t)
  BY DEF TInv, JobOK
<1>2. CASE UNCHANGED vars
  BY <1>2 DEF vars, tvars, Silenced
<1>3. CASE TasksNext
  <2>1. Moves(t)
    BY <1>3, StepMoves
  <2>2. CASE Rests(t)
    <3>1. CASE job'[t] = j
      BY <2>2, <3>1 DEF Rests, Untouched, Silenced
    <3>2. CASE job'[t] = Cancelled(j)
      <4>1. /\ job'[t].kind = j.kind /\ job'[t].at = j.at /\ job'[t].error = j.error
            /\ job'[t].cancelled = TRUE /\ job'[t].async = (j.kind # "save")
        BY <1>1, <3>2, CancelledFacts
      <4>2. j.at = "thread" => job'[t].async = TRUE
        BY <1>1, <4>1 DEF JobOK
      <4>3. QED
        BY <2>2, <4>1, <4>2 DEF Rests, Untouched, Silenced
    <3>3. QED
      BY <2>2, <3>1, <3>2 DEF Rests
  <2>3. CASE Starts(t)
    BY <2>3 DEF Starts, Silenced
  <2>4. CASE GetsImage(t)
    <3>1. j.kind = "save" /\ j.at = "loading" /\ j.cancelled = TRUE
      BY <2>4 DEF GetsImage, Silenced
    <3>2. /\ job'[t].kind = "save" /\ job'[t].at = "encoding" /\ job'[t].cancelled = TRUE
      BY <1>1, <2>4, <3>1 DEF GetsImage, JobRecord
    <3>3. QED
      BY <2>4, <3>2 DEF GetsImage, Untouched, Silenced
  <2>5. CASE Works(t)
    <3>1. j.at = "thread" /\ j.async = TRUE
      BY <1>1, <2>5 DEF Works, JobOK, Silenced
    <3>2. \/ job'[t].at = "thread" /\ job'[t].async = TRUE
          \/ job'[t].at = "leaving" /\ job'[t].error = TRUE
      BY <1>1, <2>5, <3>1 DEF Works, JobRecord
    <3>3. QED
      BY <2>5, <3>2 DEF Works, Untouched, Silenced
  <2>6. CASE BeginsWriting(t)
    BY <2>6 DEF BeginsWriting, Silenced
  <2>7. CASE Writes(t)
    <3>1. out[t].at # "idle"
      BY <2>7 DEF Writes, Opened, Wrote, WriteFails, Flushed
    <3>2. QED
      BY <1>1, <3>1 DEF JobOK, Silenced
  <2>8. ASSUME NEW error \in BOOLEAN, Ends(t, error) PROVE Silenced(t)'
    <3>1. job'[t] = Over(j, error) /\ (t \in applied' => t \in applied \/ ~ error)
      BY <2>8 DEF Ends
    <3>2. Over(j, error).at = "over"
      BY <1>1, OverFacts, Zenon
    <3>3. out[t].at = "idle"
      BY <1>1 DEF JobOK, Silenced
    <3>4. \/ j.at \in {"loading", "encoding"} /\ (j.kind = "save" => error)
          \/ j.at = "leaving" /\ error = j.error
      BY <2>8, <3>3 DEF Ends
    <3>5. error = TRUE /\ out'[t] = out[t]
      BY <2>8, <3>3, <3>4 DEF Ends, Silenced
    <3>6. QED
      BY <3>1, <3>2, <3>5 DEF Silenced
  <2>9. QED
    BY <2>1, <2>2, <2>3, <2>4, <2>5, <2>6, <2>7, <2>8 DEF Moves
<1>4. QED
  BY <1>2, <1>3

\* A cancellation that the thread's flag or the cancellable of a save has seen is final:
\* the page keeps its image and the file its contents (gth_async_task_cancelled,
\* update_progress, save_to_buffer_ready_cb).
THEOREM CancelIsHonouredHolds == TasksSpec => CancelIsHonoured
<1> SUFFICES ASSUME NEW t \in Jobs
             PROVE  TasksSpec => [](Heard(t) => [](t \notin applied /\ out[t].file = NotWritten))
  BY DEF CancelIsHonoured
<1> DEFINE After == t \notin applied /\ out[t].file = NotWritten
<1>1. TInv /\ Silenced(t) /\ [TasksNext]_vars => Silenced(t)'
  BY SilencedStays
<1>2. TInv /\ Heard(t) => Silenced(t)
  <2> SUFFICES ASSUME TInv, Heard(t) PROVE Silenced(t)
    OBVIOUS
  <2>1. JobOK(t) /\ job[t] \in JobRecord
    BY DEF TInv, JobOK
  <2>2. CASE job[t].at = "thread" /\ job[t].async
    BY <2>1, <2>2 DEF JobOK, JobRecord, Silenced
  <2>3. CASE job[t].kind = "save" /\ job[t].at \in {"loading", "encoding"} /\ job[t].cancelled
    BY <2>1, <2>3 DEF JobOK, JobRecord, Silenced
  <2>4. QED
    BY <2>2, <2>3 DEF Heard
<1>3. Silenced(t) => After
  BY DEF Silenced
<1> HIDE DEF After
<1>4. TasksSpec => [](Heard(t) => []After)
  BY <1>1, <1>2, <1>3, TasksInvariant, PTL DEF TasksSpec
<1>5. QED
  BY <1>4 DEF After

=============================================================================
