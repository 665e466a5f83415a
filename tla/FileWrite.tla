----------------------------- MODULE FileWrite -----------------------------
(***************************************************************************)
(* gthumb/gthumb/gio-utils.c, _g_file_write_async: a buffer is written to  *)
(* a file by a chain of asynchronous calls, each made by the callback of   *)
(* the one before: open, write until nothing is left, flush, and a         *)
(* callback when idle.  The new contents take the file's place when the    *)
(* stream is dropped.  A call that is made with a cancelled cancellable    *)
(* fails; a cancellation that comes later is not seen by it.               *)
(*                                                                         *)
(* Each job writes a file of its own.  The buffer is a row of chunks; the  *)
(* operators take from the caller whether its cancellable is cancelled.    *)
(***************************************************************************)
EXTENDS Integers, Sequences

CONSTANTS
    Jobs,
    Size,       \* chunks in the buffer
    MaxErrors   \* bound: failed writes of a file

ASSUME WriteAssumption == Size \in Nat \ {0} /\ MaxErrors \in Nat

VARIABLE out    \* the WriteData of every job and its file

NotWritten == <<0>>     \* what was in the file before

\* The chunks of the buffer from position i on.  Chunk 0 and those before it are
\* not in the buffer: they are the memory in front of it.
Chunks(i, n) == [k \in 1..n |-> i + k - 1]
Buffer == Chunks(1, Size)

WriteStates == {"idle", "opening", "writing", "flushing", "flushed"}

NoWrite ==
    [at |-> "idle", written |-> 0, stream |-> <<>>, refused |-> FALSE,
     failed |-> 0, error |-> FALSE, file |-> NotWritten]

WriteInit == out = [t \in Jobs |-> NoWrite]

-----------------------------------------------------------------------------
\* _g_file_write_async, to replace the file
BeginWrite(t, cancelled) ==
    out' = [out EXCEPT ![t].at = "opening", ![t].refused = cancelled]

\* write_file__replace_ready_cb: the first write ...
Opened(t, cancelled) ==
    /\ out[t].at = "opening"
    /\ ~ out[t].refused
    /\ out' = [out EXCEPT ![t].at = "writing", ![t].written = 0, ![t].refused = cancelled]

\* write_data_free, after the caller's callback
Ended(o) == [o EXCEPT !.at = "idle", !.written = 0, !.stream = <<>>, !.refused = FALSE, !.error = FALSE]

\* ... or the end, with an error.
OpenFails(t) ==
    /\ out[t].at = "opening"
    /\ out' = [out EXCEPT ![t] = Ended(@)]

\* What write_file__stream_write_ready_cb does next: another write or the flush.
NextCall(written) == IF written = Size THEN "flushing" ELSE "writing"

\* Mutant: after a short write the buffer is written from its beginning again.
Wrote_FromStart(t, n, cancelled) ==
    /\ out[t].at = "writing"
    /\ ~ out[t].refused
    /\ n \in 1 .. Size - out[t].written
    /\ out' = [out EXCEPT ![t].at = NextCall(out[t].written + n), ![t].refused = cancelled,
                          ![t].written = @ + n, ![t].stream = @ \o Chunks(1, n)]

\* write_file__stream_write_ready_cb: n chunks were written, maybe not all.
Wrote(t, n, cancelled) ==
    /\ out[t].at = "writing"
    /\ ~ out[t].refused
    /\ n \in 1 .. Size - out[t].written
    /\ out' = [out EXCEPT ![t].at = NextCall(out[t].written + n), ![t].refused = cancelled,
                          ![t].written = @ + n,
                          ![t].stream = @ \o Chunks(out[t].written + 1, n)]

\* The write failed: the callback does not look at the error and adds the count, -1,
\* to what was written (a gsize, which it would take 2^64 failures to bring back to
\* the end of the buffer); then it writes again, from one chunk before.  A cancelled
\* cancellable makes all the writes fail that follow: behind the bound this goes on for
\* ever.
WriteFails(t, cancelled) ==
    /\ out[t].at = "writing"
    /\ out[t].failed < MaxErrors
    /\ out' = [out EXCEPT ![t].written = @ - 1, ![t].refused = cancelled, ![t].failed = @ + 1]

\* write_file__stream_flush_cb: whatever the flush returned, the stream is dropped,
\* which closes it.
Flushed(t) ==
    /\ out[t].at = "flushing"
    /\ \E error \in BOOLEAN :
          /\ out[t].refused => error
          /\ out' = [out EXCEPT ![t].at = "flushed", ![t].error = error, ![t].file = out[t].stream]

\* write_file__notify, the idle callback that calls the one of the caller
Notified(t) ==
    /\ out[t].at = "flushed"
    /\ out' = [out EXCEPT ![t] = Ended(@)]

-----------------------------------------------------------------------------
(* A part of the properties of Tasks *)

WriteRecord ==
    [at : WriteStates, written : - MaxErrors .. Size, stream : Seq(- MaxErrors .. Size),
     refused : BOOLEAN, failed : 0..MaxErrors, error : BOOLEAN,
     file : Seq(- MaxErrors .. Size)]

WriteTypeOK == out \in [Jobs -> WriteRecord]

\* While no write fails, the stream holds the part of the buffer that counts as
\* written, and the file what it held before or all of the buffer: short writes and
\* cancellations between them neither repeat nor skip a chunk, and none leaves the
\* file with a part of the image.
WrittenPrefix(t) ==
    out[t].failed = 0 =>
      /\ out[t].stream = Chunks(1, out[t].written)
      /\ out[t].at \in {"flushing", "flushed"} => out[t].written = Size
      /\ out[t].file \in {NotWritten, Buffer}
=============================================================================
