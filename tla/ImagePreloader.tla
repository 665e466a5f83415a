--------------------------- MODULE ImagePreloader ---------------------------
(***************************************************************************)
(* gthumb/gthumb/gth-image-preloader.c: the queue of decoded images behind *)
(* the image viewer.  A load request names the file to show and the        *)
(* neighbours to decode in advance.  One request runs at a time and one    *)
(* file of it is decoded at a time, in a worker thread; a newer request    *)
(* displaces the running one.  The results are kept in a bounded cache     *)
(* keyed by file, modification time and size.                              *)
(*                                                                         *)
(* Steps: the callers' calls, the worker thread, and the callbacks of the  *)
(* main loop (the ready callback, the 100 ms timer, the idle delivery of   *)
(* an answer).  Main-loop callbacks run to completion, so each is one step.*)
(***************************************************************************)
EXTENDS Integers, Sequences, FiniteSets

CONSTANTS
    Files,              \* the files on disk
    GTH_MODIFIED_IMAGE, \* the pseudo-file of the edited, unsaved image
    Sizes,              \* the sizes a viewer asks for, besides the original one
    Neighbours,         \* the lists of files a caller may ask to preload
    CACHE_MAX_SIZE,
    MaxRequests,        \* bound: load calls in a behaviour
    MaxVersion,         \* bound: modification times of a file
    MaxEdits            \* bound: edits of the image in a behaviour

GTH_ORIGINAL_SIZE == -1
NoRequest == [id |-> 0, files |-> <<>>, size |-> GTH_ORIGINAL_SIZE]
Failed    == 0          \* the content of an entry that holds an error
NoData    == [file |-> GTH_MODIFIED_IMAGE, mtime |-> 0, size |-> 0, image |-> Failed]

AllSizes  == Sizes \union {GTH_ORIGINAL_SIZE}
Modified  == [file |-> GTH_MODIFIED_IMAGE, mtime |-> 0]
FileData  == [file : Files, mtime : 1..MaxVersion] \union {Modified}
CacheData == [file : Files \union {GTH_MODIFIED_IMAGE}, mtime : 0..MaxVersion,
              size : AllSizes, image : Nat]

ASSUME PreloaderAssumption ==
    /\ GTH_MODIFIED_IMAGE \notin Files
    /\ Sizes \subseteq Nat \ {0}
    /\ Neighbours \subseteq Seq(Files)
    /\ CACHE_MAX_SIZE \in Nat
    /\ MaxRequests \in Nat
    /\ MaxVersion \in Nat \ {0}
    /\ MaxEdits \in Nat

VARIABLES
    current,    \* the running request (priv->current_request)
    last,       \* the newest request (priv->last_request)
    pos,        \* index of the running request's current file, 0 if none
    timer,      \* load_next_id: the timer before the next file is decoded
    loading,    \* "no", "thread" (decoding) or "done" (ready callback due)
    loaded,     \* what the thread read: a version, Failed or Cancelled
    cache,      \* sequence of CacheData, the newest first
    answers,    \* completed results waiting in the idle queue
    ref,        \* reference count of every request
    cancelled,  \* requests whose cancellable was cancelled
    issued,     \* number of load calls so far; ids are 1..issued
    delivered,  \* history: the ids of the delivered answers
    disk,       \* the version on disk of every file
    edit        \* number of edits so far; edit is the newest one's content

vars == <<current, last, pos, timer, loading, loaded, cache, answers, ref,
          cancelled, issued, delivered, disk, edit>>

Cancelled == -1

-----------------------------------------------------------------------------
(* The cache *)

\* Mutant: the modification time is not compared.
FileMatches_NoTime(d, f) == d.file = f.file

FileMatches(d, f)   == d.file = f.file /\ d.mtime = f.mtime

\* Mutant: errors are decoded again, next to the entry they have.
IsValidFor_NoErrors(d, f, s) == FileMatches(d, f) /\ d.size = s /\ d.image # Failed

IsValidFor(d, f, s) == FileMatches(d, f) /\ d.size = s

HasBetterQualityFor(d, f, s) ==
    /\ FileMatches(d, f)
    /\ s # GTH_ORIGINAL_SIZE
    /\ d.size > s \/ d.size = GTH_ORIGINAL_SIZE

First(c, S) == c[CHOOSE i \in S : \A j \in S : i <= j]

LookupSameSize(c, f, s) ==
    LET hits == {i \in DOMAIN c : IsValidFor(c[i], f, s)}
    IN  IF hits = {} THEN NoData ELSE First(c, hits)

\* Only the edited image may be answered at a size that was not asked for.
LookupBiggerSize(c, f, s) ==
    LET hits == {i \in DOMAIN c : HasBetterQualityFor(c[i], f, s)}
    IN  IF f # Modified \/ hits = {} THEN NoData ELSE First(c, hits)

Lookup(c, f, s) ==
    IF LookupSameSize(c, f, s) # NoData THEN LookupSameSize(c, f, s)
                                        ELSE LookupBiggerSize(c, f, s)

\* Mutant: the bound is kept.
AddToCache_Exact(c, d) ==
    <<d>> \o (IF Len(c) >= CACHE_MAX_SIZE THEN SubSeq(c, 1, Len(c) - 1) ELSE c)

\* One entry is evicted, and only when the length already exceeds the bound.
AddToCache(c, d) ==
    <<d>> \o (IF Len(c) > CACHE_MAX_SIZE THEN SubSeq(c, 1, Len(c) - 1) ELSE c)

-----------------------------------------------------------------------------
(* The running request.  An operator that is applied after other            *)
(* assignments of the same handler takes the values they left: c the cache, *)
(* rf the reference counts, l the newest request.                           *)

\* Mutant: priv->current_request gives its reference back, the caller does not.
Release_One(rf, r, n) == [rf EXCEPT ![r.id] = @ - 1]

Release(rf, r, n) == [rf EXCEPT ![r.id] = @ - n]

\* Mutant: priv->last_request keeps pointing at the finished request.
RequestFinished_KeepLast(r, rf, l) ==
    /\ last' = l
    /\ current' = NoRequest
    /\ pos' = 0
    /\ ref' = Release(rf, r, 2)

RequestFinished(r, rf, l) ==
    /\ last' = IF l = r THEN NoRequest ELSE l
    /\ current' = NoRequest
    /\ pos' = 0
    /\ ref' = Release(rf, r, 2)     \* the caller's and priv->current_request's

\* Mutant: the search starts at the current file.
NextMissing_FromCurrent(r, p, c) ==
    LET missing == {q \in p .. Len(r.files) :
                        LookupSameSize(c, r.files[q], r.size) = NoData}
    IN  IF missing = {} THEN Len(r.files) + 1
        ELSE CHOOSE q \in missing : \A k \in missing : q <= k

\* The next file that is not in the cache at this size, Len + 1 if none.
NextMissing(r, p, c) ==
    LET missing == {q \in p+1 .. Len(r.files) :
                        LookupSameSize(c, r.files[q], r.size) = NoData}
    IN  IF missing = {} THEN Len(r.files) + 1
        ELSE CHOOSE q \in missing : \A k \in missing : q <= k

\* The requested file is the first one: only it is answered, and only when
\* there is data.
IsAnswered(p, data) == p = 1 /\ data # NoData

\* The answer, if any, is queued; then the next file, or the request is finished.
RequestCompleted(r, p, data, c, rf, l) ==
    LET next == NextMissing(r, p, c)
    IN  /\ answers' = IF IsAnswered(p, data)
                      THEN Append(answers, [req |-> r, data |-> data])
                      ELSE answers
        /\ loading' = "no"
        /\ loaded' = Failed
        /\ IF next > Len(r.files)
           THEN /\ RequestFinished(r, rf, l)
                /\ timer' = FALSE
           ELSE /\ current' = r
                /\ last' = l
                /\ pos' = next
                /\ timer' = TRUE
                /\ ref' = rf

LoadCurrentFile(r, p, c, rf, l) ==
    LET f    == r.files[p]
        data == Lookup(c, f, r.size)
    IN  \/ /\ data # NoData \/ f = Modified
           /\ RequestCompleted(r, p, data, c, rf, l)
        \/ /\ data = NoData
           /\ f # Modified
           /\ loading' = "thread"
           /\ loaded' = Failed
           /\ current' = r
           /\ last' = l
           /\ pos' = p
           /\ timer' = FALSE
           /\ ref' = [rf EXCEPT ![r.id] = @ + 1]    \* load_data_new
           /\ UNCHANGED answers

StartRequest(r, c, rf, l) ==
    LoadCurrentFile(r, 1, c, [rf EXCEPT ![r.id] = @ + 1], l)

-----------------------------------------------------------------------------
(* Calls of the viewer *)

\* The neighbours' file data are as fresh as the requested one's or older.
Request(f, s, ns, v) ==
    [id    |-> issued + 1,
     files |-> <<f>> \o [i \in DOMAIN ns |-> [file |-> ns[i], mtime |-> v[ns[i]]]],
     size  |-> s]

\* gth_image_preloader_load and _gth_image_preloader_cancel_current_request
Load(f, s, ns, v) ==
    LET r  == Request(f, s, ns, v)
        rf == [ref EXCEPT ![r.id] = 1]
    IN  /\ issued < MaxRequests
        /\ issued' = issued + 1
        /\ \/ /\ current = NoRequest
              /\ StartRequest(r, cache, rf, r)
              /\ UNCHANGED cancelled
           \/ /\ current # NoRequest
              /\ timer
              /\ StartRequest(r, cache, Release(rf, current, 2), r)
              /\ UNCHANGED cancelled
           \/ /\ current # NoRequest
              /\ ~ timer
              /\ cancelled' = cancelled \union {current.id}
              /\ last' = r
              /\ ref' = rf
              /\ UNCHANGED <<current, pos, timer, loading, loaded, answers>>
        /\ UNCHANGED <<cache, delivered, disk, edit>>

\* The caller cancels the cancellable it passed with a request; that of a request
\* that ended is of no consequence.
Cancel(i) ==
    /\ i \in {current.id, last.id} \ {0}
    /\ cancelled' = cancelled \union {i}
    /\ UNCHANGED <<current, last, pos, timer, loading, loaded, cache, answers,
                   ref, issued, delivered, disk, edit>>

\* Mutant: the earlier image stays in the cache.
WithoutModified_Keep(c) == c

\* The code deletes every such entry; there is at most one (OneEntryPerImage).
WithoutModified(c) ==
    LET ms == {i \in DOMAIN c : c[i].file = GTH_MODIFIED_IMAGE}
        m  == CHOOSE i \in ms : TRUE
    IN  IF ms = {} THEN c ELSE SubSeq(c, 1, m - 1) \o SubSeq(c, m + 1, Len(c))

\* gth_image_preloader_set_modified_image: an edit, or NULL to forget it.
SetModifiedImage ==
    /\ edit < MaxEdits
    /\ edit' = edit + 1
    /\ cache' = AddToCache(WithoutModified(cache),
                           [file |-> GTH_MODIFIED_IMAGE, mtime |-> 0,
                            size |-> GTH_ORIGINAL_SIZE, image |-> edit + 1])
    /\ UNCHANGED <<current, last, pos, timer, loading, loaded, answers, ref,
                   cancelled, issued, delivered, disk>>

ForgetModifiedImage ==
    /\ cache' = WithoutModified(cache)
    /\ UNCHANGED <<current, last, pos, timer, loading, loaded, answers, ref,
                   cancelled, issued, delivered, disk, edit>>

-----------------------------------------------------------------------------
(* The worker thread, the main loop and the disk *)

\* load_image_thread: the file is read at the version it has by now, or cannot
\* be read; a cancellation seen before the thread ends overrides both.
Decode ==
    /\ loading = "thread"
    /\ loading' = "done"
    /\ IF current.id \in cancelled
       THEN loaded' = Cancelled
       ELSE loaded' \in {disk[current.files[pos].file], Failed}
    /\ UNCHANGED <<current, last, pos, timer, cache, answers, ref, cancelled,
                   issued, delivered, disk, edit>>

\* Mutants: one of the two conditions is forgotten.
Displaced_ByCancelOnly == loaded = Cancelled
Displaced_ByRequestOnly == last # current

Displaced == loaded = Cancelled \/ last # current

\* image_loader_ready_cb, when the request was cancelled or displaced: nothing
\* is kept of the decoded image and the newest request, if any, is started.
DropLoaded ==
    /\ loading = "done"
    /\ Displaced
    /\ LET rf == Release(ref, current, 3)
       IN  IF last \in {current, NoRequest}
           THEN /\ RequestFinished(current, Release(ref, current, 1), last)
                /\ loading' = "no"
                /\ loaded' = Failed
                /\ UNCHANGED <<timer, answers>>
           ELSE StartRequest(last, cache, rf, last)
    /\ UNCHANGED <<cache, cancelled, issued, delivered, disk, edit>>

\* image_loader_ready_cb otherwise: an error is cached like an image.
KeepLoaded ==
    /\ loading = "done"
    /\ ~ Displaced
    /\ LET f    == current.files[pos]
           data == [file |-> f.file, mtime |-> f.mtime, size |-> current.size,
                    image |-> loaded]
       IN  /\ cache' = AddToCache(cache, data)
           /\ RequestCompleted(current, pos, data, cache',
                               Release(ref, current, 1), last)
    /\ UNCHANGED <<cancelled, issued, delivered, disk, edit>>

\* load_current_file, the timer's callback
LoadNext ==
    /\ timer
    /\ LoadCurrentFile(current, pos, cache, ref, last)
    /\ UNCHANGED <<cache, cancelled, issued, delivered, disk, edit>>

\* The idle callback of g_simple_async_result_complete_in_idle; the callbacks
\* have one priority, so they run in the order in which they were queued.
Deliver ==
    /\ answers # <<>>
    /\ delivered' = Append(delivered, Head(answers).req.id)
    /\ answers' = Tail(answers)
    /\ UNCHANGED <<current, last, pos, timer, loading, loaded, cache, ref,
                   cancelled, issued, disk, edit>>

FileChanges(f) ==
    /\ disk[f] < MaxVersion
    /\ disk' = [disk EXCEPT ![f] = @ + 1]
    /\ UNCHANGED <<current, last, pos, timer, loading, loaded, cache, answers,
                   ref, cancelled, issued, delivered, edit>>

-----------------------------------------------------------------------------
Init ==
    /\ current = NoRequest
    /\ last = NoRequest
    /\ pos = 0
    /\ timer = FALSE
    /\ loading = "no"
    /\ loaded = Failed
    /\ cache = <<>>
    /\ answers = <<>>
    /\ ref = [i \in 1..MaxRequests |-> 0]
    /\ cancelled = {}
    /\ issued = 0
    /\ delivered = <<>>
    /\ disk = [f \in Files |-> 1]
    /\ edit = 0

\* What the callers know of the modification times: never newer than the disk.
KnownVersions == {v \in [Files -> 1..MaxVersion] : \A f \in Files : v[f] <= disk[f]}

LoadFile ==
    \E v \in KnownVersions, f \in Files, s \in AllSizes, ns \in Neighbours :
        Load([file |-> f, mtime |-> v[f]], s, ns, v)

\* update_quality_cb and gth_image_viewer_page_get_original: no neighbours
LoadModified ==
    \E v \in KnownVersions, s \in AllSizes : Load(Modified, s, <<>>, v)

MainLoop == DropLoaded \/ KeepLoaded \/ LoadNext \/ Deliver

Next ==
    \/ LoadFile
    \/ LoadModified
    \/ \E i \in 1..MaxRequests : Cancel(i)
    \/ SetModifiedImage
    \/ ForgetModifiedImage
    \/ Decode
    \/ MainLoop
    \/ \E f \in Files : FileChanges(f)

Spec == Init /\ [][Next]_vars

\* The worker thread ends and the main loop runs every callback that is due;
\* nothing obliges the viewer to call or the disk to change.
Fairness ==
    /\ WF_vars(Decode)
    /\ WF_vars(DropLoaded)
    /\ WF_vars(KeepLoaded)
    /\ WF_vars(LoadNext)
    /\ WF_vars(Deliver)

FairSpec == Spec /\ Fairness

-----------------------------------------------------------------------------
(* Properties *)

RequestRecord == [id : 1..MaxRequests, files : Seq(FileData), size : AllSizes]
Answer        == [req : RequestRecord, data : CacheData]

\* Type invariant.
TypeOK ==
    /\ current \in RequestRecord \union {NoRequest}
    /\ last \in RequestRecord \union {NoRequest}
    /\ pos \in Nat
    /\ timer \in BOOLEAN
    /\ loading \in {"no", "thread", "done"}
    /\ loaded \in {Cancelled, Failed} \union 1..MaxVersion
    /\ cache \in Seq(CacheData)
    /\ answers \in Seq(Answer)
    /\ ref \in [1..MaxRequests -> Int]
    /\ cancelled \subseteq 1..MaxRequests
    /\ issued \in 0..MaxRequests
    /\ delivered \in Seq(1..MaxRequests)
    /\ disk \in [Files -> 1..MaxVersion]
    /\ edit \in 0..MaxEdits

\* A running request always has exactly one event to wait for, the timer or the
\* ready callback, and an idle preloader has none: whatever the order of the
\* calls, no request is left running with nothing to wake it up, no timer fires
\* for a request that was replaced, and no request waits behind an idle engine.
NeverStalled ==
    /\ current = NoRequest => ~ timer /\ loading = "no" /\ last = NoRequest
    /\ current # NoRequest =>
         /\ pos \in DOMAIN current.files
         /\ timer <=> loading = "no"
         /\ last # NoRequest
         /\ timer => last = current

\* Every reference to a request is counted: the running one is held by the
\* caller's reference, by priv->current_request and by a decoding in progress,
\* the newest one by the caller's, and no one else keeps more than the caller's
\* reference (which is never given back for a request displaced while waiting).
RefsAccounted ==
    \A i \in 1..MaxRequests :
        ref[i] \in IF i = current.id THEN IF loading = "no" THEN {2} ELSE {3}
                  ELSE IF i = last.id THEN {1}
                  ELSE IF i <= issued THEN {0, 1} ELSE {0}

\* Only the newest request is ever answered: one displaced by another, running
\* or waiting, never completes afterwards, even if its file was decoded.
OnlyNewestAnswered ==
    [][Len(answers') > Len(answers)
        => /\ answers'[Len(answers')].req.id = issued'
           /\ answers'[Len(answers')].req = last \/ issued' = issued + 1]_vars

\* An answer is for the requested file, at the requested size (or better, for
\* the edited image), and never older than the modification time that the
\* caller asked for, although the file may change between request and decoding.
FreshAnswers ==
    \A i \in DOMAIN answers :
        LET r == answers[i].req
            d == answers[i].data
        IN  /\ FileMatches(d, r.files[1])
            /\ d.size = r.size \/ d.file = GTH_MODIFIED_IMAGE
            /\ d.image # Failed => d.image >= r.files[1].mtime

\* The cache holds one entry for each file, modification time and size, however
\* requests for the same files overlap.
OneEntryPerImage ==
    \A i, j \in DOMAIN cache :
        /\ FileMatches(cache[i], cache[j])
        /\ cache[i].size = cache[j].size
        => i = j

\* The only edited image in the cache is the latest one: after undo, redo or a
\* new edit no request can be answered with an image of an earlier state.
ModifiedIsLatest ==
    \A i \in DOMAIN cache :
        cache[i].file = GTH_MODIFIED_IMAGE => cache[i].image = edit

\* The newest request, while it waits for its file, is eventually answered,
\* unless another displaces it or its caller cancels it.  (A request for the
\* edited image that the cache does not have never waits, and is never answered.)
\* And a request that runs ends: its preloading of the neighbours, one timer at a
\* time, does not keep the preloader busy for ever.
RequestsEnd ==
    \A i \in 1..MaxRequests :
        /\ (last.id = i /\ last.files[1] # Modified)
           ~> (\/ \E k \in DOMAIN delivered : delivered[k] = i
               \/ issued > i
               \/ i \in cancelled)
        /\ (current.id = i) ~> (current.id # i)

-----------------------------------------------------------------------------
(* Refinement *)

\* A running request waits for its answer until its first file is done; a newer
\* one waits as soon as it is asked for.
Waiting ==
    IF last = NoRequest \/ (last = current /\ pos > 1) THEN 0 ELSE last.id

Service == INSTANCE LoadService WITH
    latest  <- issued,
    waiting <- Waiting,
    queue   <- [i \in DOMAIN answers |-> answers[i].req.id]

\* Seen by its callers, gth-image-preloader.c does what LoadService promises: threads,
\* timers, the cache and the files decoded in advance only decide when a waiting
\* request is answered, and whether it is.
ImplementsService == Service!ServiceSpec
=============================================================================
