-------------------------- MODULE ViewerPage_proofs --------------------------
(***************************************************************************)
(* Theorems about the image preloader and about the viewer page on top of  *)
(* it, for every set of files, every cache size (the page's holds one      *)
(* request), and every number of requests and edits.  Four parts: the      *)
(* engine of the preloader; the images it keeps and the answers it gives;  *)
(* the service that it implements; the page.                               *)
(***************************************************************************)
EXTENDS ViewerPage, TLAPS, SequenceTheorems, WellFoundedInduction

-----------------------------------------------------------------------------
(***************************************************************************)
(* PART I.  The engine of the preloader, for every set of files, every     *)
(* cache size and every number of requests.                                *)
(***************************************************************************)

(***************************************************************************)
(* The inductive invariant: the types of the engine's variables, who holds *)
(* which reference, what a running request waits for, and how the ids of   *)
(* the running and of the newest request are related.                      *)
(***************************************************************************)
EngineTypes ==
    /\ current \in RequestRecord \union {NoRequest}
    /\ last \in RequestRecord \union {NoRequest}
    /\ pos \in Nat
    /\ timer \in BOOLEAN
    /\ loading \in {"no", "thread", "done"}
    /\ ref \in [1..MaxRequests -> Int]
    /\ issued \in 0..MaxRequests

Ids ==
    /\ last # NoRequest => last.id = issued /\ Len(last.files) > 0
    /\ current # NoRequest => current.id <= issued
    /\ current.id = last.id => current = last

IInv == EngineTypes /\ NeverStalled /\ RefsAccounted /\ Ids

(* A nonempty set of natural numbers has a least element. *)
LEMMA LeastElement ==
    ASSUME NEW S, S \subseteq Nat, S # {}
    PROVE  \E x \in S : \A y \in S : x <= y
<1>1. PICK x \in S : \A y \in S : <<y, x>> \notin OpToRel(<, Nat)
  BY NatLessThanWellFounded, WFMin
<1>2. \A y \in S : ~ (y < x)
  BY <1>1, Zenon DEF OpToRel
<1>3. \A y \in S : x <= y
  BY <1>2
<1> QED  BY <1>3

(* The next file to decode is a later one of the list, or past its end. *)
LEMMA NextMissingRange ==
    ASSUME NEW r \in RequestRecord, NEW p \in DOMAIN r.files, NEW c
    PROVE  NextMissing(r, p, c) \in p+1 .. Len(r.files) + 1
<1> DEFINE missing == {q \in p+1 .. Len(r.files) :
                         LookupSameSize(c, r.files[q], r.size) = NoData}
<1>1. r.files \in Seq(FileData) /\ Len(r.files) \in Nat /\ p \in 1..Len(r.files)
  BY DEF RequestRecord
<1>2. CASE missing = {}
  BY <1>1, <1>2 DEF NextMissing
<1>3. CASE missing # {}
  <2>1. missing \subseteq Nat
    BY <1>1
  <2>2. \E q \in missing : \A k \in missing : q <= k
    BY <1>3, <2>1, LeastElement
  <2>3. NextMissing(r, p, c) = CHOOSE q \in missing : \A k \in missing : q <= k
    BY <1>3 DEF NextMissing
  <2>4. NextMissing(r, p, c) \in missing
    BY <2>2, <2>3
  <2> QED  BY <1>1, <2>4
<1> QED  BY <1>2, <1>3

(***************************************************************************)
(* The two ways in which a handler leaves the engine, whatever the handler *)
(* has done before: EngineBefore says what it must have established, in    *)
(* terms of the arguments it passes and of issued'.                        *)
(***************************************************************************)
EngineBefore(r, p, rf) ==
    /\ issued' \in 0..MaxRequests
    /\ r \in RequestRecord
    /\ r.id = issued'
    /\ p \in DOMAIN r.files
    /\ rf \in [1..MaxRequests -> Int]
    /\ rf[r.id] = 2
    /\ \A i \in 1..MaxRequests \ {r.id} :
            rf[i] \in {0, 1} /\ (i > issued' => rf[i] = 0)

(* Taking and giving back references keeps the type of the counters. *)
LEMMA RefType ==
    ASSUME NEW rf \in [1..MaxRequests -> Int], NEW k \in 1..MaxRequests, NEW n \in Int
    PROVE  /\ [rf EXCEPT ![k] = @ + n] \in [1..MaxRequests -> Int]
           /\ [rf EXCEPT ![k] = @ - n] \in [1..MaxRequests -> Int]
OBVIOUS

(* Completing a file leaves a queued timer or an idle preloader. *)
LEMMA CompletedSound ==
    ASSUME PreloaderAssumption, NEW r, NEW p, NEW data, NEW c, NEW rf,
           EngineBefore(r, p, rf),
           RequestCompleted(r, p, data, c, rf, r)
    PROVE  IInv'
<1> DEFINE next == NextMissing(r, p, c)
<1>1. /\ r \in RequestRecord /\ r.id \in 1..MaxRequests /\ r # NoRequest
      /\ r.files \in Seq(FileData) /\ Len(r.files) \in Nat /\ Len(r.files) > 0
      /\ r.id = issued'
      /\ p \in DOMAIN r.files /\ p \in 1..Len(r.files)
  BY DEF EngineBefore, RequestRecord, NoRequest
<1>2. next \in p+1 .. Len(r.files) + 1
  BY <1>1, NextMissingRange
<1>3. loading' = "no"
  BY DEF RequestCompleted
<1>4. CASE next > Len(r.files)
  <2>1. /\ last' = NoRequest /\ current' = NoRequest /\ pos' = 0 /\ timer' = FALSE
        /\ ref' = [rf EXCEPT ![r.id] = @ - 2]
    BY <1>4 DEF RequestCompleted, RequestFinished, Release
  <2>2. NoRequest.id = 0
    BY DEF NoRequest
  <2>3. EngineTypes'
    <3>1. ref' \in [1..MaxRequests -> Int]
      BY <1>1, <2>1, RefType DEF EngineBefore
    <3> QED  BY <1>3, <2>1, <3>1 DEF EngineTypes, EngineBefore
  <2>4. NeverStalled' /\ Ids'
    BY <1>3, <2>1 DEF NeverStalled, Ids
  <2>5. RefsAccounted'
    BY <1>1, <2>1, <2>2 DEF RefsAccounted, EngineBefore
  <2> QED  BY <2>3, <2>4, <2>5 DEF IInv
<1>5. CASE ~ (next > Len(r.files))
  <2>1. /\ last' = r /\ current' = r /\ pos' = next /\ timer' = TRUE /\ ref' = rf
    BY <1>5 DEF RequestCompleted
  <2>2. next \in DOMAIN r.files
    BY <1>1, <1>2, <1>5
  <2>3. EngineTypes'
    BY <1>1, <1>2, <1>3, <2>1 DEF EngineTypes, EngineBefore
  <2>4. NeverStalled' /\ Ids'
    BY <1>1, <1>3, <2>1, <2>2 DEF NeverStalled, Ids
  <2>5. RefsAccounted'
    <3> SUFFICES ASSUME NEW i \in 1..MaxRequests
                 PROVE  ref'[i] \in IF i = r.id THEN {2}
                                    ELSE IF i <= issued' THEN {0, 1} ELSE {0}
      BY <1>3, <2>1 DEF RefsAccounted
    <3>1. rf[i] \in IF i = r.id THEN {2} ELSE IF i <= issued' THEN {0, 1} ELSE {0}
      BY <1>1 DEF EngineBefore
    <3> QED  BY <2>1, <3>1
  <2> QED  BY <2>3, <2>4, <2>5 DEF IInv
<1> QED  BY <1>4, <1>5

(* Loading a file leaves a decoding in progress, or completes the file. *)
LEMMA LoadCurrentSound ==
    ASSUME PreloaderAssumption, NEW r, NEW p, NEW c, NEW rf,
           EngineBefore(r, p, rf),
           LoadCurrentFile(r, p, c, rf, r)
    PROVE  IInv'
<1> DEFINE f    == r.files[p]
           data == Lookup(c, f, r.size)
<1>1. CASE RequestCompleted(r, p, data, c, rf, r)
  BY <1>1, CompletedSound
<1>2. CASE /\ loading' = "thread" /\ current' = r /\ last' = r /\ pos' = p
           /\ timer' = FALSE /\ ref' = [rf EXCEPT ![r.id] = @ + 1]
  <2>1. /\ r \in RequestRecord /\ r.id \in 1..MaxRequests /\ r # NoRequest
        /\ Len(r.files) \in Nat /\ Len(r.files) > 0
        /\ p \in Nat /\ p \in DOMAIN r.files
    BY DEF EngineBefore, RequestRecord, NoRequest
  <2>2. EngineTypes'
    <3>1. ref' \in [1..MaxRequests -> Int]
      BY <1>2, <2>1, RefType DEF EngineBefore
    <3> QED  BY <1>2, <2>1, <3>1 DEF EngineTypes, EngineBefore
  <2>3. NeverStalled' /\ Ids'
    BY <1>2, <2>1 DEF NeverStalled, Ids, EngineBefore
  <2>4. RefsAccounted'
    <3> SUFFICES ASSUME NEW i \in 1..MaxRequests
                 PROVE  ref'[i] \in IF i = r.id THEN {3}
                                    ELSE IF i <= issued' THEN {0, 1} ELSE {0}
      BY <1>2 DEF RefsAccounted
    <3>1. rf[i] \in IF i = r.id THEN {2} ELSE IF i <= issued' THEN {0, 1} ELSE {0}
      BY <2>1 DEF EngineBefore
    <3>2. rf \in [1..MaxRequests -> Int]
      BY DEF EngineBefore
    <3> QED  BY <1>2, <2>1, <3>1, <3>2
  <2> QED  BY <2>2, <2>3, <2>4 DEF IInv
<1> QED  BY <1>1, <1>2 DEF LoadCurrentFile

engine == <<current, last, pos, timer, loading, ref, issued>>

(* Steps that leave the engine alone. *)
LEMMA UnchangedSound ==
    ASSUME IInv, UNCHANGED engine
    PROVE  IInv'
BY DEF IInv, EngineTypes, NeverStalled, RefsAccounted, Ids, engine

(* A request the callers build has the record's type and the next id. *)
LEMMA RequestType ==
    ASSUME PreloaderAssumption, NEW f \in FileData, NEW s \in AllSizes,
           NEW ns \in Seq(Files), NEW v \in [Files -> 1..MaxVersion],
           issued \in 0..MaxRequests, issued < MaxRequests
    PROVE  /\ Request(f, s, ns, v) \in RequestRecord
           /\ Request(f, s, ns, v).id = issued + 1
           /\ Len(Request(f, s, ns, v).files) > 0
           /\ 1 \in DOMAIN Request(f, s, ns, v).files
<1> DEFINE tail == [i \in DOMAIN ns |-> [file |-> ns[i], mtime |-> v[ns[i]]]]
<1>1. Len(ns) \in Nat /\ DOMAIN ns = 1..Len(ns) /\ \A i \in DOMAIN ns : ns[i] \in Files
  OBVIOUS
<1>2. \A i \in DOMAIN ns : tail[i] \in FileData
  BY <1>1 DEF FileData
<1>3. tail \in [1..Len(ns) -> FileData]
  BY <1>1, <1>2
<1>4. tail \in Seq(FileData)
  BY <1>1, <1>3, SeqDef
<1>5. /\ <<f>> \o tail \in Seq(FileData)
      /\ Len(<<f>> \o tail) > 0
      /\ 1 \in DOMAIN (<<f>> \o tail)
  BY <1>4
<1> QED  BY <1>5 DEF Request, RequestRecord

LEMMA LoadSound ==
    ASSUME PreloaderAssumption, IInv,
           NEW f \in FileData, NEW s \in AllSizes,
           NEW ns \in Seq(Files), NEW v \in [Files -> 1..MaxVersion],
           Load(f, s, ns, v)
    PROVE  IInv'
<1> DEFINE r  == Request(f, s, ns, v)
           rf == [ref EXCEPT ![r.id] = 1]
<1>1. issued \in 0..MaxRequests /\ issued < MaxRequests /\ issued' = issued + 1
  BY DEF Load, IInv, EngineTypes
<1>2. /\ r \in RequestRecord /\ r.id = issued' /\ Len(r.files) > 0
      /\ 1 \in DOMAIN r.files /\ r.id \in 1..MaxRequests
  BY <1>1, RequestType DEF PreloaderAssumption
<1>3. NoRequest.id = 0 /\ NoRequest.files = <<>>
  BY DEF NoRequest
<1>4. /\ ref \in [1..MaxRequests -> Int] /\ rf \in [1..MaxRequests -> Int]
      /\ current \in RequestRecord \union {NoRequest}
      /\ last \in RequestRecord \union {NoRequest}
  BY <1>2 DEF IInv, EngineTypes
<1> HIDE DEF r
<1>5. CASE current = NoRequest /\ StartRequest(r, cache, rf, r)
  <2> DEFINE rs == [rf EXCEPT ![r.id] = @ + 1]
  <2>1. rs \in [1..MaxRequests -> Int] /\ rs[r.id] = 2
    BY <1>2, <1>4
  <2>2. \A i \in 1..MaxRequests \ {r.id} :
            rs[i] = ref[i] /\ ref[i] \in {0, 1} /\ (i > issued' => ref[i] = 0)
    BY <1>1, <1>2, <1>3, <1>4, <1>5 DEF IInv, NeverStalled, RefsAccounted
  <2>3. EngineBefore(r, 1, rs)
    <3> HIDE DEF rs
    <3>1. issued' \in 0..MaxRequests /\ r \in RequestRecord /\ r.id = issued'
      BY <1>1, <1>2
    <3>2. 1 \in DOMAIN r.files
      BY <1>2
    <3>3. rs \in [1..MaxRequests -> Int] /\ rs[r.id] = 2
      BY <2>1
    <3>4. \A i \in 1..MaxRequests \ {r.id} :
            rs[i] \in {0, 1} /\ (i > issued' => rs[i] = 0)
      BY <2>2
    <3> QED  BY <3>1, <3>2, <3>3, <3>4 DEF EngineBefore
  <2>4. LoadCurrentFile(r, 1, cache, rs, r)
    BY <1>5 DEF StartRequest
  <2> QED  BY <2>3, <2>4, LoadCurrentSound
<1>6. CASE /\ current # NoRequest /\ timer
           /\ StartRequest(r, cache, Release(rf, current, 2), r)
  <2> DEFINE rc == Release(rf, current, 2)
             rs == [rc EXCEPT ![r.id] = @ + 1]
  <2>1. /\ current \in RequestRecord /\ current.id \in 1..MaxRequests
        /\ current.id <= issued /\ current.id # r.id /\ loading = "no"
        /\ last = current
    BY <1>1, <1>2, <1>4, <1>6 DEF IInv, Ids, NeverStalled, RequestRecord
  <2>2. ref[current.id] = 2
    BY <2>1 DEF IInv, RefsAccounted
  <2>3. rc \in [1..MaxRequests -> Int] /\ rc[r.id] = 1 /\ rc[current.id] = 0
    BY <1>2, <1>4, <2>1, <2>2 DEF Release
  <2>4. rs \in [1..MaxRequests -> Int] /\ rs[r.id] = 2 /\ rs[current.id] = 0
    <3> HIDE DEF rc
    <3>1. rs \in [1..MaxRequests -> Int]
      BY <1>2, <2>3, RefType
    <3>2. rs[r.id] = 2
      BY <1>2, <2>3
    <3>3. rs[current.id] = 0
      BY <2>1, <2>3
    <3> QED  BY <3>1, <3>2, <3>3
  <2>5. ASSUME NEW i \in 1..MaxRequests, i # r.id, i # current.id
        PROVE  rs[i] = ref[i]
    <3>1. rf[i] = ref[i]
      BY <1>4, <2>5
    <3>2. rc[i] = rf[i]
      BY <1>4, <2>5 DEF Release
    <3>3. rs[i] = rc[i]
      BY <2>3, <2>5
    <3> QED  BY <3>1, <3>2, <3>3
  <2>6. \A i \in 1..MaxRequests \ {r.id, current.id} :
            ref[i] \in {0, 1} /\ (i > issued' => ref[i] = 0)
    BY <1>1, <2>1 DEF IInv, RefsAccounted
  <2>7. EngineBefore(r, 1, rs)
    <3> HIDE DEF rs
    <3>1. issued' \in 0..MaxRequests /\ r \in RequestRecord /\ r.id = issued'
      BY <1>1, <1>2
    <3>2. 1 \in DOMAIN r.files
      BY <1>2
    <3>3. rs \in [1..MaxRequests -> Int] /\ rs[r.id] = 2
      BY <2>4
    <3>4. \A i \in 1..MaxRequests \ {r.id} :
            rs[i] \in {0, 1} /\ (i > issued' => rs[i] = 0)
      BY <1>1, <2>1, <2>4, <2>5, <2>6
    <3> QED  BY <3>1, <3>2, <3>3, <3>4 DEF EngineBefore
  <2>8. LoadCurrentFile(r, 1, cache, rs, r)
    BY <1>6 DEF StartRequest
  <2> QED  BY <2>7, <2>8, LoadCurrentSound
<1>7. CASE /\ current # NoRequest /\ ~ timer /\ last' = r /\ ref' = rf
           /\ UNCHANGED <<current, pos, timer, loading>>
  <2>1. /\ current \in RequestRecord /\ current.id <= issued /\ current.id # r.id
        /\ loading # "no" /\ r # NoRequest
    BY <1>1, <1>2, <1>3, <1>4, <1>7 DEF IInv, Ids, NeverStalled, RequestRecord
  <2>2. EngineTypes'
    BY <1>1, <1>2, <1>4, <1>7 DEF IInv, EngineTypes
  <2>3. NeverStalled'
    BY <1>7, <2>1 DEF IInv, NeverStalled
  <2>4. Ids'
    BY <1>1, <1>2, <1>7, <2>1 DEF Ids, RequestRecord
  <2>5. RefsAccounted'
    <3> SUFFICES ASSUME NEW i \in 1..MaxRequests
                 PROVE  rf[i] \in IF i = current.id THEN {3}
                                  ELSE IF i = r.id THEN {1}
                                  ELSE IF i <= issued' THEN {0, 1} ELSE {0}
      BY <1>7, <2>1 DEF RefsAccounted, IInv, EngineTypes
    <3>1. ref[i] \in IF i = current.id THEN {3}
                     ELSE IF i <= issued THEN {0, 1} ELSE {0}
      BY <1>3, <2>1 DEF IInv, RefsAccounted, Ids
    <3> QED  BY <1>1, <1>2, <1>4, <2>1, <3>1
  <2> QED  BY <2>2, <2>3, <2>4, <2>5 DEF IInv
<1> QED  BY <1>5, <1>6, <1>7 DEF Load, r

LEMMA DropLoadedSound ==
    ASSUME PreloaderAssumption, IInv, DropLoaded
    PROVE  IInv'
<1>1. /\ current # NoRequest /\ loading = "done" /\ ~ timer /\ last # NoRequest
      /\ current \in RequestRecord /\ last \in RequestRecord
      /\ current.id \in 1..MaxRequests /\ last.id \in 1..MaxRequests
      /\ last.id = issued /\ current.id <= issued /\ Len(last.files) > 0
      /\ issued \in 0..MaxRequests /\ timer \in BOOLEAN
      /\ ref \in [1..MaxRequests -> Int]
  BY DEF DropLoaded, IInv, NeverStalled, EngineTypes, Ids, RequestRecord
<1>2. NoRequest.id = 0 /\ NoRequest.files = <<>>
  BY DEF NoRequest
<1>3. ref[current.id] = 3
  BY <1>1 DEF IInv, RefsAccounted
<1>4. \A i \in 1..MaxRequests \ {current.id} :
        ref[i] \in IF i = last.id THEN {1} ELSE IF i <= issued THEN {0, 1} ELSE {0}
  BY <1>1 DEF IInv, RefsAccounted
<1>5. issued' = issued
  BY DEF DropLoaded
<1>6. CASE last = current
  <2>1. /\ last' = NoRequest /\ current' = NoRequest /\ pos' = 0 /\ timer' = timer
        /\ ref' = Release(Release(ref, current, 1), current, 2)
        /\ loading' = "no"
    BY <1>6 DEF DropLoaded, RequestFinished
  <2>2. /\ ref' \in [1..MaxRequests -> Int]
        /\ \A i \in 1..MaxRequests :
                ref'[i] = IF i = current.id THEN 0 ELSE ref[i]
    BY <1>1, <1>3, <2>1 DEF Release
  <2>3. EngineTypes'
    BY <1>1, <1>5, <2>1, <2>2 DEF EngineTypes
  <2>s. NeverStalled' /\ Ids'
    BY <1>1, <2>1 DEF NeverStalled, Ids
  <2>4. RefsAccounted'
    <3> SUFFICES ASSUME NEW i \in 1..MaxRequests
                 PROVE  ref'[i] \in IF i <= issued THEN {0, 1} ELSE {0}
      BY <1>2, <1>5, <2>1 DEF RefsAccounted
    <3>1. i # current.id => ref[i] \in IF i <= issued THEN {0, 1} ELSE {0}
      BY <1>4, <1>6
    <3>2. ref'[i] = IF i = current.id THEN 0 ELSE ref[i]
      BY <2>2
    <3> QED  BY <1>1, <3>1, <3>2
  <2> QED  BY <2>3, <2>s, <2>4 DEF IInv
<1>7. CASE last # current
  <2> DEFINE rf == Release(ref, current, 3)
             rs == [rf EXCEPT ![last.id] = @ + 1]
  <2>1. current.id # last.id
    BY <1>7 DEF IInv, Ids
  <2>2. /\ rf \in [1..MaxRequests -> Int]
        /\ \A i \in 1..MaxRequests :
                rf[i] = IF i = current.id THEN 0 ELSE ref[i]
    BY <1>1, <1>3 DEF Release
  <2>3. /\ rs \in [1..MaxRequests -> Int]
        /\ \A i \in 1..MaxRequests : rs[i] = IF i = last.id THEN 2 ELSE rf[i]
    <3> HIDE DEF rf
    <3>1. rf[last.id] = 1
      BY <1>1, <1>4, <2>1, <2>2
    <3> QED  BY <1>1, <2>2, <3>1
  <2>4. EngineBefore(last, 1, rs)
    <3> HIDE DEF rs
    <3>1. issued' \in 0..MaxRequests /\ last \in RequestRecord /\ last.id = issued'
      BY <1>1, <1>5
    <3>2. 1 \in DOMAIN last.files
      BY <1>1 DEF RequestRecord
    <3>3. rs \in [1..MaxRequests -> Int] /\ rs[last.id] = 2
      BY <1>1, <2>3
    <3>4. ASSUME NEW i \in 1..MaxRequests \ {last.id}
          PROVE  rs[i] \in {0, 1} /\ (i > issued' => rs[i] = 0)
      <4> HIDE DEF rf
      <4>1. rs[i] = IF i = current.id THEN 0 ELSE ref[i]
        BY <2>2, <2>3
      <4>2. i # current.id => ref[i] \in IF i <= issued THEN {0, 1} ELSE {0}
        BY <1>4
      <4> QED  BY <1>1, <1>5, <4>1, <4>2
    <3> QED  BY <3>1, <3>2, <3>3, <3>4 DEF EngineBefore
  <2>5. LoadCurrentFile(last, 1, cache, rs, last)
    BY <1>1, <1>7 DEF DropLoaded, StartRequest
  <2> QED  BY <2>4, <2>5, LoadCurrentSound
<1> QED  BY <1>6, <1>7

LEMMA KeepLoadedSound ==
    ASSUME PreloaderAssumption, IInv, KeepLoaded
    PROVE  IInv'
<1> DEFINE rf   == Release(ref, current, 1)
           data == [file |-> current.files[pos].file,
                    mtime |-> current.files[pos].mtime,
                    size |-> current.size, image |-> loaded]
<1>1. /\ current # NoRequest /\ loading = "done" /\ ~ timer /\ last = current
      /\ current \in RequestRecord /\ current.id \in 1..MaxRequests
      /\ current.id = issued /\ pos \in DOMAIN current.files
      /\ issued \in 0..MaxRequests
      /\ ref \in [1..MaxRequests -> Int]
  BY DEF KeepLoaded, Displaced, IInv, NeverStalled, EngineTypes, Ids, RequestRecord
<1>2. ref[current.id] = 3
  BY <1>1 DEF IInv, RefsAccounted
<1>3. /\ rf \in [1..MaxRequests -> Int]
      /\ \A i \in 1..MaxRequests : rf[i] = IF i = current.id THEN 2 ELSE ref[i]
  BY <1>1, <1>2 DEF Release
<1>4. issued' = issued
  BY DEF KeepLoaded
<1>5. EngineBefore(current, pos, rf)
  <2> HIDE DEF rf
  <2>1. \A i \in 1..MaxRequests \ {current.id} :
            rf[i] \in {0, 1} /\ (i > issued' => rf[i] = 0)
    BY <1>1, <1>3, <1>4 DEF IInv, RefsAccounted
  <2> QED  BY <1>1, <1>3, <1>4, <2>1 DEF EngineBefore
<1>6. RequestCompleted(current, pos, data, cache', rf, current)
  BY <1>1 DEF KeepLoaded
<1> QED  BY <1>5, <1>6, CompletedSound

LEMMA LoadNextSound ==
    ASSUME PreloaderAssumption, IInv, LoadNext
    PROVE  IInv'
<1>1. /\ current # NoRequest /\ loading = "no" /\ last = current
      /\ current \in RequestRecord /\ current.id \in 1..MaxRequests
      /\ current.id = issued /\ pos \in DOMAIN current.files
      /\ issued \in 0..MaxRequests
      /\ ref \in [1..MaxRequests -> Int]
  BY DEF LoadNext, IInv, NeverStalled, EngineTypes, Ids, RequestRecord
<1>2. issued' = issued
  BY DEF LoadNext
<1>3. EngineBefore(current, pos, ref)
  <2>1. ref[current.id] = 2
    BY <1>1 DEF IInv, RefsAccounted
  <2>2. \A i \in 1..MaxRequests \ {current.id} :
            ref[i] \in {0, 1} /\ (i > issued' => ref[i] = 0)
    BY <1>1, <1>2 DEF IInv, RefsAccounted
  <2> QED  BY <1>1, <1>2, <2>1, <2>2 DEF EngineBefore
<1>4. LoadCurrentFile(current, pos, cache, ref, current)
  BY <1>1 DEF LoadNext
<1> QED  BY <1>3, <1>4, LoadCurrentSound

(* The thread ends: the ready callback takes its place as the awaited event. *)
LEMMA DecodeSound ==
    ASSUME IInv, Decode
    PROVE  IInv'
<1>1. loading = "thread" /\ loading' = "done"
      /\ UNCHANGED <<current, last, pos, timer, ref, issued>>
  BY DEF Decode
<1> QED
  BY <1>1 DEF IInv, EngineTypes, NeverStalled, RefsAccounted, Ids

LEMMA EngineStep ==
    ASSUME PreloaderAssumption, IInv, [Next]_vars
    PROVE  IInv'
<1>1. ASSUME LoadFile  PROVE IInv'
  <2>1. PICK v \in KnownVersions, f \in Files, s \in AllSizes, ns \in Neighbours :
              Load([file |-> f, mtime |-> v[f]], s, ns, v)
    BY <1>1 DEF LoadFile
  <2>2. /\ v \in [Files -> 1..MaxVersion] /\ ns \in Seq(Files)
        /\ [file |-> f, mtime |-> v[f]] \in FileData
    BY DEF KnownVersions, PreloaderAssumption, FileData
  <2> QED  BY <2>1, <2>2, LoadSound
<1>2. ASSUME LoadModified  PROVE IInv'
  <2>1. PICK v \in KnownVersions, s \in AllSizes : Load(Modified, s, <<>>, v)
    BY <1>2 DEF LoadModified
  <2>2. /\ v \in [Files -> 1..MaxVersion] /\ <<>> \in Seq(Files)
        /\ Modified \in FileData
    BY DEF KnownVersions, FileData
  <2> QED  BY <2>1, <2>2, LoadSound
<1>3. ASSUME NEW i \in 1..MaxRequests, Cancel(i)  PROVE IInv'
  BY <1>3, UnchangedSound DEF Cancel, engine
<1>4. ASSUME SetModifiedImage \/ ForgetModifiedImage  PROVE IInv'
  BY <1>4, UnchangedSound DEF SetModifiedImage, ForgetModifiedImage, engine
<1>5. ASSUME Decode  PROVE IInv'
  BY <1>5, DecodeSound
<1>6. ASSUME MainLoop  PROVE IInv'
  <2>1. CASE Deliver
    BY <2>1, UnchangedSound DEF Deliver, engine
  <2> QED
    BY <1>6, <2>1, DropLoadedSound, KeepLoadedSound, LoadNextSound,
       PreloaderAssumption DEF MainLoop
<1>7. ASSUME NEW f \in Files, FileChanges(f)  PROVE IInv'
  BY <1>7, UnchangedSound DEF FileChanges, engine
<1>8. CASE UNCHANGED vars
  BY <1>8, UnchangedSound DEF vars, engine
<1> QED
  BY <1>1, <1>2, <1>3, <1>4, <1>5, <1>6, <1>7, <1>8 DEF Next

LEMMA InitIInv == Init => IInv
<1> SUFFICES ASSUME Init  PROVE IInv
  OBVIOUS
<1>1. EngineTypes
  <2>1. MaxRequests \in Nat
    BY PreloaderAssumption DEF PreloaderAssumption
  <2>2. current = NoRequest /\ last = NoRequest /\ timer \in BOOLEAN
    BY DEF Init
  <2>3. pos \in Nat /\ loading = "no" /\ issued \in 0..MaxRequests
    BY <2>1 DEF Init
  <2>4. ref \in [1..MaxRequests -> Int]
    BY DEF Init
  <2> QED  BY <2>1, <2>2, <2>3, <2>4 DEF EngineTypes
<1>2. NeverStalled /\ Ids
  BY DEF Init, NeverStalled, Ids
<1>3. RefsAccounted
  <2>1. /\ current.id = 0 /\ last.id = 0 /\ issued = 0
        /\ \A i \in 1..MaxRequests : ref[i] = 0
    BY DEF Init, NoRequest
  <2>2. \A i \in 1..MaxRequests : i # 0 /\ ~ (i <= issued)
    BY <2>1, PreloaderAssumption DEF PreloaderAssumption
  <2> QED  BY <2>1, <2>2 DEF RefsAccounted
<1> QED  BY <1>1, <1>2, <1>3 DEF IInv

(***************************************************************************)
(* No order of calls, callbacks and thread steps leaves a request running  *)
(* with nothing to wake it up, two events awaited at once, a timer for a   *)
(* displaced request, or a reference uncounted.                            *)
(***************************************************************************)
THEOREM EngineInvariant == Spec => []IInv
<1>1. Init => IInv
  BY InitIInv
<1>2. IInv /\ [Next]_vars => IInv'
  BY EngineStep, PreloaderAssumption
<1> QED  BY <1>1, <1>2, PTL DEF Spec

THEOREM NeverStalledHolds == Spec => []NeverStalled
<1>1. IInv => NeverStalled
  BY DEF IInv
<1> QED  BY <1>1, EngineInvariant, PTL

THEOREM RefsAccountedHolds == Spec => []RefsAccounted
<1>1. IInv => RefsAccounted
  BY DEF IInv
<1> QED  BY <1>1, EngineInvariant, PTL

-----------------------------------------------------------------------------
(***************************************************************************)
(* PART II.  The images that the preloader keeps and the answers it gives. *)
(* They rest on the invariant of the engine, IInv.                         *)
(***************************************************************************)

(***************************************************************************)
(* The inductive invariant.  An entry is at least as new as its key says,  *)
(* and that of the edited image is the latest edit; a file is only decoded *)
(* while the cache has no entry for it, whatever is added meanwhile; and a *)
(* request never asks for a time that the disk has not reached.            *)
(***************************************************************************)
EntryOK(d, e) ==
    /\ d.file = GTH_MODIFIED_IMAGE =>
         d.mtime = 0 /\ d.size = GTH_ORIGINAL_SIZE /\ d.image = e
    /\ d.image # Failed => d.image >= d.mtime

CacheOK(c, e) ==
    /\ c \in Seq(CacheData)
    /\ \A i, j \in DOMAIN c :
          FileMatches(c[i], c[j]) /\ c[i].size = c[j].size => i = j
    /\ \A i \in DOMAIN c : EntryOK(c[i], e)

Known(r, v) ==
    \A q \in DOMAIN r.files :
        r.files[q].file # GTH_MODIFIED_IMAGE => r.files[q].mtime <= v[r.files[q].file]

DecodingOK ==
    loading # "no" =>
        /\ current.files[pos].file # GTH_MODIFIED_IMAGE
        /\ \A i \in DOMAIN cache :
              ~ IsValidFor(cache[i], current.files[pos], current.size)
        /\ loading = "done" /\ loaded \notin {Cancelled, Failed} =>
              loaded >= current.files[pos].mtime

AnswersPast ==
    \A i \in DOMAIN answers :
        /\ answers[i].req.id <= issued
        /\ answers[i].data.file = GTH_MODIFIED_IMAGE => answers[i].data.image <= edit

CacheTypes ==
    /\ loaded \in {Cancelled, Failed} \union 1..MaxVersion
    /\ answers \in Seq(Answer)
    /\ cancelled \subseteq 1..MaxRequests
    /\ delivered \in Seq(1..MaxRequests)
    /\ disk \in [Files -> 1..MaxVersion]
    /\ edit \in 0..MaxEdits

CInv ==
    /\ CacheTypes
    /\ CacheOK(cache, edit)
    /\ Known(current, disk) /\ Known(last, disk)
    /\ FreshAnswers
    /\ AnswersPast
    /\ DecodingOK

(* What an answer may be for a request. *)
Suits(d, r) ==
    /\ d \in CacheData
    /\ FileMatches(d, r.files[1])
    /\ d.size = r.size \/ d.file = GTH_MODIFIED_IMAGE
    /\ d.image # Failed => d.image >= r.files[1].mtime
    /\ d.file = GTH_MODIFIED_IMAGE => d.image = edit

-----------------------------------------------------------------------------
(* The cache *)

LEMMA FirstInSet ==
    ASSUME NEW c \in Seq(CacheData), NEW S, S \subseteq DOMAIN c, S # {}
    PROVE  \E i \in S : First(c, S) = c[i]
<1>1. S \subseteq Nat
  OBVIOUS
<1>2. \E i \in S : \A j \in S : i <= j
  BY <1>1, LeastElement
<1>3. (CHOOSE i \in S : \A j \in S : i <= j) \in S
  BY <1>2
<1> QED  BY <1>3 DEF First

(* What is found is for the file that was looked up, and as new as asked. *)
LEMMA LookupSuits ==
    ASSUME PreloaderAssumption, NEW c, NEW e, CacheOK(c, e),
           NEW f \in FileData, NEW s \in AllSizes, Lookup(c, f, s) # NoData
    PROVE  LET d == Lookup(c, f, s)
           IN  /\ d \in CacheData
               /\ FileMatches(d, f)
               /\ d.size = s \/ d.file = GTH_MODIFIED_IMAGE
               /\ d.image # Failed => d.image >= f.mtime
               /\ d.file = GTH_MODIFIED_IMAGE => d.image = e
<1> DEFINE same   == {i \in DOMAIN c : IsValidFor(c[i], f, s)}
           bigger == {i \in DOMAIN c : HasBetterQualityFor(c[i], f, s)}
<1>1. c \in Seq(CacheData) /\ \A i \in DOMAIN c : EntryOK(c[i], e)
  BY DEF CacheOK
<1>2. CASE LookupSameSize(c, f, s) # NoData
  <2>1. same # {} /\ Lookup(c, f, s) = First(c, same)
    BY <1>2 DEF Lookup, LookupSameSize
  <2>2. PICK i \in same : Lookup(c, f, s) = c[i]
    BY <1>1, <2>1, FirstInSet
  <2>3. c[i] \in CacheData /\ EntryOK(c[i], e) /\ IsValidFor(c[i], f, s)
    BY <1>1, <2>2
  <2> QED  BY <2>2, <2>3 DEF EntryOK, IsValidFor, FileMatches
<1>3. CASE LookupSameSize(c, f, s) = NoData
  <2>1. f = Modified /\ bigger # {} /\ Lookup(c, f, s) = First(c, bigger)
    BY <1>3 DEF Lookup, LookupBiggerSize
  <2>2. PICK i \in bigger : Lookup(c, f, s) = c[i]
    BY <1>1, <2>1, FirstInSet
  <2>3. c[i] \in CacheData /\ EntryOK(c[i], e) /\ HasBetterQualityFor(c[i], f, s)
    BY <1>1, <2>2
  <2> QED  BY <2>1, <2>2, <2>3 DEF EntryOK, HasBetterQualityFor, FileMatches, Modified
<1> QED  BY <1>2, <1>3

(* No entry has the size that NoData has, so nothing found is nothing there. *)
LEMMA LookupNone ==
    ASSUME PreloaderAssumption, NEW c \in Seq(CacheData), NEW f, NEW s,
           Lookup(c, f, s) = NoData
    PROVE  \A i \in DOMAIN c : ~ IsValidFor(c[i], f, s)
<1> DEFINE same == {i \in DOMAIN c : IsValidFor(c[i], f, s)}
<1>1. LookupSameSize(c, f, s) = NoData
  BY DEF Lookup
<1>2. NoData.size = 0 /\ 0 \notin AllSizes
  BY DEF NoData, AllSizes, PreloaderAssumption, GTH_ORIGINAL_SIZE
<1>3. ASSUME NEW i \in DOMAIN c  PROVE c[i] # NoData
  <2>1. c[i] \in CacheData
    OBVIOUS
  <2>2. c[i].size \in AllSizes
    BY <2>1 DEF CacheData
  <2> QED  BY <1>2, <2>2
<1>4. CASE same # {}
  <2>1. First(c, same) = NoData
    BY <1>1, <1>4 DEF LookupSameSize
  <2>2. \E i \in same : First(c, same) = c[i]
    BY <1>4, FirstInSet
  <2> QED  BY <1>3, <2>1, <2>2
<1> QED  BY <1>4

(* A new key may be added. *)
LEMMA AddKeeps ==
    ASSUME PreloaderAssumption, NEW c, NEW e, CacheOK(c, e),
           NEW d \in CacheData, EntryOK(d, e),
           \A i \in DOMAIN c : ~ (FileMatches(c[i], d) /\ c[i].size = d.size)
    PROVE  LET a == AddToCache(c, d)
           IN  /\ CacheOK(a, e)
               /\ \A i \in DOMAIN a : a[i] = d \/ \E j \in DOMAIN c : a[i] = c[j]
               /\ a[1] = d /\ 1 \in DOMAIN a
               /\ \A j \in DOMAIN c : j <= CACHE_MAX_SIZE =>
                     j + 1 \in DOMAIN a /\ a[j+1] = c[j]
               /\ Len(c) <= CACHE_MAX_SIZE + 1 => Len(a) <= CACHE_MAX_SIZE + 1
<1> DEFINE t == IF Len(c) > CACHE_MAX_SIZE THEN SubSeq(c, 1, Len(c) - 1) ELSE c
           a == AddToCache(c, d)
<1>1. c \in Seq(CacheData) /\ Len(c) \in Nat /\ CACHE_MAX_SIZE \in Nat
  BY DEF CacheOK, PreloaderAssumption
<1>2. t \in Seq(CacheData) /\ Len(t) <= Len(c) /\ \A i \in 1..Len(t) : t[i] = c[i]
  BY <1>1
<1>3. a = <<d>> \o t
  BY DEF AddToCache
<1> HIDE DEF t
<1>4. /\ a \in Seq(CacheData) /\ Len(a) = Len(t) + 1 /\ a[1] = d
      /\ \A i \in 2..Len(a) : a[i] = t[i-1]
  BY <1>2, <1>3
<1> HIDE DEF a
<1>5. Len(t) \in Nat /\ DOMAIN a = 1..Len(a) /\ DOMAIN c = 1..Len(c)
  BY <1>1, <1>2, <1>4
<1>6. \A i \in DOMAIN a : (i = 1 /\ a[i] = d) \/ (i - 1 \in DOMAIN c /\ a[i] = c[i-1])
  BY <1>1, <1>2, <1>4, <1>5
<1>7. \A i \in DOMAIN a : EntryOK(a[i], e)
  BY <1>6 DEF CacheOK
<1>8. ASSUME NEW i \in DOMAIN a, NEW j \in DOMAIN a,
             FileMatches(a[i], a[j]), a[i].size = a[j].size
      PROVE  i = j
  <2>1. FileMatches(a[j], a[i])
    BY <1>8 DEF FileMatches
  <2>2. CASE a[i] = d /\ i = 1
    BY <1>6, <1>8, <2>1, <2>2
  <2>3. CASE a[j] = d /\ j = 1
    BY <1>6, <1>8, <2>3
  <2>4. CASE i - 1 \in DOMAIN c /\ a[i] = c[i-1] /\ j - 1 \in DOMAIN c /\ a[j] = c[j-1]
    <3>1. i - 1 = j - 1
      BY <1>8, <2>4 DEF CacheOK
    <3> QED  BY <1>5, <3>1
  <2> QED  BY <1>6, <2>2, <2>3, <2>4
<1>9. \A i \in DOMAIN a : a[i] = d \/ \E j \in DOMAIN c : a[i] = c[j]
  BY <1>6
<1>10. Len(t) = IF Len(c) > CACHE_MAX_SIZE THEN Len(c) - 1 ELSE Len(c)
  BY <1>1 DEF t
<1>11. a[1] = d /\ 1 \in DOMAIN a
  BY <1>4, <1>5
<1>12. ASSUME NEW j \in DOMAIN c, j <= CACHE_MAX_SIZE
       PROVE  j + 1 \in DOMAIN a /\ a[j+1] = c[j]
  <2>0. j \in Nat /\ 1 <= j /\ j <= Len(c)
    BY <1>1, <1>5
  <2>1. j \in 1..Len(t)
    <3>1. CASE Len(c) > CACHE_MAX_SIZE
      <4>1. Len(t) = Len(c) - 1
        BY <1>10, <3>1
      <4> QED  BY <1>1, <1>12, <2>0, <3>1, <4>1
    <3>2. CASE ~ (Len(c) > CACHE_MAX_SIZE)
      <4>1. Len(t) = Len(c)
        BY <1>10, <3>2
      <4> QED  BY <1>1, <2>0, <4>1
    <3> QED  BY <3>1, <3>2
  <2> QED  BY <1>2, <1>4, <1>5, <2>1
<1>13. Len(c) <= CACHE_MAX_SIZE + 1 => Len(a) <= CACHE_MAX_SIZE + 1
  BY <1>1, <1>4, <1>10
<1> QED  BY <1>4, <1>7, <1>8, <1>9, <1>11, <1>12, <1>13 DEF CacheOK, a

(* The entries after a given one. *)
LEMMA AfterIndex ==
    ASSUME NEW S, NEW s \in Seq(S), NEW k \in 1..Len(s)
    PROVE  /\ SubSeq(s, k + 1, Len(s)) \in Seq(S)
           /\ Len(SubSeq(s, k + 1, Len(s))) = Len(s) - k
           /\ \A i \in 1..Len(s)-k : SubSeq(s, k + 1, Len(s))[i] = s[k+i]
<1> DEFINE r == SubSeq(s, k + 1, Len(s))
<1>1. \A i \in k+1..Len(s) : s[i] \in S
  OBVIOUS
<1>2. /\ r \in Seq(S)
      /\ Len(r) = IF k + 1 <= Len(s) THEN Len(s) - (k + 1) + 1 ELSE 0
      /\ \A i \in 1 .. Len(s) - (k + 1) + 1 : r[i] = s[k + 1 + i - 1]
  BY <1>1, SubSeqProperties
<1> HIDE DEF r
<1>3. Len(s) \in Nat /\ k \in Nat /\ k <= Len(s)
  OBVIOUS
<1>4. Len(r) = Len(s) - k
  BY <1>2, <1>3
<1>5. ASSUME NEW i \in 1..Len(s)-k  PROVE r[i] = s[k+i]
  <2>1. i \in 1 .. Len(s) - (k + 1) + 1 /\ k + 1 + i - 1 = k + i
    BY <1>3
  <2> QED  BY <1>2, <2>1
<1> QED  BY <1>2, <1>4, <1>5 DEF r

(* The edited image's entry is taken out, the others stay. *)
LEMMA WithoutKeeps ==
    ASSUME PreloaderAssumption, NEW c, NEW e, CacheOK(c, e), NEW n
    PROVE  LET w == WithoutModified(c)
           IN  /\ CacheOK(w, n)
               /\ \A i \in DOMAIN w : w[i].file # GTH_MODIFIED_IMAGE
               /\ \A i \in DOMAIN w : \E j \in DOMAIN c : w[i] = c[j]
               /\ Len(w) <= Len(c)
<1> DEFINE ms == {i \in DOMAIN c : c[i].file = GTH_MODIFIED_IMAGE}
           w  == WithoutModified(c)
<1>1. c \in Seq(CacheData) /\ Len(c) \in Nat /\ DOMAIN c = 1..Len(c)
  BY DEF CacheOK
<1>2. \A i \in DOMAIN c : EntryOK(c[i], e)
  BY DEF CacheOK
<1>3. CASE ms = {}
  <2>1. w = c
    BY <1>3 DEF WithoutModified
  <2>2. \A i \in DOMAIN c : c[i].file # GTH_MODIFIED_IMAGE
    BY <1>3
  <2>3. CacheOK(c, n)
    BY <2>2 DEF CacheOK, EntryOK
  <2> QED  BY <1>1, <2>1, <2>2, <2>3
<1>4. CASE ms # {}
  <2>0. PICK m \in ms : w = SubSeq(c, 1, m - 1) \o SubSeq(c, m + 1, Len(c))
    BY <1>4 DEF WithoutModified
  <2>1. m \in DOMAIN c /\ c[m].file = GTH_MODIFIED_IMAGE
    OBVIOUS
  <2>2. \A i \in DOMAIN c : i # m => c[i].file # GTH_MODIFIED_IMAGE
    <3> SUFFICES ASSUME NEW i \in DOMAIN c, c[i].file = GTH_MODIFIED_IMAGE
                 PROVE  i = m
      OBVIOUS
    <3>1. FileMatches(c[i], c[m]) /\ c[i].size = c[m].size
      BY <1>2, <2>1 DEF EntryOK, FileMatches
    <3> QED  BY <2>1, <3>1 DEF CacheOK
  <2> HIDE DEF ms
  <2>4. m \in 1..Len(c)
    BY <1>1, <2>1
  <2> DEFINE l == SubSeq(c, 1, m - 1)
             r == SubSeq(c, m + 1, Len(c))
  <2>5. /\ l \in Seq(CacheData) /\ Len(l) = m - 1
        /\ \A i \in 1..m-1 : l[i] = c[i]
    BY <1>1, <2>4
  <2>6. /\ r \in Seq(CacheData) /\ Len(r) = Len(c) - m
        /\ \A i \in 1..Len(c)-m : r[i] = c[m+i]
    BY <1>1, <2>4, AfterIndex
  <2>r. w = l \o r
    BY <2>0
  <2> HIDE DEF l, r, w
  <2>7. /\ w \in Seq(CacheData) /\ Len(w) = Len(c) - 1
        /\ \A i \in 1..Len(w) : w[i] = IF i <= m - 1 THEN l[i] ELSE r[i - (m - 1)]
    <3>1. /\ l \o r \in Seq(CacheData) /\ Len(l \o r) = Len(l) + Len(r)
          /\ \A i \in 1 .. Len(l) + Len(r) :
                (l \o r)[i] = IF i <= Len(l) THEN l[i] ELSE r[i - Len(l)]
      BY <2>5, <2>6, ConcatProperties, ZenonT(60)
    <3> QED  BY <1>1, <2>4, <2>5, <2>6, <2>r, <3>1
  <2>8. DOMAIN w = 1..Len(c)-1
    BY <1>1, <2>7
  <2>9. \A i \in DOMAIN w : w[i] = c[IF i < m THEN i ELSE i + 1]
    <3> SUFFICES ASSUME NEW i \in DOMAIN w
                 PROVE  w[i] = c[IF i < m THEN i ELSE i + 1]
      OBVIOUS
    <3>1. i \in 1..Len(w)
      BY <2>7, <2>8
    <3>2. CASE i < m
      BY <1>1, <2>4, <2>5, <2>7, <3>1, <3>2
    <3>3. CASE ~ (i < m)
      <4>1. i - (m - 1) \in 1..Len(c)-m /\ m + (i - (m - 1)) = i + 1 /\ ~ (i <= m - 1)
        BY <1>1, <2>4, <2>7, <3>1, <3>3
      <4> QED  BY <2>6, <2>7, <3>1, <3>3, <4>1
    <3> QED  BY <3>2, <3>3
  <2>10. \A i \in DOMAIN w : LET k == IF i < m THEN i ELSE i + 1
                             IN  k \in DOMAIN c /\ k # m /\ w[i] = c[k]
    BY <1>1, <2>4, <2>8, <2>9
  <2>11. \A i \in DOMAIN w : w[i].file # GTH_MODIFIED_IMAGE
    BY <2>2, <2>10
  <2>12. \A i \in DOMAIN w : EntryOK(w[i], n)
    BY <1>2, <2>10, <2>11 DEF EntryOK
  <2>13. ASSUME NEW i \in DOMAIN w, NEW j \in DOMAIN w,
                FileMatches(w[i], w[j]), w[i].size = w[j].size
         PROVE  i = j
    <3> DEFINE ki == IF i < m THEN i ELSE i + 1
               kj == IF j < m THEN j ELSE j + 1
    <3>1. ki \in DOMAIN c /\ w[i] = c[ki] /\ kj \in DOMAIN c /\ w[j] = c[kj]
      BY <2>10
    <3>2. ki = kj
      BY <2>13, <3>1 DEF CacheOK
    <3> QED  BY <1>1, <2>4, <2>8, <3>2
  <2>14. CacheOK(w, n)
    BY <2>7, <2>12, <2>13 DEF CacheOK
  <2>15. \A i \in DOMAIN w : \E j \in DOMAIN c : w[i] = c[j]
    BY <2>10
  <2>16. Len(w) <= Len(c)
    BY <1>1, <2>7
  <2> QED  BY <2>11, <2>14, <2>15, <2>16 DEF w
<1> QED  BY <1>3, <1>4

-----------------------------------------------------------------------------
(* The answers and the decoding in progress *)

(* A handler answers at most the request it works for, with the data it has. *)
AnswerStep(r) ==
    \/ answers' = answers
    \/ \E d : Suits(d, r) /\ answers' = Append(answers, [req |-> r, data |-> d])

(* What a handler that continues with r leaves. *)
Proceeds(r, l) ==
    /\ AnswerStep(r)
    /\ loaded' = Failed
    /\ current' \in {r, NoRequest}
    /\ last' \in {l, r, NoRequest}
    /\ DecodingOK'

LEMMA CompletedProceeds ==
    ASSUME NEW r, NEW p, NEW data, NEW c, NEW rf, NEW l,
           IsAnswered(p, data) => Suits(data, r),
           RequestCompleted(r, p, data, c, rf, l)
    PROVE  Proceeds(r, l)
<1>1. AnswerStep(r)
  BY DEF RequestCompleted, AnswerStep
<1>2. loading' = "no" /\ loaded' = Failed
  BY DEF RequestCompleted
<1>3. current' \in {r, NoRequest} /\ last' \in {l, r, NoRequest}
  BY DEF RequestCompleted, RequestFinished
<1>4. DecodingOK'
  BY <1>2 DEF DecodingOK
<1> QED  BY <1>1, <1>2, <1>3, <1>4 DEF Proceeds

LEMMA LoadCurrentProceeds ==
    ASSUME PreloaderAssumption, NEW r \in RequestRecord, NEW p \in DOMAIN r.files,
           NEW rf, NEW l, CacheOK(cache, edit), cache' = cache,
           LoadCurrentFile(r, p, cache, rf, l)
    PROVE  Proceeds(r, l)
<1> DEFINE f    == r.files[p]
           data == Lookup(cache, f, r.size)
<1>1. f \in FileData /\ r.size \in AllSizes /\ cache \in Seq(CacheData)
  BY DEF RequestRecord, CacheOK
<1>2. CASE RequestCompleted(r, p, data, cache, rf, l)
  <2>1. IsAnswered(p, data) => Suits(data, r)
    BY <1>1, LookupSuits DEF IsAnswered, Suits
  <2> QED  BY <1>2, <2>1, CompletedProceeds
<1>3. CASE /\ data = NoData /\ f # Modified /\ loading' = "thread" /\ loaded' = Failed
           /\ current' = r /\ last' = l /\ pos' = p /\ UNCHANGED answers
  <2>1. \A i \in DOMAIN cache : ~ IsValidFor(cache[i], f, r.size)
    BY <1>1, <1>3, LookupNone
  <2>2. f.file # GTH_MODIFIED_IMAGE
    BY <1>1, <1>3, PreloaderAssumption DEF FileData, Modified, PreloaderAssumption
  <2>3. DecodingOK'
    BY <1>3, <2>1, <2>2 DEF DecodingOK
  <2> QED  BY <1>3, <2>3 DEF Proceeds, AnswerStep
<1> QED  BY <1>2, <1>3 DEF LoadCurrentFile

(* An answer that suits its request keeps the answers as they must be. *)
LEMMA AnswersKept ==
    ASSUME NEW r \in RequestRecord, answers \in Seq(Answer), FreshAnswers, AnswerStep(r)
    PROVE  /\ answers' \in Seq(Answer)
           /\ FreshAnswers'
           /\ Len(answers') > Len(answers) =>
                Len(answers') = Len(answers) + 1 /\ answers'[Len(answers')].req = r
<1>1. CASE answers' = answers
  BY <1>1 DEF FreshAnswers
<1>2. CASE answers' # answers
  <2>1. PICK d : Suits(d, r) /\ answers' = Append(answers, [req |-> r, data |-> d])
    BY <1>2 DEF AnswerStep
  <2> DEFINE a == [req |-> r, data |-> d]
  <2>2. a \in Answer
    BY <2>1 DEF Suits, Answer
  <2>3. /\ answers' \in Seq(Answer) /\ Len(answers') = Len(answers) + 1
        /\ answers'[Len(answers')] = a
        /\ \A i \in 1..Len(answers) : answers'[i] = answers[i]
    BY <2>1, <2>2, AppendProperties
  <2>4. DOMAIN answers' = 1..Len(answers) + 1 /\ DOMAIN answers = 1..Len(answers)
        /\ Len(answers) \in Nat
    BY <2>3
  <2>5. FreshAnswers'
    <3> SUFFICES ASSUME NEW i \in DOMAIN answers'
                 PROVE  LET x == answers'[i].req
                            y == answers'[i].data
                        IN  /\ FileMatches(y, x.files[1])
                            /\ y.size = x.size \/ y.file = GTH_MODIFIED_IMAGE
                            /\ y.image # Failed => y.image >= x.files[1].mtime
      BY DEF FreshAnswers
    <3>1. CASE i \in DOMAIN answers
      <4>1. answers'[i] = answers[i]
        BY <2>3, <2>4, <3>1
      <4> QED  BY <3>1, <4>1 DEF FreshAnswers
    <3>2. CASE i = Len(answers) + 1
      <4>1. answers'[i].req = r /\ answers'[i].data = d
        BY <2>3, <3>2
      <4> QED  BY <2>1, <4>1 DEF Suits
    <3> QED  BY <2>4, <3>1, <3>2
  <2>6. answers'[Len(answers')].req = r
    BY <2>3
  <2> QED  BY <2>3, <2>5, <2>6
<1> QED  BY <1>1, <1>2

LEMMA AnswerTypes ==
    ASSUME PreloaderAssumption, answers \in Seq(Answer), NEW i \in DOMAIN answers
    PROVE  answers[i].req.id \in Nat /\ answers[i].data.image \in Nat
<1>1. answers[i] \in Answer
  OBVIOUS
<1>2. answers[i].req \in RequestRecord /\ answers[i].data \in CacheData
  BY <1>1 DEF Answer
<1>3. answers[i].req.id \in 1..MaxRequests
  BY <1>2 DEF RequestRecord
<1>4. answers[i].data.image \in Nat
  BY <1>2 DEF CacheData
<1>5. MaxRequests \in Nat
  BY DEF PreloaderAssumption
<1> QED  BY <1>3, <1>4, <1>5

(* An answer is to a request that was made, with an edit that was made. *)
LEMMA PastKept ==
    ASSUME PreloaderAssumption,
           NEW r \in RequestRecord, answers \in Seq(Answer), AnswersPast, AnswerStep(r),
           issued \in Nat, issued' \in Nat, issued <= issued', r.id <= issued',
           edit \in Nat, edit' = edit
    PROVE  AnswersPast'
<1>1. \A i \in DOMAIN answers : answers[i].req.id \in Nat
  BY AnswerTypes
<1>2. CASE answers' = answers
  BY <1>1, <1>2 DEF AnswersPast
<1>3. CASE answers' # answers
  <2>1. PICK d : Suits(d, r) /\ answers' = Append(answers, [req |-> r, data |-> d])
    BY <1>3 DEF AnswerStep
  <2> DEFINE a == [req |-> r, data |-> d]
  <2>2. a \in Answer
    BY <2>1 DEF Suits, Answer
  <2>3. /\ answers' \in Seq(Answer) /\ Len(answers') = Len(answers) + 1
        /\ answers'[Len(answers) + 1] = a
        /\ \A i \in 1..Len(answers) : answers'[i] = answers[i]
    BY <2>1, <2>2, AppendProperties
  <2>4. a.req.id <= issued' /\ (a.data.file = GTH_MODIFIED_IMAGE => a.data.image <= edit')
    BY <2>1 DEF Suits
  <2> HIDE DEF a
  <2> SUFFICES ASSUME NEW i \in DOMAIN answers'
               PROVE  /\ answers'[i].req.id <= issued'
                      /\ answers'[i].data.file = GTH_MODIFIED_IMAGE =>
                           answers'[i].data.image <= edit'
    BY DEF AnswersPast
  <2>5. CASE i \in DOMAIN answers
    <3>1. answers'[i] = answers[i]
      BY <2>3, <2>5
    <3> QED  BY <1>1, <2>5, <3>1 DEF AnswersPast
  <2>6. CASE i \notin DOMAIN answers
    <3>1. i = Len(answers) + 1
      BY <2>3, <2>6
    <3> QED  BY <2>3, <2>4, <3>1
  <2> QED  BY <2>5, <2>6
<1> QED  BY <1>2, <1>3

(* What only grows or stays keeps what is known of a request. *)
LEMMA KnownKept ==
    ASSUME NEW r \in RequestRecord \union {NoRequest},
           NEW v \in [Files -> 1..MaxVersion], NEW w \in [Files -> 1..MaxVersion],
           MaxVersion \in Nat, \A f \in Files : v[f] <= w[f], Known(r, v)
    PROVE  Known(r, w)
<1> SUFFICES ASSUME NEW q \in DOMAIN r.files, r.files[q].file # GTH_MODIFIED_IMAGE
             PROVE  r.files[q].mtime <= w[r.files[q].file]
  BY DEF Known
<1>1. r \in RequestRecord
  BY DEF NoRequest
<1>2. r.files[q] \in FileData
  BY <1>1 DEF RequestRecord
<1>3. r.files[q].file \in Files /\ r.files[q].mtime \in 1..MaxVersion
  BY <1>2 DEF FileData, Modified
<1>4. r.files[q].mtime <= v[r.files[q].file]
  BY DEF Known
<1> DEFINE f == r.files[q].file
<1>5. v[f] \in 1..MaxVersion /\ w[f] \in 1..MaxVersion /\ v[f] <= w[f]
  BY <1>3
<1> QED  BY <1>3, <1>4, <1>5

LEMMA NoRequestKnown == \A v : Known(NoRequest, v)
BY DEF Known, NoRequest

(* The rest of a step of the main loop that answers and continues with r. *)
LEMMA ProceedsSound ==
    ASSUME PreloaderAssumption, CInv, CacheOK(cache, edit)', NEW r \in RequestRecord, NEW l,
           Proceeds(r, l), Known(r, disk), Known(l, disk),
           cancelled' \subseteq 1..MaxRequests, MaxEdits \in Nat,
           issued \in Nat, issued' \in Nat, issued <= issued', r.id <= issued',
           UNCHANGED <<delivered, disk, edit>>
    PROVE  CInv'
<1>1. answers' \in Seq(Answer) /\ FreshAnswers'
  BY AnswersKept DEF CInv, CacheTypes, Proceeds
<1>2. CacheTypes'
  BY <1>1 DEF CInv, CacheTypes, Proceeds
<1>3. Known(current, disk)' /\ Known(last, disk)'
  BY NoRequestKnown DEF Proceeds, Known
<1>4. DecodingOK'
  BY DEF Proceeds
<1>5. AnswersPast'
  BY PastKept DEF CInv, CacheTypes, Proceeds
<1> QED  BY <1>1, <1>2, <1>3, <1>4, <1>5 DEF CInv


-----------------------------------------------------------------------------
(* The actions *)

(* What OnlyNewestAnswered says of a step. *)
NewestStep ==
    Len(answers') > Len(answers)
        => /\ answers'[Len(answers')].req.id = issued'
           /\ answers'[Len(answers')].req = last \/ issued' = issued + 1

LEMMA ProceedsNewest ==
    ASSUME CInv, NEW r \in RequestRecord, NEW l, Proceeds(r, l),
           r.id = issued', r = last \/ issued' = issued + 1
    PROVE  NewestStep
BY AnswersKept DEF CInv, CacheTypes, Proceeds, NewestStep

LEMMA LoadCache ==
    ASSUME PreloaderAssumption, IInv, CInv,
           NEW f \in FileData, NEW s \in AllSizes, NEW ns \in Seq(Files),
           NEW v \in [Files -> 1..MaxVersion], \A x \in Files : v[x] <= disk[x],
           f = Modified \/ f.mtime <= disk[f.file],
           Load(f, s, ns, v)
    PROVE  CInv' /\ NewestStep
<1> DEFINE r == Request(f, s, ns, v)
           rf == [ref EXCEPT ![r.id] = 1]
<1>1. issued \in 0..MaxRequests /\ issued < MaxRequests /\ issued' = issued + 1
  BY DEF Load, IInv, EngineTypes
<1>2. r \in RequestRecord /\ r.id = issued' /\ 1 \in DOMAIN r.files
  BY <1>1, RequestType
<1>3. Known(r, disk)
  <2> SUFFICES ASSUME NEW q \in DOMAIN r.files,
                      r.files[q].file # GTH_MODIFIED_IMAGE
               PROVE  r.files[q].mtime <= disk[r.files[q].file]
    BY DEF Known
  <2> DEFINE tail == [i \in DOMAIN ns |-> [file |-> ns[i], mtime |-> v[ns[i]]]]
  <2>1. r.files = <<f>> \o tail
    BY DEF Request
  <2>2. Len(ns) \in Nat /\ DOMAIN ns = 1..Len(ns) /\ \A i \in DOMAIN ns : ns[i] \in Files
    OBVIOUS
  <2>3. tail \in Seq([file : Files, mtime : 1..MaxVersion]) /\ Len(tail) = Len(ns)
    <3>1. tail \in [1..Len(ns) -> [file : Files, mtime : 1..MaxVersion]]
      BY <2>2
    <3> QED  BY <2>2, <3>1, SeqDef
  <2>4. \A i \in 1..Len(ns) : tail[i].file \in Files /\ tail[i].mtime <= disk[tail[i].file]
    BY <2>2
  <2> HIDE DEF tail
  <2>5. /\ Len(r.files) = Len(ns) + 1 /\ r.files[1] = f
        /\ \A i \in 2..Len(ns)+1 : r.files[i] = tail[i-1]
    BY <2>1, <2>2, <2>3
  <2>6. DOMAIN r.files = 1..Len(ns)+1
    BY <1>2, <2>2, <2>5 DEF RequestRecord
  <2>7. CASE q = 1
    BY <2>5, <2>7 DEF Modified
  <2>8. CASE q # 1
    <3>1. q - 1 \in 1..Len(ns) /\ r.files[q] = tail[q-1]
      BY <2>2, <2>5, <2>6, <2>8
    <3> QED  BY <2>4, <3>1
  <2> QED  BY <2>7, <2>8
<1>4. /\ current \in RequestRecord \union {NoRequest}
      /\ cancelled \subseteq 1..MaxRequests
      /\ UNCHANGED <<cache, delivered, disk, edit>>
  BY DEF IInv, EngineTypes, CInv, CacheTypes, Load
<1>5. CacheOK(cache, edit) /\ CacheOK(cache, edit)'
  BY <1>4 DEF CInv, CacheOK, EntryOK, FileMatches
<1> HIDE DEF r
<1>6. ASSUME NEW x, StartRequest(r, cache, x, r), UNCHANGED cancelled
      PROVE  CInv' /\ NewestStep
  <2>1. LoadCurrentFile(r, 1, cache, [x EXCEPT ![r.id] = @ + 1], r)
    BY <1>6 DEF StartRequest
  <2>2. Proceeds(r, r)
    BY <1>2, <1>4, <1>5, <2>1, LoadCurrentProceeds
  <2>3. CInv'
    <3>1. issued \in Nat /\ issued' \in Nat /\ issued <= issued' /\ MaxEdits \in Nat
      BY <1>1, PreloaderAssumption DEF PreloaderAssumption
    <3>2. r.id <= issued'
      BY <1>2, <3>1
    <3> QED  BY <1>2, <1>3, <1>4, <1>5, <1>6, <2>2, <3>1, <3>2, ProceedsSound
  <2> QED  BY <1>1, <1>2, <2>2, <2>3, ProceedsNewest
<1>7. CASE /\ current # NoRequest /\ ~ timer
           /\ cancelled' = cancelled \union {current.id} /\ last' = r /\ ref' = rf
           /\ UNCHANGED <<current, pos, timer, loading, loaded, answers>>
  <2>1. current.id \in 1..MaxRequests
    BY <1>4, <1>7 DEF RequestRecord
  <2>2. CacheTypes' /\ FreshAnswers'
    BY <1>4, <1>7, <2>1 DEF CInv, CacheTypes, FreshAnswers
  <2>3. Known(current, disk)' /\ Known(last, disk)'
    BY <1>3, <1>4, <1>7 DEF CInv, Known
  <2>4. DecodingOK'
    BY <1>4, <1>7 DEF CInv, DecodingOK
  <2>p. AnswersPast'
    <3>1. \A i \in DOMAIN answers : answers[i].req.id \in Nat
      BY AnswerTypes DEF CInv, CacheTypes
    <3> QED  BY <1>1, <1>4, <1>7, <3>1 DEF CInv, AnswersPast
  <2>5. CInv'
    BY <1>5, <2>2, <2>3, <2>4, <2>p DEF CInv
  <2>6. NewestStep
    BY <1>7 DEF NewestStep, CInv, CacheTypes
  <2> QED  BY <2>5, <2>6
<1> QED  BY <1>6, <1>7 DEF Load, r

(* Steps that keep the answers, or take one out, answer nothing. *)
LEMMA NothingAnswered ==
    ASSUME CInv, UNCHANGED answers
    PROVE  NewestStep
BY DEF NewestStep, CInv, CacheTypes

(* A change of the edited image's entry does not touch the file being decoded. *)
LEMMA EditedSound ==
    ASSUME PreloaderAssumption, CInv, CacheOK(cache', edit'), edit' \in 0..MaxEdits,
           \A i \in DOMAIN cache' : cache'[i].file = GTH_MODIFIED_IMAGE
                                   \/ \E j \in DOMAIN cache : cache'[i] = cache[j],
           UNCHANGED <<current, last, pos, timer, loading, loaded, answers, cancelled,
                       delivered, disk, issued>>,
           edit <= edit', MaxEdits \in Nat
    PROVE  CInv'
<1>1. CacheTypes'
  BY DEF CInv, CacheTypes
<1>2. CacheOK(cache, edit)'
  BY DEF CacheOK, EntryOK, FileMatches
<1>3. Known(current, disk)' /\ Known(last, disk)' /\ FreshAnswers'
  BY DEF CInv, Known, FreshAnswers
<1>4. DecodingOK'
  BY DEF CInv, DecodingOK, IsValidFor, FileMatches
<1>5. AnswersPast'
  <2>1. \A i \in DOMAIN answers : answers[i].data.image \in Nat
    BY AnswerTypes DEF CInv, CacheTypes
  <2> QED  BY <2>1 DEF CInv, CacheTypes, AnswersPast
<1> QED  BY <1>1, <1>2, <1>3, <1>4, <1>5 DEF CInv

(* An edit takes the entry of the earlier one, if any. *)
LEMMA ModifiedCache ==
    ASSUME PreloaderAssumption, CInv, SetModifiedImage \/ ForgetModifiedImage
    PROVE  CInv' /\ NewestStep
<1> DEFINE w == WithoutModified(cache)
           d == [file |-> GTH_MODIFIED_IMAGE, mtime |-> 0,
                 size |-> GTH_ORIGINAL_SIZE, image |-> edit + 1]
<1>1. UNCHANGED <<current, last, pos, timer, loading, loaded, answers, cancelled,
                  delivered, disk, issued>>
  BY DEF SetModifiedImage, ForgetModifiedImage
<1>2. /\ CacheOK(cache, edit) /\ edit \in 0..MaxEdits /\ MaxEdits \in Nat
      /\ MaxVersion \in Nat
  BY DEF CInv, CacheTypes, PreloaderAssumption
<1>3. /\ \A n : CacheOK(w, n)
      /\ \A i \in DOMAIN w : w[i].file # GTH_MODIFIED_IMAGE
      /\ \A i \in DOMAIN w : \E j \in DOMAIN cache : w[i] = cache[j]
  BY <1>2, WithoutKeeps
<1> HIDE DEF w
<1>4. CASE SetModifiedImage
  <2>1. cache' = AddToCache(w, d) /\ edit' = edit + 1 /\ edit < MaxEdits
    BY <1>4 DEF SetModifiedImage, w
  <2>2. d \in CacheData /\ EntryOK(d, edit + 1)
    BY <1>2 DEF CacheData, EntryOK, AllSizes
  <2>3. CacheOK(cache', edit')
    <3>1. \A i \in DOMAIN w : ~ (FileMatches(w[i], d) /\ w[i].size = d.size)
      BY <1>3 DEF FileMatches
    <3> HIDE DEF d
    <3> QED  BY <1>3, <2>1, <2>2, <3>1, AddKeeps
  <2>4. \A i \in DOMAIN cache' : cache'[i].file = GTH_MODIFIED_IMAGE
                                 \/ \E j \in DOMAIN cache : cache'[i] = cache[j]
    <3>1. \A i \in DOMAIN w : ~ (FileMatches(w[i], d) /\ w[i].size = d.size)
      BY <1>3 DEF FileMatches
    <3>2. d.file = GTH_MODIFIED_IMAGE
      OBVIOUS
    <3> HIDE DEF d
    <3>3. \A i \in DOMAIN cache' : cache'[i] = d \/ \E j \in DOMAIN w : cache'[i] = w[j]
      BY <1>3, <2>1, <2>2, <3>1, AddKeeps
    <3> QED  BY <1>3, <3>2, <3>3
  <2>5. edit' \in 0..MaxEdits /\ edit <= edit'
    BY <1>2, <2>1
  <2> QED  BY <1>1, <1>2, <2>3, <2>4, <2>5, EditedSound, NothingAnswered
<1>5. CASE ForgetModifiedImage
  <2>1. cache' = w /\ edit' = edit
    BY <1>5 DEF ForgetModifiedImage, w
  <2>2. CacheOK(cache', edit') /\ edit' \in 0..MaxEdits /\ edit <= edit'
    BY <1>2, <1>3, <2>1
  <2>3. \A i \in DOMAIN cache' : cache'[i].file = GTH_MODIFIED_IMAGE
                                 \/ \E j \in DOMAIN cache : cache'[i] = cache[j]
    BY <1>3, <2>1
  <2> QED  BY <1>1, <1>2, <2>2, <2>3, EditedSound, NothingAnswered
<1> QED  BY <1>4, <1>5

LEMMA DecodeCache ==
    ASSUME PreloaderAssumption, IInv, CInv, Decode
    PROVE  CInv' /\ NewestStep
<1> DEFINE f == current.files[pos]
<1>1. /\ loading = "thread" /\ loading' = "done"
      /\ UNCHANGED <<current, last, pos, timer, cache, answers, cancelled, delivered,
                     disk, edit, issued>>
      /\ loaded' \in {disk[f.file], Failed, Cancelled}
  BY DEF Decode
<1>2. current # NoRequest /\ pos \in DOMAIN current.files
  BY <1>1 DEF IInv, NeverStalled
<1>3. f \in FileData /\ f.file # GTH_MODIFIED_IMAGE
  BY <1>1, <1>2 DEF IInv, EngineTypes, RequestRecord, CInv, DecodingOK
<1>4. f.file \in Files /\ f.mtime <= disk[f.file] /\ disk[f.file] \in 1..MaxVersion
  BY <1>2, <1>3 DEF FileData, Modified, CInv, Known, CacheTypes
<1>5. CacheTypes'
  BY <1>1, <1>4 DEF CInv, CacheTypes
<1>6. /\ CacheOK(cache, edit)' /\ Known(current, disk)' /\ Known(last, disk)'
      /\ FreshAnswers' /\ AnswersPast'
  BY <1>1 DEF CInv, CacheOK, EntryOK, FileMatches, Known, FreshAnswers, AnswersPast
<1>7. DecodingOK'
  <2>1. \A i \in DOMAIN cache : ~ IsValidFor(cache[i], f, current.size)
    BY <1>1 DEF CInv, DecodingOK
  <2> QED  BY <1>1, <1>3, <1>4, <2>1 DEF DecodingOK
<1> QED  BY <1>1, <1>5, <1>6, <1>7, NothingAnswered DEF CInv

LEMMA IssuedFacts ==
    ASSUME PreloaderAssumption, IInv, UNCHANGED issued
    PROVE  issued \in Nat /\ issued' \in Nat /\ issued <= issued' /\ MaxEdits \in Nat
BY DEF PreloaderAssumption, IInv, EngineTypes

LEMMA DropLoadedCache ==
    ASSUME PreloaderAssumption, IInv, CInv, DropLoaded
    PROVE  CInv' /\ NewestStep
<1>1. UNCHANGED <<cache, cancelled, issued, delivered, disk, edit>>
  BY DEF DropLoaded
<1>2. CacheOK(cache, edit) /\ CacheOK(cache, edit)'
  BY <1>1 DEF CInv, CacheOK, EntryOK, FileMatches
<1>3. CASE /\ RequestFinished(current, Release(ref, current, 1), last)
           /\ loading' = "no" /\ loaded' = Failed /\ UNCHANGED answers
  <2>1. current' = NoRequest /\ last' \in {last, NoRequest}
    BY <1>3 DEF RequestFinished
  <2>2. Known(current, disk)' /\ Known(last, disk)'
    BY <1>1, <2>1, NoRequestKnown DEF CInv, Known
  <2>3. CacheTypes' /\ FreshAnswers' /\ AnswersPast' /\ DecodingOK'
    BY <1>1, <1>3 DEF CInv, CacheTypes, FreshAnswers, AnswersPast, DecodingOK
  <2> QED  BY <1>2, <1>3, <2>2, <2>3, NothingAnswered DEF CInv
<1>4. CASE /\ last \notin {current, NoRequest}
           /\ StartRequest(last, cache, Release(ref, current, 3), last)
  <2>1. last \in RequestRecord /\ last.id = issued /\ Len(last.files) > 0
    BY <1>4 DEF IInv, EngineTypes, Ids
  <2>2. 1 \in DOMAIN last.files
    BY <2>1 DEF RequestRecord
  <2>3. LoadCurrentFile(last, 1, cache,
                        [Release(ref, current, 3) EXCEPT ![last.id] = @ + 1], last)
    BY <1>4 DEF StartRequest
  <2>4. Proceeds(last, last)
    BY <1>1, <1>2, <2>1, <2>2, <2>3, LoadCurrentProceeds
  <2>5. CInv'
    BY <1>1, <1>2, <2>1, <2>4, IssuedFacts, ProceedsSound DEF CInv, CacheTypes
  <2> QED  BY <1>1, <2>1, <2>4, <2>5, ProceedsNewest
<1> QED  BY <1>3, <1>4 DEF DropLoaded

LEMMA LoadNextCache ==
    ASSUME PreloaderAssumption, IInv, CInv, LoadNext
    PROVE  CInv' /\ NewestStep
<1>1. UNCHANGED <<cache, cancelled, issued, delivered, disk, edit>>
  BY DEF LoadNext
<1>2. CacheOK(cache, edit) /\ CacheOK(cache, edit)'
  BY <1>1 DEF CInv, CacheOK, EntryOK, FileMatches
<1>3. /\ current # NoRequest /\ current \in RequestRecord /\ last = current
      /\ current.id = issued /\ pos \in DOMAIN current.files
  BY DEF LoadNext, IInv, NeverStalled, EngineTypes, Ids
<1>4. LoadCurrentFile(current, pos, cache, ref, last)
  BY DEF LoadNext
<1>5. Proceeds(current, last)
  BY <1>1, <1>2, <1>3, <1>4, LoadCurrentProceeds
<1>6. CInv'
  BY <1>1, <1>2, <1>3, <1>5, IssuedFacts, ProceedsSound DEF CInv, CacheTypes
<1> QED  BY <1>1, <1>3, <1>5, <1>6, ProceedsNewest

(* The entry of a decoded file is sound, and the only one for its key. *)
LEMMA KeepLoadedEntry ==
    ASSUME PreloaderAssumption, CInv, loading = "done", loaded # Cancelled,
           current \in RequestRecord, pos \in DOMAIN current.files
    PROVE  LET f == current.files[pos]
               d == [file |-> f.file, mtime |-> f.mtime, size |-> current.size,
                     image |-> loaded]
           IN  /\ d \in CacheData /\ EntryOK(d, edit)
               /\ IsAnswered(pos, d) => Suits(d, current)
               /\ \A i \in DOMAIN cache :
                     ~ (FileMatches(cache[i], d) /\ cache[i].size = d.size)
<1> DEFINE f == current.files[pos]
           d == [file |-> f.file, mtime |-> f.mtime, size |-> current.size,
                 image |-> loaded]
<1>1. f \in FileData /\ f.file # GTH_MODIFIED_IMAGE /\ current.size \in AllSizes
  BY DEF RequestRecord, CInv, DecodingOK
<1>2. /\ \A i \in DOMAIN cache : ~ IsValidFor(cache[i], f, current.size)
      /\ loaded # Failed => loaded >= f.mtime
  BY DEF CInv, DecodingOK
<1>3. MaxVersion \in Nat /\ loaded \in {Failed} \union 1..MaxVersion
  BY PreloaderAssumption DEF CInv, CacheTypes, PreloaderAssumption
<1>4. f.file \in Files /\ f.mtime \in 1..MaxVersion
  BY <1>1 DEF FileData, Modified
<1>5. d \in CacheData
  BY <1>1, <1>3, <1>4 DEF CacheData, Failed
<1>6. EntryOK(d, edit)
  BY <1>1, <1>2 DEF EntryOK
<1>7. IsAnswered(pos, d) => Suits(d, current)
  BY <1>1, <1>2, <1>5 DEF IsAnswered, Suits, FileMatches
<1>8. \A i \in DOMAIN cache : ~ (FileMatches(cache[i], d) /\ cache[i].size = d.size)
  BY <1>2 DEF IsValidFor, FileMatches
<1> QED  BY <1>5, <1>6, <1>7, <1>8

LEMMA KeepLoadedCache ==
    ASSUME PreloaderAssumption, IInv, CInv, KeepLoaded
    PROVE  CInv' /\ NewestStep
<1> DEFINE f == current.files[pos]
           d == [file |-> f.file, mtime |-> f.mtime, size |-> current.size,
                 image |-> loaded]
<1>1. /\ UNCHANGED <<cancelled, issued, delivered, disk, edit>>
      /\ cache' = AddToCache(cache, d)
      /\ RequestCompleted(current, pos, d, cache', Release(ref, current, 1), last)
      /\ loading = "done" /\ loaded # Cancelled /\ last = current
  BY DEF KeepLoaded, Displaced
<1>2. /\ current # NoRequest /\ current \in RequestRecord
      /\ current.id = issued /\ pos \in DOMAIN current.files
  BY <1>1 DEF IInv, NeverStalled, EngineTypes, Ids
<1>3. /\ d \in CacheData /\ EntryOK(d, edit)
      /\ IsAnswered(pos, d) => Suits(d, current)
      /\ \A i \in DOMAIN cache : ~ (FileMatches(cache[i], d) /\ cache[i].size = d.size)
  BY <1>1, <1>2, KeepLoadedEntry
<1>4. CacheOK(cache, edit)'
  <2> HIDE DEF d
  <2>1. CacheOK(AddToCache(cache, d), edit)
    BY <1>3, AddKeeps DEF CInv
  <2> QED  BY <1>1, <2>1 DEF CacheOK, EntryOK, FileMatches
<1>5. Proceeds(current, last)
  BY <1>1, <1>3, CompletedProceeds
<1>6. CInv'
  BY <1>1, <1>2, <1>4, <1>5, IssuedFacts, ProceedsSound DEF CInv, CacheTypes
<1> QED  BY <1>1, <1>2, <1>5, <1>6, ProceedsNewest

(* The first answer of the idle queue is taken out. *)
LEMMA DeliverCache ==
    ASSUME CInv, Deliver
    PROVE  CInv' /\ NewestStep
<1>1. /\ answers # <<>> /\ answers' = Tail(answers)
      /\ delivered' = Append(delivered, Head(answers).req.id)
      /\ UNCHANGED <<current, last, pos, loading, loaded, cache, cancelled, disk, edit,
                     issued>>
  BY DEF Deliver
<1>2. answers \in Seq(Answer) /\ delivered \in Seq(1..MaxRequests)
  BY DEF CInv, CacheTypes
<1>3. /\ Head(answers) \in Answer /\ answers' \in Seq(Answer)
      /\ Len(answers') = Len(answers) - 1
      /\ \A i \in 1..Len(answers') : answers'[i] = answers[i+1]
  BY <1>1, <1>2, HeadTailProperties
<1>4. Head(answers).req.id \in 1..MaxRequests
  BY <1>3 DEF Answer, RequestRecord
<1>5. delivered' \in Seq(1..MaxRequests)
  BY <1>1, <1>2, <1>4, AppendProperties
<1>6. CacheTypes'
  BY <1>1, <1>3, <1>5 DEF CInv, CacheTypes
<1>7. FreshAnswers' /\ AnswersPast'
  <2>1. \A i \in DOMAIN answers' : i + 1 \in DOMAIN answers /\ answers'[i] = answers[i+1]
    BY <1>2, <1>3
  <2> QED  BY <1>1, <2>1 DEF CInv, FreshAnswers, AnswersPast
<1>8. CacheOK(cache, edit)' /\ Known(current, disk)' /\ Known(last, disk)' /\ DecodingOK'
  BY <1>1 DEF CInv, CacheOK, EntryOK, FileMatches, Known, DecodingOK
<1>9. NewestStep
  BY <1>2, <1>3 DEF NewestStep
<1> QED  BY <1>6, <1>7, <1>8, <1>9 DEF CInv

LEMMA CancelCache ==
    ASSUME IInv, CInv, NEW i \in 1..MaxRequests, Cancel(i)
    PROVE  CInv' /\ NewestStep
<1>1. cancelled' = cancelled \union {i}
  BY DEF Cancel
<1>2. UNCHANGED <<current, last, pos, loading, loaded, cache, answers, delivered,
                 disk, edit, issued>>
  BY DEF Cancel
<1>3. CacheTypes'
  BY <1>1, <1>2 DEF CInv, CacheTypes
<1>4. /\ CacheOK(cache, edit)' /\ Known(current, disk)' /\ Known(last, disk)'
      /\ DecodingOK' /\ FreshAnswers' /\ AnswersPast'
  BY <1>2 DEF CInv, CacheOK, EntryOK, FileMatches, Known, DecodingOK, FreshAnswers,
              AnswersPast
<1> QED  BY <1>2, <1>3, <1>4, NothingAnswered DEF CInv

LEMMA FileChangesCache ==
    ASSUME PreloaderAssumption, IInv, CInv, NEW f \in Files, FileChanges(f)
    PROVE  CInv' /\ NewestStep
<1>1. disk[f] < MaxVersion /\ disk' = [disk EXCEPT ![f] = @ + 1]
  BY DEF FileChanges
<1>2. UNCHANGED <<current, last, pos, loading, loaded, cache, answers, cancelled,
                 delivered, edit, issued>>
  BY DEF FileChanges
<1>3. disk \in [Files -> 1..MaxVersion] /\ MaxVersion \in Nat
  BY PreloaderAssumption DEF CInv, CacheTypes, PreloaderAssumption
<1>4. disk' \in [Files -> 1..MaxVersion] /\ \A x \in Files : disk[x] <= disk'[x]
  BY <1>1, <1>3
<1>5. CacheTypes'
  BY <1>2, <1>4 DEF CInv, CacheTypes
<1>6. Known(current, disk') /\ Known(last, disk')
  BY <1>3, <1>4, KnownKept DEF CInv, IInv, EngineTypes
<1>7. Known(current, disk)' /\ Known(last, disk)'
  BY <1>2, <1>6 DEF Known
<1>8. CacheOK(cache, edit)' /\ DecodingOK' /\ FreshAnswers' /\ AnswersPast'
  BY <1>2 DEF CInv, CacheOK, EntryOK, FileMatches, DecodingOK, FreshAnswers, AnswersPast
<1> QED  BY <1>2, <1>5, <1>7, <1>8, NothingAnswered DEF CInv

-----------------------------------------------------------------------------
(* The theorems *)

LEMMA StepCache ==
    ASSUME PreloaderAssumption, IInv, CInv, [Next]_vars
    PROVE  CInv' /\ NewestStep
<1>1. ASSUME LoadFile  PROVE CInv' /\ NewestStep
  <2>1. PICK v \in KnownVersions, f \in Files, s \in AllSizes, ns \in Neighbours :
              Load([file |-> f, mtime |-> v[f]], s, ns, v)
    BY <1>1 DEF LoadFile
  <2>2. /\ v \in [Files -> 1..MaxVersion] /\ ns \in Seq(Files)
        /\ \A x \in Files : v[x] <= disk[x]
        /\ [file |-> f, mtime |-> v[f]] \in FileData
    BY DEF KnownVersions, PreloaderAssumption, FileData
  <2> QED  BY <2>1, <2>2, LoadCache
<1>2. ASSUME LoadModified  PROVE CInv' /\ NewestStep
  <2>1. PICK v \in KnownVersions, s \in AllSizes : Load(Modified, s, <<>>, v)
    BY <1>2 DEF LoadModified
  <2>2. /\ v \in [Files -> 1..MaxVersion] /\ <<>> \in Seq(Files)
        /\ \A x \in Files : v[x] <= disk[x]
        /\ Modified \in FileData
    BY DEF KnownVersions, FileData
  <2> QED  BY <2>1, <2>2, LoadCache
<1>3. CASE UNCHANGED vars
  <2>1. CInv'
    BY <1>3 DEF vars, CInv, CacheTypes, CacheOK, EntryOK, FileMatches, Known,
                DecodingOK, FreshAnswers, AnswersPast
  <2> QED  BY <1>3, <2>1, NothingAnswered DEF vars
<1> QED
  BY <1>1, <1>2, <1>3, CancelCache, ModifiedCache, DecodeCache, DropLoadedCache,
     KeepLoadedCache, LoadNextCache, DeliverCache, FileChangesCache DEF Next, MainLoop

LEMMA InitCInv == Init => CInv
<1> SUFFICES ASSUME Init  PROVE CInv
  OBVIOUS
<1>1. CacheTypes
  BY PreloaderAssumption DEF Init, CacheTypes, PreloaderAssumption
<1>2. CacheOK(cache, edit) /\ FreshAnswers /\ AnswersPast /\ DecodingOK
  BY DEF Init, CacheOK, FreshAnswers, AnswersPast, DecodingOK
<1> QED  BY <1>1, <1>2, NoRequestKnown DEF CInv, Init

(***************************************************************************)
(* Whatever is evicted, edited, changed on disk or displaced meanwhile, the *)
(* cache, the decoding in progress and the answers stay as CInv says.       *)
(***************************************************************************)
THEOREM CacheInvariant == Spec => []CInv
<1>1. Init => CInv
  BY InitCInv
<1>2. IInv /\ CInv /\ [Next]_vars => CInv'
  BY StepCache, PreloaderAssumption
<1> QED  BY <1>1, <1>2, EngineInvariant, PTL DEF Spec

\* The types of the whole state of gth-image-preloader.c, for every order of calls
\* and callbacks.
THEOREM PreloaderTypes == Spec => []TypeOK
<1>1. IInv /\ CInv => TypeOK
  BY DEF IInv, EngineTypes, CInv, CacheTypes, CacheOK, TypeOK
<1> QED  BY <1>1, EngineInvariant, CacheInvariant, PTL

\* add_to_cache never adds a second entry for a file, time and size, although the
\* cache may change between the lookup that missed and the decoded image.
THEOREM OneEntryPerImageHolds == Spec => []OneEntryPerImage
<1>1. CInv => OneEntryPerImage
  BY DEF CInv, CacheOK, OneEntryPerImage
<1> QED  BY <1>1, CacheInvariant, PTL

\* gth_image_preloader_set_modified_image leaves no image of an earlier edit behind.
THEOREM ModifiedIsLatestHolds == Spec => []ModifiedIsLatest
<1>1. CInv => ModifiedIsLatest
  BY DEF CInv, CacheOK, EntryOK, ModifiedIsLatest
<1> QED  BY <1>1, CacheInvariant, PTL

\* No answer is for another file or size, or older than its caller asked for,
\* although files change and entries of earlier times stay in the cache.
THEOREM FreshAnswersHolds == Spec => []FreshAnswers
<1>1. CInv => FreshAnswers
  BY DEF CInv
<1> QED  BY <1>1, CacheInvariant, PTL

\* image_loader_ready_cb and the timer answer the newest request only: no call of
\* gth_image_preloader_load is answered after another one.
THEOREM OnlyNewestAnsweredHolds == Spec => OnlyNewestAnswered
<1>1. IInv /\ CInv /\ [Next]_vars => [NewestStep]_vars
  BY StepCache, PreloaderAssumption
<1> QED
  BY <1>1, EngineInvariant, CacheInvariant, PTL DEF Spec, OnlyNewestAnswered, NewestStep

-----------------------------------------------------------------------------
(***************************************************************************)
(* PART III.  The preloader implements the safety part of LoadService. The *)
(* proof rests on the invariants of the engine and of the cache.           *)
(***************************************************************************)

(* The ids of the answers, as LoadService sees them. *)
Queue == [i \in DOMAIN answers |-> answers[i].req.id]

(* The timer is only set for a file after the first: the request is not    *)
(* waiting any more, so that it is not answered twice.                     *)
LateTimer == timer => pos > 1

SInv == IInv /\ TypeOK /\ LateTimer

-----------------------------------------------------------------------------
(* The queue *)

LEMMA QueueType ==
    ASSUME NEW q \in Seq(Answer)
    PROVE  LET ids == [i \in DOMAIN q |-> q[i].req.id]
           IN  /\ ids \in Seq(Nat) /\ Len(ids) = Len(q)
               /\ \A i \in 1..Len(q) : ids[i] = q[i].req.id
<1> DEFINE ids == [i \in DOMAIN q |-> q[i].req.id]
<1>1. Len(q) \in Nat /\ DOMAIN q = 1..Len(q) /\ \A i \in 1..Len(q) : q[i] \in Answer
  OBVIOUS
<1>2. \A i \in 1..Len(q) : q[i].req.id \in Nat
  BY <1>1 DEF Answer, RequestRecord
<1>3. ids \in [1..Len(q) -> Nat]
  BY <1>1, <1>2
<1>4. ids \in Seq(Nat)
  BY <1>1, <1>3, SeqDef
<1>5. Len(ids) = Len(q) /\ \A i \in 1..Len(q) : ids[i] = q[i].req.id
  BY <1>1, <1>3
<1> QED  BY <1>4, <1>5

LEMMA QueueGrows ==
    ASSUME answers \in Seq(Answer), NEW a \in Answer, answers' = Append(answers, a)
    PROVE  Queue' = Append(Queue, a.req.id)
<1>1. /\ answers' \in Seq(Answer) /\ Len(answers') = Len(answers) + 1
      /\ answers'[Len(answers) + 1] = a
      /\ \A i \in 1..Len(answers) : answers'[i] = answers[i]
  BY AppendProperties
<1>2. /\ Queue \in Seq(Nat) /\ Len(Queue) = Len(answers)
      /\ \A i \in 1..Len(answers) : Queue[i] = answers[i].req.id
  BY QueueType DEF Queue
<1>3. /\ Queue' \in Seq(Nat) /\ Len(Queue') = Len(answers')
      /\ \A i \in 1..Len(answers') : Queue'[i] = answers'[i].req.id
  BY <1>1, QueueType DEF Queue
<1>4. a.req.id \in Nat
  BY DEF Answer, RequestRecord
<1> DEFINE t == Append(Queue, a.req.id)
<1>5. /\ t \in Seq(Nat) /\ Len(t) = Len(Queue) + 1 /\ t[Len(Queue) + 1] = a.req.id
      /\ \A i \in 1..Len(Queue) : t[i] = Queue[i]
  BY <1>2, <1>4, AppendProperties
<1> HIDE DEF t
<1>6. Len(answers) \in Nat
  OBVIOUS
<1>7. ASSUME NEW i \in 1..Len(Queue')  PROVE Queue'[i] = t[i]
  <2>1. CASE i = Len(answers) + 1
    BY <1>1, <1>2, <1>3, <1>5, <2>1
  <2>2. CASE i # Len(answers) + 1
    <3>1. i \in 1..Len(answers)
      BY <1>1, <1>3, <1>6, <2>2
    <3>2. Queue'[i] = answers'[i].req.id /\ answers'[i] = answers[i]
      BY <1>1, <1>3, <3>1
    <3>3. t[i] = Queue[i] /\ Queue[i] = answers[i].req.id
      BY <1>2, <1>5, <3>1
    <3> QED  BY <3>2, <3>3
  <2> QED  BY <2>1, <2>2
<1>8. Len(Queue') = Len(t)
  BY <1>1, <1>2, <1>3, <1>5
<1> QED  BY <1>3, <1>5, <1>7, <1>8, SeqEqual DEF t

LEMMA QueueShrinks ==
    ASSUME answers \in Seq(Answer), answers # <<>>, answers' = Tail(answers)
    PROVE  /\ Queue # <<>>
           /\ Head(Queue) = Head(answers).req.id
           /\ Queue' = Tail(Queue)
<1>1. /\ answers' \in Seq(Answer) /\ Len(answers') = Len(answers) - 1
      /\ \A i \in 1..Len(answers') : answers'[i] = answers[i+1]
  BY HeadTailProperties
<1>2. /\ Queue \in Seq(Nat) /\ Len(Queue) = Len(answers)
      /\ \A i \in 1..Len(answers) : Queue[i] = answers[i].req.id
  BY QueueType DEF Queue
<1>3. /\ Queue' \in Seq(Nat) /\ Len(Queue') = Len(answers')
      /\ \A i \in 1..Len(answers') : Queue'[i] = answers'[i].req.id
  BY <1>1, QueueType DEF Queue
<1>4. Len(answers) \in Nat /\ Len(answers) >= 1
  BY EmptySeq
<1>5. Queue # <<>>
  BY <1>2, <1>4
<1>6. Head(Queue) = Queue[1] /\ Head(answers) = answers[1]
  BY <1>2
<1>7. Head(Queue) = Head(answers).req.id
  BY <1>2, <1>4, <1>6
<1> DEFINE t == Tail(Queue)
<1>8. /\ t \in Seq(Nat) /\ Len(t) = Len(Queue) - 1
      /\ \A i \in 1..Len(t) : t[i] = Queue[i+1]
  BY <1>2, <1>5, HeadTailProperties
<1> HIDE DEF t
<1>9. ASSUME NEW i \in 1..Len(Queue')  PROVE Queue'[i] = t[i]
  <2>1. i \in 1..Len(answers') /\ i + 1 \in 1..Len(answers) /\ i \in 1..Len(t)
    BY <1>1, <1>2, <1>3, <1>4, <1>8
  <2>2. Queue'[i] = answers'[i].req.id /\ answers'[i] = answers[i+1]
    BY <1>1, <1>3, <2>1
  <2>3. t[i] = Queue[i+1] /\ Queue[i+1] = answers[i+1].req.id
    BY <1>2, <1>8, <2>1
  <2> QED  BY <2>2, <2>3
<1>10. Len(Queue') = Len(t)
  BY <1>1, <1>2, <1>3, <1>8
<1>11. Queue' = t
  BY <1>3, <1>8, <1>9, <1>10, SeqEqual
<1> QED  BY <1>5, <1>7, <1>11 DEF t

-----------------------------------------------------------------------------
(* What the handlers do to the waiting request *)

(* The request's file is done: it waits no more, and was answered or not. *)
Done(r, p) ==
    /\ Waiting' = 0
    /\ LateTimer'
    /\ \/ answers' = answers
       \/ p = 1 /\ \E d : answers' = Append(answers, [req |-> r, data |-> d])

(* The request's file is being decoded. *)
Decoding(r, p) ==
    /\ current' = r /\ last' = r /\ pos' = p
    /\ LateTimer'
    /\ answers' = answers

LEMMA CompletedDone ==
    ASSUME PreloaderAssumption, NEW r \in RequestRecord, NEW p \in DOMAIN r.files,
           NEW data, NEW c, NEW rf, RequestCompleted(r, p, data, c, rf, r)
    PROVE  Done(r, p)
<1> DEFINE next == NextMissing(r, p, c)
<1>1. next \in p+1 .. Len(r.files) + 1 /\ p \in Nat \ {0}
  <2>1. r.files \in Seq(FileData)
    BY DEF RequestRecord
  <2> QED  BY <2>1, NextMissingRange
<1>2. \/ answers' = answers
      \/ p = 1 /\ \E d : answers' = Append(answers, [req |-> r, data |-> d])
  BY DEF RequestCompleted, IsAnswered
<1>3. CASE next > Len(r.files)
  <2>1. last' = NoRequest /\ timer' = FALSE
    BY <1>3 DEF RequestCompleted, RequestFinished
  <2> QED  BY <1>2, <2>1 DEF Done, Waiting, LateTimer
<1>4. CASE ~ (next > Len(r.files))
  <2>1. last' = r /\ current' = r /\ pos' = next
    BY <1>4 DEF RequestCompleted
  <2>2. next > 1
    BY <1>1
  <2>3. pos' > 1
    BY <2>1, <2>2
  <2> QED  BY <1>2, <2>1, <2>3 DEF Done, Waiting, LateTimer
<1> QED  BY <1>3, <1>4

LEMMA LoadCurrentDone ==
    ASSUME PreloaderAssumption, NEW r \in RequestRecord, NEW p \in DOMAIN r.files,
           NEW c, NEW rf, LoadCurrentFile(r, p, c, rf, r)
    PROVE  Done(r, p) \/ Decoding(r, p)
<1>1. CASE RequestCompleted(r, p, Lookup(c, r.files[p], r.size), c, rf, r)
  BY <1>1, CompletedDone
<1>2. CASE /\ current' = r /\ last' = r /\ pos' = p /\ timer' = FALSE
           /\ answers' = answers
  BY <1>2 DEF Decoding, LateTimer
<1> QED  BY <1>1, <1>2 DEF LoadCurrentFile

(* An answer to the request that waits. *)
LEMMA AnswerQueued ==
    ASSUME TypeOK, TypeOK', NEW r \in RequestRecord, NEW d,
           answers' = Append(answers, [req |-> r, data |-> d])
    PROVE  Queue' = Append(Queue, r.id)
<1> DEFINE a == [req |-> r, data |-> d]
<1>1. answers \in Seq(Answer) /\ answers' \in Seq(Answer)
  BY DEF TypeOK
<1>2. Len(answers) \in Nat /\ Len(answers') = Len(answers) + 1
      /\ answers'[Len(answers) + 1] = a
  BY <1>1
<1>3. a \in Answer
  BY <1>1, <1>2, ElementOfSeq
<1>4. a.req.id = r.id
  OBVIOUS
<1> HIDE DEF a
<1>5. Queue' = Append(Queue, a.req.id)
  BY <1>1, <1>3, QueueGrows DEF a
<1> QED  BY <1>4, <1>5

(* What the rest of a request's files does, it is not seen. *)
LEMMA QueueKept ==
    ASSUME UNCHANGED answers
    PROVE  UNCHANGED Queue
BY DEF Queue

-----------------------------------------------------------------------------
(* The actions.  Each is a step of the service, or is not seen. *)

Seen == [Service!ServiceNext]_(Service!svars) /\ LateTimer'

LEMMA Hidden ==
    ASSUME UNCHANGED <<issued, Waiting, answers, delivered>>, LateTimer'
    PROVE  Seen
BY DEF Seen, Service!svars

LEMMA LoadAsks ==
    ASSUME PreloaderAssumption, SInv, TypeOK',
           NEW f \in FileData, NEW s \in AllSizes, NEW ns \in Seq(Files),
           NEW v \in [Files -> 1..MaxVersion], Load(f, s, ns, v)
    PROVE  Seen
<1> DEFINE r == Request(f, s, ns, v)
<1>1. /\ issued \in 0..MaxRequests /\ issued < MaxRequests /\ issued' = issued + 1
      /\ UNCHANGED delivered
  BY DEF Load, SInv, IInv, EngineTypes
<1>2. r \in RequestRecord /\ r.id = issued + 1 /\ 1 \in DOMAIN r.files /\ r # NoRequest
  BY <1>1, RequestType DEF RequestRecord, NoRequest
<1> HIDE DEF r
<1>3. ASSUME NEW x, StartRequest(r, cache, x, r)  PROVE Seen
  <2>1. Done(r, 1) \/ Decoding(r, 1)
    BY <1>2, <1>3, LoadCurrentDone DEF StartRequest
  <2>2. CASE Done(r, 1)
    <3>1. Queue' \in {Queue, Append(Queue, issued + 1)}
      <4>1. CASE answers' = answers
        BY <4>1, QueueKept
      <4>2. CASE answers' # answers
        <5>1. PICK d : answers' = Append(answers, [req |-> r, data |-> d])
          BY <2>2, <4>2 DEF Done
        <5>2. Queue' = Append(Queue, r.id)
          BY <1>2, <5>1, AnswerQueued DEF SInv
        <5> QED  BY <1>2, <5>2
      <4> QED  BY <4>1, <4>2
    <3>2. Service!Ask
      BY <1>1, <2>2, <3>1 DEF Service!Ask, Done, Queue
    <3> QED  BY <2>2, <3>2 DEF Seen, Service!ServiceNext, Done
  <2>3. CASE Decoding(r, 1)
    <3>1. Waiting' = issued + 1
      BY <1>2, <2>3 DEF Decoding, Waiting
    <3>2. UNCHANGED Queue
      BY <2>3, QueueKept DEF Decoding
    <3>3. Service!Ask
      BY <1>1, <3>1, <3>2 DEF Service!Ask, Queue
    <3> QED  BY <2>3, <3>3 DEF Seen, Service!ServiceNext, Decoding
  <2> QED  BY <2>1, <2>2, <2>3
<1>4. CASE /\ current # NoRequest /\ last' = r
           /\ UNCHANGED <<current, pos, timer, answers>>
  <2>1. current.id <= issued /\ current.id \in Nat
    BY <1>4 DEF SInv, IInv, Ids, EngineTypes, RequestRecord
  <2>2. r # current
    BY <1>1, <1>2, <2>1
  <2>3. Waiting' = issued + 1
    BY <1>2, <1>4, <2>2 DEF Waiting
  <2>4. UNCHANGED Queue
    BY <1>4, QueueKept
  <2>5. Service!Ask
    BY <1>1, <2>3, <2>4 DEF Service!Ask, Queue
  <2> QED  BY <1>4, <2>5 DEF Seen, Service!ServiceNext, SInv, LateTimer
<1> QED  BY <1>3, <1>4 DEF Load, r

(* The waiting request is done: the service has answered or refused it. *)
LEMMA DoneSeen ==
    ASSUME SInv, TypeOK', NEW r \in RequestRecord, NEW p, Done(r, p),
           p = 1 => Waiting = r.id, p # 1 => Waiting = 0,
           UNCHANGED <<issued, delivered>>
    PROVE  Seen
<1>1. LateTimer' /\ Waiting' = 0
  BY DEF Done
<1>2. CASE p # 1
  <2>1. UNCHANGED <<answers, Waiting>>
    BY <1>1, <1>2 DEF Done
  <2> QED  BY <1>1, <2>1, Hidden
<1>3. CASE p = 1
  <2>1. Waiting = r.id /\ Waiting # 0
    BY <1>3 DEF RequestRecord
  <2>2. CASE answers' = answers
    <3>1. UNCHANGED Queue
      BY <2>2, QueueKept
    <3>2. Service!Refuse
      BY <1>1, <2>1, <3>1 DEF Service!Refuse, Queue
    <3> QED  BY <1>1, <3>2 DEF Seen, Service!ServiceNext
  <2>3. CASE answers' # answers
    <3>1. PICK d : answers' = Append(answers, [req |-> r, data |-> d])
      BY <2>3 DEF Done
    <3>2. Queue' = Append(Queue, Waiting)
      BY <2>1, <3>1, AnswerQueued DEF SInv
    <3>3. Service!Answer
      BY <1>1, <2>1, <3>2 DEF Service!Answer, Queue
    <3> QED  BY <1>1, <3>3 DEF Seen, Service!ServiceNext
  <2> QED  BY <2>2, <2>3
<1> QED  BY <1>2, <1>3

(* A dropped request waits no more, and the one that displaced it waits on.  *)
LEMMA DropLoadedSeen ==
    ASSUME PreloaderAssumption, SInv, TypeOK', DropLoaded
    PROVE  Seen
<1>1. /\ UNCHANGED <<issued, delivered>>
      /\ current # NoRequest /\ last # NoRequest /\ last \in RequestRecord
      /\ loading = "done" /\ ~ timer
  BY DEF DropLoaded, SInv, IInv, NeverStalled, EngineTypes
<1>2. CASE /\ last = current
           /\ RequestFinished(current, Release(ref, current, 1), last)
           /\ UNCHANGED <<timer, answers>>
  <2>1. last' = NoRequest /\ Waiting' = 0 /\ LateTimer'
    BY <1>1, <1>2 DEF RequestFinished, Waiting, LateTimer
  <2>2. CASE Waiting = 0
    BY <1>1, <1>2, <2>1, <2>2, Hidden
  <2>3. CASE Waiting # 0
    <3>1. UNCHANGED Queue
      BY <1>2, QueueKept
    <3>2. Service!Refuse
      BY <1>1, <2>1, <2>3, <3>1 DEF Service!Refuse, Queue
    <3> QED  BY <2>1, <3>2 DEF Seen, Service!ServiceNext
  <2> QED  BY <2>2, <2>3
<1>3. CASE /\ last # current
           /\ StartRequest(last, cache, Release(ref, current, 3), last)
  <2>1. Waiting = last.id
    BY <1>1, <1>3 DEF Waiting
  <2>2. 1 \in DOMAIN last.files
    BY <1>1 DEF SInv, IInv, Ids, RequestRecord
  <2>3. Done(last, 1) \/ Decoding(last, 1)
    BY <1>1, <1>3, <2>2, LoadCurrentDone DEF StartRequest
  <2>4. CASE Done(last, 1)
    BY <1>1, <2>1, <2>4, DoneSeen
  <2>5. CASE Decoding(last, 1)
    <3>1. Waiting' = last.id
      BY <1>1, <2>5 DEF Decoding, Waiting
    <3> QED  BY <1>1, <2>1, <2>5, <3>1, Hidden DEF Decoding
  <2> QED  BY <2>3, <2>4, <2>5
<1> QED  BY <1>1, <1>2, <1>3 DEF DropLoaded

LEMMA KeepLoadedSeen ==
    ASSUME PreloaderAssumption, SInv, TypeOK', KeepLoaded
    PROVE  Seen
<1> DEFINE d == [file |-> current.files[pos].file, mtime |-> current.files[pos].mtime,
                 size |-> current.size, image |-> loaded]
<1>1. /\ UNCHANGED <<issued, delivered>> /\ loading = "done" /\ last = current
      /\ RequestCompleted(current, pos, d, cache', Release(ref, current, 1), current)
  BY DEF KeepLoaded, Displaced
<1>2. current # NoRequest /\ current \in RequestRecord /\ pos \in DOMAIN current.files
  BY <1>1 DEF SInv, IInv, NeverStalled, EngineTypes
<1>3. Done(current, pos)
  BY <1>1, <1>2, CompletedDone
<1>4. pos \in Nat \ {0}
  BY <1>2 DEF RequestRecord
<1>5. (pos = 1 => Waiting = current.id) /\ (pos # 1 => Waiting = 0)
  BY <1>1, <1>2, <1>4 DEF Waiting
<1> QED  BY <1>1, <1>2, <1>3, <1>5, DoneSeen

LEMMA LoadNextSeen ==
    ASSUME PreloaderAssumption, SInv, TypeOK', LoadNext
    PROVE  Seen
<1>1. /\ UNCHANGED <<issued, delivered>> /\ timer
      /\ LoadCurrentFile(current, pos, cache, ref, last)
  BY DEF LoadNext
<1>2. /\ current # NoRequest /\ current \in RequestRecord /\ pos \in DOMAIN current.files
      /\ last = current
  BY <1>1 DEF SInv, IInv, NeverStalled, EngineTypes
<1>3. pos > 1 /\ pos # 1
  BY <1>1 DEF SInv, LateTimer, IInv, EngineTypes
<1>4. Waiting = 0
  BY <1>2, <1>3 DEF Waiting
<1>5. Done(current, pos) \/ Decoding(current, pos)
  BY <1>1, <1>2, LoadCurrentDone
<1>6. CASE Done(current, pos)
  BY <1>1, <1>2, <1>3, <1>4, <1>6, DoneSeen
<1>7. CASE Decoding(current, pos)
  <2>1. Waiting' = 0
    BY <1>3, <1>7 DEF Decoding, Waiting
  <2> QED  BY <1>1, <1>4, <1>7, <2>1, Hidden DEF Decoding
<1> QED  BY <1>5, <1>6, <1>7

LEMMA DeliverSeen ==
    ASSUME SInv, Deliver
    PROVE  Seen
<1>1. /\ answers # <<>> /\ answers' = Tail(answers)
      /\ delivered' = Append(delivered, Head(answers).req.id)
      /\ UNCHANGED <<current, last, pos, timer, issued>>
  BY DEF Deliver
<1>2. Queue # <<>> /\ Head(Queue) = Head(answers).req.id /\ Queue' = Tail(Queue)
  BY <1>1, QueueShrinks DEF SInv, TypeOK
<1>3. LateTimer' /\ UNCHANGED Waiting
  BY <1>1 DEF SInv, LateTimer, Waiting
<1>4. Service!DeliverNext
  BY <1>1, <1>2, <1>3 DEF Service!DeliverNext, Queue
<1> QED  BY <1>3, <1>4 DEF Seen, Service!ServiceNext

LEMMA OthersHidden ==
    ASSUME SInv, UNCHANGED <<current, last, pos, timer, answers, issued, delivered>>
    PROVE  Seen
<1>1. LateTimer' /\ UNCHANGED Waiting
  BY DEF SInv, LateTimer, Waiting
<1> QED  BY <1>1, Hidden

LEMMA StepSeen ==
    ASSUME PreloaderAssumption, SInv, TypeOK', [Next]_vars
    PROVE  Seen
<1>1. ASSUME LoadFile  PROVE Seen
  <2>1. PICK v \in KnownVersions, f \in Files, s \in AllSizes, ns \in Neighbours :
              Load([file |-> f, mtime |-> v[f]], s, ns, v)
    BY <1>1 DEF LoadFile
  <2>2. /\ v \in [Files -> 1..MaxVersion] /\ ns \in Seq(Files)
        /\ [file |-> f, mtime |-> v[f]] \in FileData
    BY DEF KnownVersions, PreloaderAssumption, FileData
  <2> QED  BY <2>1, <2>2, LoadAsks
<1>2. ASSUME LoadModified  PROVE Seen
  <2>1. PICK v \in KnownVersions, s \in AllSizes : Load(Modified, s, <<>>, v)
    BY <1>2 DEF LoadModified
  <2>2. v \in [Files -> 1..MaxVersion] /\ <<>> \in Seq(Files) /\ Modified \in FileData
    BY DEF KnownVersions, FileData
  <2> QED  BY <2>1, <2>2, LoadAsks
<1>3. ASSUME NEW i \in 1..MaxRequests, Cancel(i)  PROVE Seen
  BY <1>3, OthersHidden DEF Cancel
<1>4. ASSUME NEW f \in Files, FileChanges(f)  PROVE Seen
  BY <1>4, OthersHidden DEF FileChanges
<1>5. CASE SetModifiedImage
  BY <1>5, OthersHidden DEF SetModifiedImage
<1>6. CASE ForgetModifiedImage
  BY <1>6, OthersHidden DEF ForgetModifiedImage
<1>7. CASE Decode
  BY <1>7, OthersHidden DEF Decode
<1>8. CASE UNCHANGED vars
  BY <1>8, OthersHidden DEF vars
<1> QED
  BY <1>1, <1>2, <1>3, <1>4, <1>5, <1>6, <1>7, <1>8, DropLoadedSeen, KeepLoadedSeen,
     LoadNextSeen, DeliverSeen DEF Next, MainLoop

(***************************************************************************)
(* Threads, timers, the cache and the neighbours decoded in advance can    *)
(* only delay or refuse an answer: they never give one twice, out of       *)
(* order, or to a request that a newer call of gth_image_preloader_load    *)
(* has displaced.                                                          *)
(***************************************************************************)
THEOREM PreloaderRefinesService == Spec => Service!ServiceSafety
<1>1. Init => Service!ServiceInit
  <2> SUFFICES ASSUME Init  PROVE Service!ServiceInit
    OBVIOUS
  <2>1. issued = 0 /\ delivered = <<>> /\ Waiting = 0 /\ answers = <<>>
    BY DEF Init, Waiting
  <2>2. Queue = <<>>
    <3>1. answers \in Seq(Answer) /\ Len(answers) = 0
      BY <2>1, EmptySeq
    <3>2. Queue \in Seq(Nat) /\ Len(Queue) = 0
      BY <3>1, QueueType DEF Queue
    <3> QED  BY <3>2, EmptySeq
  <2> QED  BY <2>1, <2>2 DEF Service!ServiceInit, Queue
<1>2. Init => LateTimer
  BY DEF Init, LateTimer
<1>3. SInv /\ TypeOK' /\ [Next]_vars => [Service!ServiceNext]_(Service!svars) /\ LateTimer'
  BY StepSeen, PreloaderAssumption DEF Seen
<1> QED
  BY <1>1, <1>2, <1>3, EngineInvariant, PreloaderTypes, PTL
     DEF Spec, SInv, Service!ServiceSafety

-----------------------------------------------------------------------------
(***************************************************************************)
(* PART IV.  The viewer page, with the invariants of the preloader.        *)
(***************************************************************************)

(***************************************************************************)
(* The inductive invariant.  Besides the preloader's own (IInv, CInv): how *)
(* the requests look that the page makes, that nothing is under way before *)
(* a file is open, and that the cache has room for what may still be       *)
(* decoded before the edited image is evicted.                             *)
(***************************************************************************)
ReqOK(r, cs) ==
    r # NoRequest =>
        /\ Len(r.files) <= CACHE_MAX_SIZE
        /\ r.files[1] = Modified => Len(r.files) = 1
        /\ cs[r.id].kind = "save" => r.files[1] = Modified

CurrentReal == current # NoRequest => current.files[1] # Modified

NothingBefore ==
    /\ file = NoFile =>
         issued = 0 /\ ~ changed /\ ~ qualityTimer /\ undo = <<>> /\ redo = <<>> /\ tasks = {}
    /\ file # NoFile => file.mtime <= disk[file.file]

\* The edited image will still be asked for.
Needed == changed \/ (last # NoRequest /\ calls[last.id].kind = "save")

\* How many files may be decoded for the newest request.
Rest ==
    IF last = NoRequest \/ last.files[1] = Modified THEN 0
    ELSE IF last = current THEN Len(last.files) - pos + 1
    ELSE Len(last.files)

CacheRoom ==
    /\ Len(cache) <= CACHE_MAX_SIZE + 1
    /\ Needed => \E k \in DOMAIN cache : /\ cache[k].file = GTH_MODIFIED_IMAGE
                                         /\ k + Rest <= CACHE_MAX_SIZE + 1

Requests == ReqOK(current, calls) /\ ReqOK(last, calls) /\ CurrentReal

PInv ==
    /\ IInv /\ CInv
    /\ PageTypeOK
    /\ NothingBefore
    /\ Requests
    /\ CacheRoom

-----------------------------------------------------------------------------
(* What the preloader's handlers leave *)

(* The request goes on from its file p, or is finished. *)
Goes(r, p) ==
    \/ last' = NoRequest /\ current' = NoRequest
    \/ /\ last' = r /\ current' = r
       /\ pos' \in p..Len(r.files)
       /\ pos' = p => r.files[p] # Modified

LEMMA CompletedGoes ==
    ASSUME PreloaderAssumption, NEW r \in RequestRecord, NEW p \in DOMAIN r.files,
           NEW data, NEW c, NEW rf, RequestCompleted(r, p, data, c, rf, r)
    PROVE  \/ last' = NoRequest /\ current' = NoRequest
           \/ last' = r /\ current' = r /\ pos' \in p+1..Len(r.files)
<1> DEFINE next == NextMissing(r, p, c)
<1>1. next \in p+1 .. Len(r.files) + 1 /\ Len(r.files) \in Nat /\ p \in Nat
  <2>1. r.files \in Seq(FileData)
    BY DEF RequestRecord
  <2> QED  BY <2>1, NextMissingRange
<1>2. CASE next > Len(r.files)
  BY <1>2 DEF RequestCompleted, RequestFinished
<1>3. CASE ~ (next > Len(r.files))
  <2>1. last' = r /\ current' = r /\ pos' = next
    BY <1>3 DEF RequestCompleted
  <2>2. next \in p+1..Len(r.files)
    BY <1>1, <1>3
  <2> QED  BY <2>1, <2>2
<1> QED  BY <1>2, <1>3

LEMMA LoadCurrentGoes ==
    ASSUME PreloaderAssumption, NEW r \in RequestRecord, NEW p \in DOMAIN r.files,
           NEW c, NEW rf, LoadCurrentFile(r, p, c, rf, r)
    PROVE  Goes(r, p)
<1>1. r.files \in Seq(FileData) /\ p \in Nat /\ p <= Len(r.files) /\ Len(r.files) \in Nat
  BY DEF RequestRecord
<1>2. CASE RequestCompleted(r, p, Lookup(c, r.files[p], r.size), c, rf, r)
  <2>1. \/ last' = NoRequest /\ current' = NoRequest
        \/ last' = r /\ current' = r /\ pos' \in p+1..Len(r.files)
    BY <1>2, CompletedGoes
  <2> QED  BY <1>1, <2>1 DEF Goes
<1>3. CASE r.files[p] # Modified /\ current' = r /\ last' = r /\ pos' = p
  BY <1>1, <1>3 DEF Goes
<1> QED  BY <1>2, <1>3 DEF LoadCurrentFile

(* A request that asks for a file, with at most as many as fit the cache. *)
LEMMA RequestFacts ==
    ASSUME PreloaderAssumption, NEW f \in FileData, NEW s \in AllSizes,
           NEW ns \in Seq(Files), NEW v \in [Files -> 1..MaxVersion],
           issued \in 0..MaxRequests, issued < MaxRequests
    PROVE  LET r == Request(f, s, ns, v)
           IN  /\ r \in RequestRecord /\ r # NoRequest
               /\ r.id = issued + 1 /\ 1 \in DOMAIN r.files
               /\ r.files[1] = f /\ Len(r.files) = Len(ns) + 1
<1> DEFINE r == Request(f, s, ns, v)
           tail == [i \in DOMAIN ns |-> [file |-> ns[i], mtime |-> v[ns[i]]]]
<1>1. r \in RequestRecord /\ r.id = issued + 1 /\ 1 \in DOMAIN r.files
  BY RequestType
<1>2. Len(ns) \in Nat /\ DOMAIN ns = 1..Len(ns) /\ \A i \in DOMAIN ns : ns[i] \in Files
  OBVIOUS
<1>3. tail \in Seq(FileData) /\ Len(tail) = Len(ns)
  <2>1. \A i \in DOMAIN ns : tail[i] \in FileData
    BY <1>2 DEF FileData
  <2>2. tail \in [1..Len(ns) -> FileData]
    BY <1>2, <2>1
  <2> QED  BY <1>2, <2>2, SeqDef
<1>4. r.files = <<f>> \o tail
  BY DEF Request
<1> HIDE DEF tail
<1>5. r.files[1] = f /\ Len(r.files) = Len(ns) + 1
  BY <1>2, <1>3, <1>4
<1>6. r # NoRequest
  BY <1>1 DEF NoRequest
<1> QED  BY <1>1, <1>5, <1>6

(* The caller's request is running, waits, or is done. *)
LEMMA LoadFacts ==
    ASSUME PreloaderAssumption, IInv, CInv,
           NEW f \in FileData, NEW s \in AllSizes, NEW ns \in Seq(Files),
           NEW v \in [Files -> 1..MaxVersion], \A x \in Files : v[x] <= disk[x],
           f = Modified \/ f.mtime <= disk[f.file],
           f = Modified => ns = <<>>,
           Load(f, s, ns, v)
    PROVE  LET r == Request(f, s, ns, v)
           IN  /\ IInv' /\ CInv'
               /\ issued \in 0..MaxRequests /\ issued' = issued + 1
               /\ r \in RequestRecord /\ r # NoRequest /\ r.id = issued'
               /\ r.files[1] = f /\ Len(r.files) = Len(ns) + 1
               /\ last' \in {r, NoRequest}
               /\ current' \in {r, current, NoRequest}
               /\ f = Modified => current' # r
               /\ UNCHANGED <<cache, disk, edit>>
<1> DEFINE r == Request(f, s, ns, v)
<1>1. IInv' /\ CInv'
  BY LoadSound, LoadCache
<1>2. issued \in 0..MaxRequests /\ issued < MaxRequests /\ issued' = issued + 1
  BY DEF IInv, EngineTypes, Load
<1>3. /\ r \in RequestRecord /\ r # NoRequest /\ r.id = issued' /\ 1 \in DOMAIN r.files
      /\ r.files[1] = f /\ Len(r.files) = Len(ns) + 1
  BY <1>2, RequestFacts
<1> HIDE DEF r
<1>4. ASSUME NEW x, StartRequest(r, cache, x, r)
      PROVE  /\ last' \in {r, NoRequest}
             /\ current' \in {r, NoRequest}
             /\ f = Modified => current' # r
  <2>1. Goes(r, 1)
    BY <1>3, <1>4, LoadCurrentGoes DEF StartRequest
  <2>2. ASSUME f = Modified  PROVE current' # r
    <3>1. Len(r.files) = 1
      BY <1>3, <2>2
    <3> QED  BY <1>3, <2>1, <2>2, <3>1 DEF Goes
  <2> QED  BY <2>1, <2>2 DEF Goes
<1>5. ASSUME last' = r, UNCHANGED current, current # NoRequest
      PROVE  current' # r
  <2>1. current.id <= issued /\ current.id \in Nat
    BY <1>5 DEF IInv, Ids, EngineTypes, RequestRecord
  <2> QED  BY <1>2, <1>3, <1>5, <2>1
<1>6. UNCHANGED <<cache, disk, edit>>
  BY DEF Load
<1>7. /\ last' \in {r, NoRequest}
      /\ current' \in {r, current, NoRequest}
      /\ f = Modified => current' # r
  BY <1>4, <1>5 DEF Load, r
<1> QED  BY <1>1, <1>2, <1>3, <1>6, <1>7 DEF r


-----------------------------------------------------------------------------
(* The page asks *)

\* The invariant without the types of the page's own variables.
Base == IInv /\ CInv /\ Requests /\ CacheRoom

LEMMA RestType ==
    ASSUME PreloaderAssumption, IInv
    PROVE  Rest \in Nat /\ (last # NoRequest => Rest <= Len(last.files))
<1>1. last \in RequestRecord \union {NoRequest} /\ pos \in Nat
  BY DEF IInv, EngineTypes
<1>2. last # NoRequest => Len(last.files) \in Nat
  BY <1>1 DEF RequestRecord
<1>3. ASSUME last # NoRequest, last = current
      PROVE  pos \in 1..Len(last.files)
  <2>1. last.files \in Seq(FileData)
    BY <1>1, <1>3 DEF RequestRecord
  <2>2. pos \in DOMAIN last.files
    BY <1>3 DEF IInv, NeverStalled
  <2> QED  BY <2>1, <2>2
<1> QED  BY <1>1, <1>2, <1>3 DEF Rest

LEMMA Asked ==
    ASSUME PreloaderAssumption, PageAssumption, PInv,
           NEW f \in FileData, NEW s \in AllSizes, NEW ns \in Seq(Files),
           NEW v \in [Files -> 1..MaxVersion], \A x \in Files : v[x] <= disk[x],
           f = Modified \/ f.mtime <= disk[f.file],
           f = Modified => ns = <<>>, Len(ns) + 1 <= CACHE_MAX_SIZE,
           NEW kind \in CallKinds, NEW target, target.file \in Files,
           Ask(kind, target, f, s, ns, v),
           changed' => changed /\ f = Modified,
           kind = "save" => changed /\ f = Modified
    PROVE  /\ Base'
           /\ calls' \in Seq(Calls) /\ Len(calls') = issued' /\ issued' > 0
           /\ UNCHANGED <<disk, edit>>
<1> DEFINE r == Request(f, s, ns, v)
           call == [kind |-> kind, target |-> target.file]
<1>0. IInv /\ CInv /\ Load(f, s, ns, v) /\ calls' = Append(calls, call)
  BY DEF PInv, Ask
<1>1. /\ IInv' /\ CInv'
      /\ issued \in 0..MaxRequests /\ issued' = issued + 1
      /\ r \in RequestRecord /\ r # NoRequest /\ r.id = issued'
      /\ r.files[1] = f /\ Len(r.files) = Len(ns) + 1
      /\ last' \in {r, NoRequest}
      /\ current' \in {r, current, NoRequest}
      /\ f = Modified => current' # r
      /\ UNCHANGED <<cache, disk, edit>>
  BY <1>0, LoadFacts
<1> HIDE DEF r
<1>2. /\ calls' \in Seq(Calls) /\ Len(calls') = issued' /\ issued' > 0
      /\ calls'[issued'] = call
      /\ \A i \in 1..issued : calls'[i] = calls[i]
  <2>1. calls \in Seq(Calls) /\ Len(calls) = issued /\ call \in Calls
    BY DEF PInv, PageTypeOK, Calls
  <2> HIDE DEF call
  <2> QED  BY <1>0, <1>1, <2>1, AppendProperties, SMTT(60)
<1>3. calls'[r.id].kind = kind
  BY <1>1, <1>2
<1>4. f = Modified => Len(r.files) = 1
  BY <1>1
<1>5. ReqOK(r, calls')
  BY <1>1, <1>3, <1>4 DEF ReqOK
<1>6. current # NoRequest => current.id \in 1..issued
  BY <1>0, <1>1, PreloaderAssumption DEF IInv, Ids, EngineTypes, RequestRecord,
                                         PreloaderAssumption
<1>7. ReqOK(current, calls')
  BY <1>2, <1>6 DEF PInv, Requests, ReqOK
<1>8. Requests'
  <2>1. ReqOK(current', calls') /\ ReqOK(last', calls')
    BY <1>1, <1>5, <1>7 DEF ReqOK
  <2>2. CurrentReal'
    <3>1. CASE current' = r
      BY <1>1, <3>1 DEF CurrentReal
    <3>2. CASE current' # r
      BY <1>1, <3>2 DEF PInv, Requests, CurrentReal
    <3> QED  BY <3>1, <3>2
  <2> QED  BY <2>1, <2>2 DEF Requests
<1>9. CacheRoom'
  <2>1. Len(cache') <= CACHE_MAX_SIZE + 1
    BY <1>1 DEF PInv, CacheRoom
  <2>2. SUFFICES ASSUME Needed'
                 PROVE  \E k \in DOMAIN cache' :
                           /\ cache'[k].file = GTH_MODIFIED_IMAGE
                           /\ k + Rest' <= CACHE_MAX_SIZE + 1
    BY <2>1 DEF CacheRoom
  <2>3. changed /\ f = Modified
    BY <1>1, <1>3, <2>2 DEF Needed
  <2>4. Rest' = 0
    BY <1>1, <2>3 DEF Rest
  <2>5. PICK k \in DOMAIN cache : /\ cache[k].file = GTH_MODIFIED_IMAGE
                                  /\ k + Rest <= CACHE_MAX_SIZE + 1
    BY <2>3 DEF PInv, CacheRoom, Needed
  <2>6. Rest \in Nat /\ k \in Nat /\ CACHE_MAX_SIZE \in Nat
    BY <1>0, RestType, PreloaderAssumption DEF PreloaderAssumption, CInv, CacheOK
  <2>7. k + Rest' <= CACHE_MAX_SIZE + 1
    BY <2>4, <2>5, <2>6
  <2> QED  BY <1>1, <2>5, <2>7
<1> QED  BY <1>1, <1>2, <1>8, <1>9 DEF Base

-----------------------------------------------------------------------------
(* The page gives the preloader an edited image *)

(* The engine and the requests stay as they are. *)
LEMMA RequestsKept ==
    ASSUME Requests, UNCHANGED <<current, last, calls>>
    PROVE  Requests'
BY DEF Requests, ReqOK, CurrentReal

LEMMA ModifiedSet ==
    ASSUME PreloaderAssumption, PageAssumption, PInv, SetModifiedImage, UNCHANGED calls
    PROVE  Base' /\ edit' = edit + 1 /\ edit' \in 1..MaxEdits /\ UNCHANGED <<disk, issued>>
<1> DEFINE w == WithoutModified(cache)
           d == [file |-> GTH_MODIFIED_IMAGE, mtime |-> 0,
                 size |-> GTH_ORIGINAL_SIZE, image |-> edit + 1]
<1>1. /\ edit < MaxEdits /\ edit' = edit + 1 /\ cache' = AddToCache(w, d)
      /\ UNCHANGED <<current, last, pos, disk, issued>>
  BY DEF SetModifiedImage
<1>2. IInv /\ CInv /\ edit \in 0..MaxEdits /\ MaxEdits \in Nat /\ CACHE_MAX_SIZE \in Nat
  BY DEF PInv, CInv, CacheTypes, PreloaderAssumption
<1>3. IInv' /\ CInv'
  BY <1>2, EngineStep, ModifiedCache DEF Next
<1>4. CacheOK(w, edit + 1) /\ Len(w) <= Len(cache)
      /\ \A i \in DOMAIN w : w[i].file # GTH_MODIFIED_IMAGE
  BY <1>2, WithoutKeeps DEF CInv
<1>5. d \in CacheData /\ EntryOK(d, edit + 1)
  BY <1>2, PreloaderAssumption DEF CacheData, EntryOK, AllSizes, PreloaderAssumption
<1>6. \A i \in DOMAIN w : ~ (FileMatches(w[i], d) /\ w[i].size = d.size)
  BY <1>4 DEF FileMatches
<1>7. d.file = GTH_MODIFIED_IMAGE
  OBVIOUS
<1> HIDE DEF w, d
<1>8. /\ cache'[1] = d /\ 1 \in DOMAIN cache'
      /\ Len(w) <= CACHE_MAX_SIZE + 1 => Len(cache') <= CACHE_MAX_SIZE + 1
  BY <1>1, <1>4, <1>5, <1>6, AddKeeps
<1>9. Len(cache') <= CACHE_MAX_SIZE + 1
  <2>1. Len(cache) <= CACHE_MAX_SIZE + 1 /\ Len(cache) \in Nat /\ Len(w) \in Nat
    BY <1>2, <1>4 DEF PInv, CacheRoom, CInv, CacheOK
  <2> QED  BY <1>2, <1>4, <1>8, <2>1
<1>10. 1 + Rest' <= CACHE_MAX_SIZE + 1
  <2>1. Rest' = Rest
    BY <1>1 DEF Rest
  <2>2. Rest \in Nat /\ (last # NoRequest => Rest <= Len(last.files))
    BY <1>2, RestType
  <2>3. last # NoRequest => Len(last.files) <= CACHE_MAX_SIZE /\ Len(last.files) \in Nat
    BY <1>2 DEF PInv, Requests, ReqOK, IInv, EngineTypes, RequestRecord
  <2>4. last = NoRequest => Rest = 0
    BY DEF Rest
  <2> QED  BY <1>2, <2>1, <2>2, <2>3, <2>4
<1>11. CacheRoom'
  BY <1>7, <1>8, <1>9, <1>10 DEF CacheRoom
<1>12. Requests'
  BY <1>1, RequestsKept DEF PInv
<1>13. edit' \in 1..MaxEdits
  BY <1>1, <1>2
<1> QED  BY <1>1, <1>3, <1>11, <1>12, <1>13 DEF Base

(* Nothing of what the base rests on changes. *)
LEMMA BaseKept ==
    ASSUME PInv, UNCHANGED <<vars, calls>>, changed' => changed
    PROVE  Base'
<1>1. IInv /\ CInv /\ Requests /\ CacheRoom
  BY DEF PInv
<1>2. IInv' /\ Requests'
  BY <1>1, UnchangedSound, RequestsKept DEF engine, vars
<1>3. CInv'
  BY <1>1 DEF vars, CInv, CacheTypes, CacheOK, EntryOK, FileMatches, Known, DecodingOK,
              FreshAnswers, AnswersPast
<1>4. CacheRoom'
  BY <1>1 DEF vars, CacheRoom, Needed, Rest
<1> QED  BY <1>2, <1>3, <1>4 DEF Base

-----------------------------------------------------------------------------
(* The preloader's own steps *)

(* A request that waits is started, or given up, and needs no more room for it. *)
LEMMA RoomKept ==
    ASSUME CacheRoom, Rest \in Nat, Rest' \in Nat, Rest' <= Rest, CACHE_MAX_SIZE \in Nat,
           cache \in Seq(CacheData), UNCHANGED <<cache, changed, calls>>,
           last' \in {last, NoRequest}
    PROVE  CacheRoom'
<1>1. Needed' => Needed
  BY DEF Needed
<1>2. ASSUME Needed
      PROVE  \E k \in DOMAIN cache : /\ cache[k].file = GTH_MODIFIED_IMAGE
                                     /\ k + Rest' <= CACHE_MAX_SIZE + 1
  <2>1. PICK k \in DOMAIN cache : /\ cache[k].file = GTH_MODIFIED_IMAGE
                                  /\ k + Rest <= CACHE_MAX_SIZE + 1
    BY <1>2 DEF CacheRoom
  <2>2. k \in Nat
    OBVIOUS
  <2>3. k + Rest' <= CACHE_MAX_SIZE + 1
    BY <2>1, <2>2
  <2> QED  BY <2>1, <2>3
<1> QED  BY <1>1, <1>2 DEF CacheRoom

(* What is left to decode after Goes, and how the requests look. *)
LEMMA GoesRest ==
    ASSUME NEW r \in RequestRecord, r # NoRequest, r.files[1] # Modified,
           NEW p \in 1..Len(r.files), Goes(r, p)
    PROVE  Rest' \in Nat /\ Rest' <= Len(r.files) - p + 1
<1>1. Len(r.files) \in Nat
  BY DEF RequestRecord
<1>2. CASE last' = NoRequest
  <2>1. Rest' = 0
    BY <1>2 DEF Rest
  <2> QED  BY <1>1, <2>1
<1>3. CASE last' = r /\ current' = r /\ pos' \in p..Len(r.files)
  <2>1. Rest' = Len(r.files) - pos' + 1
    BY <1>3 DEF Rest
  <2> DEFINE n == Len(r.files)
             q == pos'
  <2>2. n \in Nat /\ q \in p..n /\ p \in 1..n /\ Rest' = n - q + 1
    BY <1>1, <1>3, <2>1
  <2> HIDE DEF n, q
  <2>3. n - q + 1 \in Nat /\ n - q + 1 <= n - p + 1
    BY <2>2
  <2> QED  BY <2>2, <2>3 DEF n
<1> QED  BY <1>2, <1>3 DEF Goes

LEMMA StartsReal ==
    ASSUME Requests, UNCHANGED calls, last # NoRequest, last \in RequestRecord, Goes(last, 1)
    PROVE  Requests' /\ (last' # NoRequest => last.files[1] # Modified)
<1>1. ReqOK(last, calls) /\ (last.files[1] = Modified => Len(last.files) = 1)
  BY DEF Requests, ReqOK
<1>2. ReqOK(last', calls') /\ ReqOK(current', calls')
  BY <1>1 DEF Goes, ReqOK, NoRequest
<1>3. last' # NoRequest => last.files[1] # Modified
  <2> SUFFICES ASSUME last' # NoRequest, last.files[1] = Modified  PROVE FALSE
    OBVIOUS
  <2>1. pos' \in 1..Len(last.files) /\ (pos' = 1 => last.files[1] # Modified)
    BY DEF Goes
  <2>2. Len(last.files) = 1
    BY <1>1
  <2>3. pos' = 1
    BY <2>1, <2>2
  <2> QED  BY <2>1, <2>3
<1>4. CurrentReal'
  BY <1>3 DEF Goes, CurrentReal
<1> QED  BY <1>2, <1>3, <1>4 DEF Requests

LEMMA DropLoadedRoom ==
    ASSUME PreloaderAssumption, PInv, DropLoaded, UNCHANGED pvars
    PROVE  Requests' /\ CacheRoom'
<1>1. /\ IInv /\ CInv /\ Requests /\ CacheRoom
      /\ UNCHANGED <<cache, changed, calls>>
      /\ cache \in Seq(CacheData) /\ CACHE_MAX_SIZE \in Nat /\ Rest \in Nat
  BY RestType, PreloaderAssumption
     DEF PInv, DropLoaded, pvars, CInv, CacheOK, PreloaderAssumption
<1>2. current # NoRequest /\ last # NoRequest /\ last \in RequestRecord
      /\ Len(last.files) > 0 /\ Len(last.files) \in Nat
  BY DEF PInv, IInv, DropLoaded, NeverStalled, EngineTypes, Ids, RequestRecord
<1>3. CASE last = current
  <2>1. last' = NoRequest /\ current' = NoRequest
    BY <1>3 DEF DropLoaded, RequestFinished
  <2>2. Rest' = 0
    BY <2>1 DEF Rest
  <2>3. CacheRoom'
    BY <1>1, <2>1, <2>2, RoomKept
  <2>4. Requests'
    BY <2>1 DEF Requests, ReqOK, CurrentReal
  <2> QED  BY <2>3, <2>4
<1>4. CASE last # current
  <2>1. 1 \in DOMAIN last.files
    BY <1>2 DEF RequestRecord
  <2>2. Goes(last, 1)
    BY <1>2, <1>4, <2>1, LoadCurrentGoes DEF DropLoaded, StartRequest
  <2>3. Requests' /\ (last' # NoRequest => last.files[1] # Modified)
    BY <1>1, <1>2, <2>2, StartsReal
  <2>4. last' \in {last, NoRequest}
    BY <2>2 DEF Goes
  <2>5. Rest' \in Nat /\ Rest' <= Rest
    <3>1. CASE last' = NoRequest
      BY <1>1, <3>1 DEF Rest
    <3>2. CASE last' # NoRequest
      <4>1. Rest = Len(last.files)
        BY <1>2, <1>4, <2>3, <3>2 DEF Rest
      <4>2. 1 \in 1..Len(last.files)
        BY <1>2
      <4>3. Rest' \in Nat /\ Rest' <= Len(last.files) - 1 + 1
        BY <1>2, <2>2, <2>3, <3>2, <4>2, GoesRest
      <4> QED  BY <1>2, <4>1, <4>3
    <3> QED  BY <3>1, <3>2
  <2>6. CacheRoom'
    BY <1>1, <2>4, <2>5, RoomKept
  <2> QED  BY <2>3, <2>6
<1> QED  BY <1>3, <1>4

LEMMA LoadNextRoom ==
    ASSUME PreloaderAssumption, PInv, LoadNext, UNCHANGED pvars
    PROVE  Requests' /\ CacheRoom'
<1>1. /\ IInv /\ CInv /\ Requests /\ CacheRoom
      /\ UNCHANGED <<cache, changed, calls>>
      /\ cache \in Seq(CacheData) /\ CACHE_MAX_SIZE \in Nat /\ Rest \in Nat
  BY RestType, PreloaderAssumption
     DEF PInv, LoadNext, pvars, CInv, CacheOK, PreloaderAssumption
<1>2. current # NoRequest /\ last = current /\ last \in RequestRecord
      /\ pos \in DOMAIN last.files /\ pos \in Nat /\ pos >= 1 /\ Len(last.files) \in Nat
      /\ pos <= Len(last.files)
  <2>1. current # NoRequest /\ last = current /\ last \in RequestRecord
        /\ pos \in DOMAIN last.files
    BY DEF PInv, IInv, LoadNext, NeverStalled, EngineTypes
  <2>2. last.files \in Seq(FileData)
    BY <2>1 DEF RequestRecord
  <2> QED  BY <2>1, <2>2
<1>3. last.files[1] # Modified
  BY <1>1, <1>2 DEF Requests, CurrentReal
<1>4. Goes(last, pos)
  BY <1>2, LoadCurrentGoes DEF LoadNext
<1>5. last' \in {last, NoRequest} /\ current' \in {last, NoRequest}
  BY <1>4 DEF Goes
<1>6. Requests'
  BY <1>1, <1>2, <1>5 DEF Requests, ReqOK, CurrentReal
<1>7. Rest = Len(last.files) - pos + 1
  BY <1>2, <1>3 DEF Rest
<1>8. Rest' \in Nat /\ Rest' <= Rest
  <2>1. pos \in 1..Len(last.files)
    BY <1>2
  <2>2. Rest' \in Nat /\ Rest' <= Len(last.files) - pos + 1
    BY <1>2, <1>3, <1>4, <2>1, GoesRest
  <2> QED  BY <1>7, <2>2
<1>9. CacheRoom'
  BY <1>1, <1>5, <1>8, RoomKept
<1> QED  BY <1>6, <1>9

(* A decoded file takes the place that was kept for it. *)
LEMMA KeepLoadedRoom ==
    ASSUME PreloaderAssumption, PInv, KeepLoaded, UNCHANGED pvars
    PROVE  Requests' /\ CacheRoom'
<1> DEFINE f == current.files[pos]
           d == [file |-> f.file, mtime |-> f.mtime, size |-> current.size,
                 image |-> loaded]
<1>1. /\ IInv /\ CInv /\ Requests /\ CacheRoom
      /\ UNCHANGED <<changed, calls>>
      /\ CacheOK(cache, edit)
      /\ cache \in Seq(CacheData) /\ CACHE_MAX_SIZE \in Nat /\ Rest \in Nat
  BY RestType, PreloaderAssumption
     DEF PInv, pvars, CInv, CacheOK, PreloaderAssumption
<1>2. current # NoRequest /\ last = current /\ last \in RequestRecord
      /\ pos \in DOMAIN last.files /\ pos \in Nat /\ pos >= 1 /\ Len(last.files) \in Nat
      /\ pos <= Len(last.files)
  <2>1. current # NoRequest /\ last = current /\ last \in RequestRecord
        /\ pos \in DOMAIN last.files
    BY DEF PInv, IInv, KeepLoaded, Displaced, NeverStalled, EngineTypes
  <2>2. last.files \in Seq(FileData)
    BY <2>1 DEF RequestRecord
  <2> QED  BY <2>1, <2>2
<1>3. last.files[1] # Modified
  BY <1>1, <1>2 DEF Requests, CurrentReal
<1>4. /\ cache' = AddToCache(cache, d) /\ loading = "done" /\ loaded # Cancelled
      /\ RequestCompleted(last, pos, d, cache', Release(ref, current, 1), last)
  BY <1>2 DEF KeepLoaded, Displaced
<1>5. /\ d \in CacheData /\ EntryOK(d, edit)
      /\ \A i \in DOMAIN cache : ~ (FileMatches(cache[i], d) /\ cache[i].size = d.size)
  BY <1>1, <1>2, <1>4, KeepLoadedEntry
<1> HIDE DEF d
<1>6. /\ \A j \in DOMAIN cache : j <= CACHE_MAX_SIZE =>
            j + 1 \in DOMAIN cache' /\ cache'[j+1] = cache[j]
      /\ Len(cache') <= CACHE_MAX_SIZE + 1
  <2>1. Len(cache) <= CACHE_MAX_SIZE + 1
    BY <1>1 DEF CacheRoom
  <2> QED  BY <1>1, <1>4, <1>5, <2>1, AddKeeps
<1>7. \/ last' = NoRequest /\ current' = NoRequest
      \/ last' = last /\ current' = last /\ pos' \in pos+1..Len(last.files)
  BY <1>2, <1>4, CompletedGoes
<1>8. Requests'
  <2>1. last' \in {last, NoRequest} /\ current' \in {last, NoRequest}
    BY <1>7
  <2> QED  BY <1>1, <1>2, <2>1 DEF Requests, ReqOK, CurrentReal
<1>9. Rest = Len(last.files) - pos + 1
  BY <1>2, <1>3 DEF Rest
<1>10. Rest' \in Nat /\ Rest' + 1 <= Rest
  <2>1. CASE last' = NoRequest
    <3>1. Rest' = 0
      BY <2>1 DEF Rest
    <3> QED  BY <1>2, <1>9, <3>1
  <2>2. CASE last' = last /\ current' = last /\ pos' \in pos+1..Len(last.files)
    <3>1. Rest' = Len(last.files) - pos' + 1
      BY <1>2, <1>3, <2>2 DEF Rest
    <3> QED  BY <1>2, <1>9, <2>2, <3>1
  <2> QED  BY <1>7, <2>1, <2>2
<1>11. ASSUME Needed'
       PROVE  \E k \in DOMAIN cache' : /\ cache'[k].file = GTH_MODIFIED_IMAGE
                                       /\ k + Rest' <= CACHE_MAX_SIZE + 1
  <2>1. Needed
    BY <1>1, <1>7, <1>11 DEF Needed
  <2>2. PICK k \in DOMAIN cache : /\ cache[k].file = GTH_MODIFIED_IMAGE
                                  /\ k + Rest <= CACHE_MAX_SIZE + 1
    BY <1>1, <2>1 DEF CacheRoom
  <2>3. k \in Nat
    BY <1>1
  <2>4. k <= CACHE_MAX_SIZE /\ (k + 1) + Rest' <= CACHE_MAX_SIZE + 1
    <3> DEFINE n == Rest
               m == Rest'
    <3>1. n \in Nat /\ m \in Nat /\ m + 1 <= n /\ k + n <= CACHE_MAX_SIZE + 1
      BY <1>1, <1>10, <2>2
    <3>2. CACHE_MAX_SIZE \in Nat
      BY <1>1
    <3> HIDE DEF n, m
    <3>3. k <= CACHE_MAX_SIZE /\ (k + 1) + m <= CACHE_MAX_SIZE + 1
      BY <2>3, <3>1, <3>2
    <3> QED  BY <3>3 DEF m
  <2>5. k + 1 \in DOMAIN cache' /\ cache'[k+1] = cache[k]
    BY <1>6, <2>4
  <2> QED  BY <2>2, <2>4, <2>5
<1> QED  BY <1>6, <1>8, <1>11 DEF CacheRoom


LEMMA EngineOnly ==
    ASSUME PreloaderAssumption, PInv, PreloaderStep
    PROVE  PInv'
<1>1. IInv /\ CInv /\ UNCHANGED pvars
  BY DEF PInv, PreloaderStep
<1>2. Decode \/ DropLoaded \/ KeepLoaded \/ LoadNext
  BY DEF PreloaderStep
<1>3. Next
  BY <1>2 DEF Next, MainLoop
<1>4. IInv' /\ CInv'
  BY <1>1, <1>3, EngineStep, StepCache
<1>5. UNCHANGED <<issued, disk, edit>>
  BY <1>2 DEF Decode, DropLoaded, KeepLoaded, LoadNext
<1>6. PageTypeOK' /\ NothingBefore'
  BY <1>1, <1>5 DEF PInv, PageTypeOK, NothingBefore, pvars
<1>7. ASSUME Decode  PROVE Requests' /\ CacheRoom'
  <2>1. UNCHANGED <<current, last, pos, cache, calls, changed>>
    BY <1>1, <1>7 DEF Decode, pvars
  <2>2. Requests'
    BY <2>1, RequestsKept DEF PInv
  <2>3. CacheRoom'
    BY <2>1 DEF PInv, CacheRoom, Needed, Rest
  <2> QED  BY <2>2, <2>3
<1>8. Requests' /\ CacheRoom'
  BY <1>1, <1>2, <1>7, DropLoadedRoom, KeepLoadedRoom, LoadNextRoom
<1> QED  BY <1>4, <1>6, <1>8 DEF PInv

-----------------------------------------------------------------------------
(* The types of the page *)

LEMMA ListType ==
    ASSUME PageAssumption, NEW l \in Seq(PageEntry), NEW e \in PageEntry
    PROVE  History!AddToList(l, e) \in Seq(PageEntry)
<1> DEFINE t == IF Len(l) > MAX_UNDO_HISTORY_LEN
                THEN SubSeq(l, 1, MAX_UNDO_HISTORY_LEN - 1) ELSE l
<1>1. MAX_UNDO_HISTORY_LEN \in Nat /\ MAX_UNDO_HISTORY_LEN >= 2
  BY DEF PageAssumption
<1>2. t \in Seq(PageEntry)
  BY <1>1
<1>3. History!AddToList(l, e) = <<e>> \o t
  BY DEF History!AddToList
<1> HIDE DEF t
<1> QED  BY <1>2, <1>3

(* The variables that a new image in the viewer sets. *)
ViewerTypes ==
    /\ shown \in Images /\ changed \in BOOLEAN /\ qualityTimer \in BOOLEAN
    /\ given \in Seq(Images) /\ Len(given) = edit

LEMMA SetImageSound ==
    ASSUME PreloaderAssumption, PageAssumption, PInv, NEW i \in Images, NEW m \in BOOLEAN,
           SetImage(i, m), UNCHANGED calls
    PROVE  Base' /\ ViewerTypes' /\ UNCHANGED <<disk, issued>>
<1>1. shown' = i /\ changed' = m /\ qualityTimer' \in BOOLEAN
  BY DEF SetImage, MayWantQuality, PInv, PageTypeOK
<1>2. given \in Seq(Images) /\ Len(given) = edit /\ edit \in Nat
  BY PreloaderAssumption DEF PInv, PageTypeOK, CInv, CacheTypes, PreloaderAssumption
<1>3. CASE SetModifiedImage /\ given' = Append(given, i)
  <2>1. Base' /\ edit' = edit + 1 /\ UNCHANGED <<disk, issued>>
    BY <1>3, ModifiedSet
  <2>2. given' \in Seq(Images) /\ Len(given') = edit'
    BY <1>2, <1>3, <2>1, AppendProperties
  <2> QED  BY <1>1, <2>1, <2>2 DEF ViewerTypes
<1>4. CASE ~ m /\ UNCHANGED <<given, vars>>
  <2>1. Base'
    BY <1>1, <1>4, BaseKept
  <2> QED  BY <1>1, <1>2, <1>4, <2>1 DEF ViewerTypes, vars
<1> QED  BY <1>3, <1>4 DEF SetImage

LEMMA ImageSet ==
    ASSUME PInv, Base', ViewerTypes', file # NoFile,
           UNCHANGED <<disk, issued, file, loadingImage, calls, crashed>>,
           undo' \in Seq(PageEntry), redo' \in Seq(PageEntry), tasks' \subseteq tasks
    PROVE  PInv'
<1>1. PageTypeOK'
  BY DEF PInv, PageTypeOK, ViewerTypes
<1>2. NothingBefore'
  BY DEF PInv, NothingBefore
<1> QED  BY <1>1, <1>2 DEF PInv, Base

-----------------------------------------------------------------------------
(* Editing *)

LEMMA NewImageSound ==
    ASSUME PreloaderAssumption, PageAssumption, PInv, NEW orig \in Files, file # NoFile,
           NewImage(orig), tasks' \subseteq tasks
    PROVE  PInv'
<1> DEFINE i == [of |-> orig, by |-> edit + 1]
           e == [image |-> i, unsaved |-> TRUE]
<1>1. edit < MaxEdits /\ edit \in 0..MaxEdits /\ MaxEdits \in Nat
  BY PreloaderAssumption
     DEF NewImage, SetImage, SetModifiedImage, PInv, CInv, CacheTypes, PreloaderAssumption
<1>2. i \in Images /\ e \in PageEntry
  BY <1>1 DEF Images, PageEntry
<1>3. undo' = History!AddToList(undo, e) /\ redo' = <<>> /\ SetImage(i, TRUE)
      /\ UNCHANGED <<file, loadingImage, calls, crashed>>
  BY DEF NewImage, History!AddImage, History!AddToList
<1> HIDE DEF i, e
<1>4. undo' \in Seq(PageEntry) /\ redo' \in Seq(PageEntry)
  BY <1>2, <1>3, ListType DEF PInv, PageTypeOK
<1>5. Base' /\ ViewerTypes' /\ UNCHANGED <<disk, issued>>
  BY <1>2, <1>3, SetImageSound
<1> QED  BY <1>3, <1>4, <1>5, ImageSet

LEMMA SomethingOpen ==
    ASSUME PInv
    PROVE  issued > 0 \/ changed \/ qualityTimer \/ undo # <<>> \/ redo # <<>> \/ tasks # {}
           => file # NoFile
BY DEF PInv, NothingBefore

LEMMA UndoSoundPage ==
    ASSUME PreloaderAssumption, PageAssumption, PInv, Undo
    PROVE  PInv'
<1>1. undo \in Seq(PageEntry) /\ redo \in Seq(PageEntry) /\ Len(undo) >= 2
  BY DEF Undo, History!CanUndo, PInv, PageTypeOK
<1>2. undo # <<>> /\ undo' = Tail(undo) /\ redo' = History!AddToList(redo, Head(undo))
  BY <1>1 DEF Undo
<1>3. Head(undo) \in PageEntry /\ undo' \in Seq(PageEntry) /\ undo' # <<>>
  <2>1. Head(undo) \in PageEntry /\ undo' \in Seq(PageEntry) /\ Len(undo') = Len(undo) - 1
    BY <1>1, <1>2, HeadTailProperties
  <2>2. Len(undo') # 0
    BY <1>1, <2>1
  <2> QED  BY <2>1, <2>2
<1>4. redo' \in Seq(PageEntry)
  BY <1>1, <1>2, <1>3, ListType
<1>5. Head(undo') \in PageEntry
  BY <1>3, HeadTailProperties
<1>6. Head(undo').image \in Images /\ Head(undo').unsaved \in BOOLEAN
  BY <1>5 DEF PageEntry
<1>7. Base' /\ ViewerTypes' /\ UNCHANGED <<disk, issued>>
  BY <1>6, SetImageSound DEF Undo
<1>8. file # NoFile
  BY <1>2, SomethingOpen
<1> QED  BY <1>3, <1>4, <1>7, <1>8, ImageSet DEF Undo

LEMMA RedoSoundPage ==
    ASSUME PreloaderAssumption, PageAssumption, PInv, Redo
    PROVE  PInv'
<1>1. undo \in Seq(PageEntry) /\ redo \in Seq(PageEntry) /\ redo # <<>>
  BY DEF Redo, History!CanRedo, PInv, PageTypeOK
<1>2. redo' = Tail(redo) /\ undo' = History!AddToList(undo, Head(redo))
  BY DEF Redo
<1>3. Head(redo) \in PageEntry /\ redo' \in Seq(PageEntry)
  BY <1>1, <1>2, HeadTailProperties
<1>4. undo' \in Seq(PageEntry)
  BY <1>1, <1>2, <1>3, ListType
<1>6. Head(redo).image \in Images /\ Head(redo).unsaved \in BOOLEAN
  BY <1>3 DEF PageEntry
<1>7. Base' /\ ViewerTypes' /\ UNCHANGED <<disk, issued>>
  BY <1>6, SetImageSound DEF Redo
<1>8. file # NoFile
  BY <1>1, SomethingOpen
<1> QED  BY <1>3, <1>4, <1>7, <1>8, ImageSet DEF Redo

LEMMA RevertSoundPage ==
    ASSUME PreloaderAssumption, PageAssumption, PInv, Revert
    PROVE  PInv'
<1>1. undo' = <<>> /\ redo' = <<>> /\ changed
      /\ UNCHANGED <<file, loadingImage, calls, tasks, crashed>>
  BY DEF Revert
<1>2. file # NoFile
  BY <1>1, SomethingOpen
<1>3. undo' \in Seq(PageEntry) /\ redo' \in Seq(PageEntry)
  BY <1>1
<1>4. CASE \E d \in History!LastSaved : SetImage(d.image, d.unsaved)
  <2>1. PICK d \in History!LastSaved : SetImage(d.image, d.unsaved)
    BY <1>4
  <2>2. d \in PageEntry
    <3>1. PICK k \in DOMAIN undo : d = undo[k]
      BY <2>1 DEF History!LastSaved
    <3> QED  BY <3>1 DEF PInv, PageTypeOK
  <2>3. d.image \in Images /\ d.unsaved \in BOOLEAN
    BY <2>2 DEF PageEntry
  <2>4. Base' /\ ViewerTypes' /\ UNCHANGED <<disk, issued>>
    BY <1>1, <2>1, <2>3, SetImageSound
  <2> QED  BY <1>1, <1>2, <1>3, <2>4, ImageSet
<1>5. CASE UNCHANGED <<shown, changed, qualityTimer, given, vars>>
  <2>1. Base'
    BY <1>1, <1>5, BaseKept
  <2>2. UNCHANGED <<disk, issued, edit>>
    BY <1>5 DEF vars
  <2>3. PageTypeOK'
    BY <1>1, <1>5, <2>2, <1>3 DEF PInv, PageTypeOK
  <2>4. NothingBefore'
    BY <1>1, <1>2, <2>2 DEF PInv, NothingBefore
  <2> QED  BY <2>1, <2>3, <2>4 DEF Base, PInv
<1> QED  BY <1>4, <1>5 DEF Revert


-----------------------------------------------------------------------------
(* Asking for images *)

LEMMA ViewSound ==
    ASSUME PreloaderAssumption, PageAssumption, PInv,
           NEW v \in KnownVersions, NEW f \in Files, NEW s \in AllSizes, NEW ns \in Neighbours,
           View(f, s, ns, v)
    PROVE  PInv'
<1> DEFINE d == [file |-> f, mtime |-> v[f]]
<1>1. /\ v \in [Files -> 1..MaxVersion] /\ \A x \in Files : v[x] <= disk[x]
      /\ ns \in Seq(Files) /\ Len(ns) + 1 <= CACHE_MAX_SIZE
  BY DEF KnownVersions, PreloaderAssumption, PageAssumption
<1>2. d \in FileData /\ d.mtime <= disk[d.file] /\ d.file \in Files
  BY <1>1 DEF FileData
<1>3. d # Modified
  BY <1>2, PreloaderAssumption DEF Modified, PreloaderAssumption
<1>4. /\ file' = d /\ changed' = FALSE /\ loadingImage' = TRUE /\ shown' = NoImage
      /\ Ask("view", d, d, s, ns, v)
      /\ UNCHANGED <<qualityTimer, undo, redo, given, tasks, crashed>>
  BY DEF View
<1> HIDE DEF d
<1>5. "view" \in CallKinds
  BY DEF CallKinds
<1>6. /\ Base' /\ calls' \in Seq(Calls) /\ Len(calls') = issued' /\ issued' > 0
      /\ UNCHANGED <<disk, edit>>
  BY <1>1, <1>2, <1>3, <1>4, <1>5, Asked
<1>7. PageTypeOK'
  BY <1>2, <1>4, <1>6 DEF PInv, PageTypeOK
<1>8. NothingBefore'
  BY <1>2, <1>3, <1>4, <1>6 DEF NothingBefore, NoFile
<1> QED  BY <1>6, <1>7, <1>8 DEF PInv, Base

(* The timer and the tools ask for the current file, or for the edited image. *)
LEMMA CurrentAsked ==
    ASSUME PreloaderAssumption, PageAssumption, PInv, file # NoFile,
           NEW kind \in CallKinds, NEW s \in AllSizes,
           Ask(kind, file, Current, s, <<>>, disk),
           kind = "save" => changed,
           qualityTimer' \in BOOLEAN,
           UNCHANGED <<file, changed, loadingImage, undo, redo, shown, given, tasks, crashed>>
    PROVE  PInv'
<1>1. file \in FileData /\ file.file \in Files /\ file.mtime <= disk[file.file]
  <2>1. file \in FileData /\ file.mtime <= disk[file.file]
    BY DEF PInv, PageTypeOK, NothingBefore
  <2> QED  BY <2>1 DEF FileData, NoFile
<1>2. disk \in [Files -> 1..MaxVersion] /\ \A x \in Files : disk[x] <= disk[x]
  <2>1. disk \in [Files -> 1..MaxVersion] /\ MaxVersion \in Nat
    BY PreloaderAssumption DEF PInv, CInv, CacheTypes, PreloaderAssumption
  <2> QED  BY <2>1
<1>3. Current \in FileData /\ (Current = Modified \/ Current.mtime <= disk[Current.file])
  BY <1>1 DEF Current, FileData
<1>4. changed <=> Current = Modified
  BY DEF Current, NoFile, PInv, PageTypeOK
<1>5. <<>> \in Seq(Files) /\ Len(<<>>) + 1 <= CACHE_MAX_SIZE
  BY DEF PageAssumption, PreloaderAssumption
<1> DEFINE c == Current
<1>6. /\ c \in FileData /\ (c = Modified \/ c.mtime <= disk[c.file])
      /\ (changed' => changed /\ c = Modified)
      /\ (kind = "save" => changed /\ c = Modified)
      /\ Ask(kind, file, c, s, <<>>, disk)
  BY <1>3, <1>4
<1> HIDE DEF c
<1>7. /\ Base' /\ calls' \in Seq(Calls) /\ Len(calls') = issued' /\ issued' > 0
      /\ UNCHANGED <<disk, edit>>
  BY <1>1, <1>2, <1>5, <1>6, Asked
<1>8. PageTypeOK'
  BY <1>7 DEF PInv, PageTypeOK
<1>9. NothingBefore'
  BY <1>7 DEF PInv, NothingBefore
<1> QED  BY <1>7, <1>8, <1>9 DEF PInv, Base

LEMMA UpdateQualitySound ==
    ASSUME PreloaderAssumption, PageAssumption, PInv, UpdateQuality
    PROVE  PInv'
<1>1. /\ qualityTimer /\ qualityTimer' = FALSE
      /\ UNCHANGED <<file, changed, loadingImage, undo, redo, shown, given, tasks, crashed>>
  BY DEF UpdateQuality
<1>2. file # NoFile
  BY <1>1, SomethingOpen
<1>3. CASE \E s \in AllSizes : Ask("quality", file, Current, s, <<>>, disk)
  <2>1. "quality" \in CallKinds /\ "quality" # "save"
    BY DEF CallKinds
  <2> QED  BY <1>1, <1>2, <1>3, <2>1, CurrentAsked
<1>4. CASE UNCHANGED <<vars, calls>>
  <2>1. Base'
    BY <1>1, <1>4, BaseKept
  <2>2. UNCHANGED <<disk, issued, edit>>
    BY <1>4 DEF vars
  <2>3. PageTypeOK' /\ NothingBefore'
    BY <1>1, <1>2, <1>4, <2>2 DEF PInv, PageTypeOK, NothingBefore
  <2> QED  BY <2>1, <2>3 DEF Base, PInv
<1> QED  BY <1>3, <1>4 DEF UpdateQuality

LEMMA GetOriginalSound ==
    ASSUME PreloaderAssumption, PageAssumption, PInv, StartEdit \/ StartSave
    PROVE  PInv'
<1>1. PICK kind \in {"edit", "save"} : GetOriginal(kind) /\ (kind = "save" => changed)
  BY DEF StartEdit, StartSave
<1>2. kind \in CallKinds /\ GTH_ORIGINAL_SIZE \in AllSizes
  BY DEF CallKinds, AllSizes
<1>3. qualityTimer' \in BOOLEAN
  BY <1>1 DEF GetOriginal, PInv, PageTypeOK
<1> QED  BY <1>1, <1>2, <1>3, CurrentAsked DEF GetOriginal

-----------------------------------------------------------------------------
(* The answers *)

\* What the page may change when it gets an answer.
AnswerTypesOK ==
    /\ loadingImage \in BOOLEAN /\ qualityTimer \in BOOLEAN /\ crashed \in BOOLEAN
    /\ shown \in Images \union {NoImage}
    /\ undo \in Seq(PageEntry) /\ redo \in Seq(PageEntry)
    /\ tasks \subseteq Tasks

LEMMA LoadedType ==
    ASSUME PreloaderAssumption, NEW f \in Files
    PROVE  /\ Loaded(f) \in Images
           /\ <<[image |-> Loaded(f), unsaved |-> FALSE]>> \in Seq(PageEntry)
<1>1. Loaded(f) \in Images
  BY DEF Loaded, Images, PreloaderAssumption
<1>2. [image |-> Loaded(f), unsaved |-> FALSE] \in PageEntry
  BY <1>1 DEF PageEntry
<1> QED  BY <1>1, <1>2

LEMMA AnswerFacts ==
    ASSUME PreloaderAssumption, PInv, answers # <<>>
    PROVE  LET a == Head(answers)
           IN  /\ a.req.id \in 1..Len(calls) /\ a.req.id \in 1..MaxRequests
               /\ calls[a.req.id] \in Calls /\ file # NoFile /\ file.file \in Files
               /\ a.data.file \in Files \union {GTH_MODIFIED_IMAGE}
               /\ a.data.file = GTH_MODIFIED_IMAGE /\ a.data.image # Failed =>
                    given[a.data.image] \in Images
<1> DEFINE a == Head(answers)
<1>1. answers \in Seq(Answer) /\ edit \in Nat /\ issued \in Nat
  BY PreloaderAssumption
     DEF PInv, IInv, EngineTypes, CInv, CacheTypes, PreloaderAssumption
<1>2. a = answers[1] /\ 1 \in DOMAIN answers /\ a \in Answer
  BY <1>1
<1> HIDE DEF a
<1>3. a.req.id \in 1..MaxRequests /\ a.data \in CacheData
  BY <1>2 DEF Answer, RequestRecord
<1>4. a.req.id <= issued /\ (a.data.file = GTH_MODIFIED_IMAGE => a.data.image <= edit)
  BY <1>2 DEF PInv, CInv, AnswersPast
<1>5. calls \in Seq(Calls) /\ Len(calls) = issued /\ given \in Seq(Images) /\ Len(given) = edit
  BY DEF PInv, PageTypeOK
<1>6. a.req.id \in 1..Len(calls)
  BY <1>1, <1>3, <1>4, <1>5
<1>7. issued > 0
  BY <1>1, <1>3, <1>4
<1>8. file # NoFile /\ file \in FileData
  BY <1>7, SomethingOpen DEF PInv, PageTypeOK
<1>9. file.file \in Files
  BY <1>8 DEF FileData, NoFile
<1>10. a.data.file \in Files \union {GTH_MODIFIED_IMAGE} /\ a.data.image \in Nat
  BY <1>3 DEF CacheData
<1>11. ASSUME a.data.file = GTH_MODIFIED_IMAGE, a.data.image # Failed
       PROVE  given[a.data.image] \in Images
  <2>1. a.data.image \in 1..Len(given)
    BY <1>1, <1>4, <1>5, <1>10, <1>11 DEF Failed
  <2> QED  BY <1>5, <2>1
<1> QED  BY <1>3, <1>5, <1>6, <1>8, <1>9, <1>10, <1>11 DEF a

LEMMA AnswerReadySound ==
    ASSUME PreloaderAssumption, PInv, AnswerReady
    PROVE  PInv'
<1> DEFINE a == Head(answers)
           d == a.data
           i == a.req.id
<1>1. Deliver /\ UNCHANGED <<calls, current, last, pos, cache, issued, disk, edit>>
      /\ answers # <<>>
  BY DEF AnswerReady, Deliver
<1>2. /\ i \in 1..MaxRequests /\ calls[i] \in Calls /\ file # NoFile /\ file.file \in Files
      /\ d.file \in Files \union {GTH_MODIFIED_IMAGE}
      /\ d.file = GTH_MODIFIED_IMAGE /\ d.image # Failed => given[d.image] \in Images
  BY <1>1, AnswerFacts
<1>3. \/ ViewReady(d)
      \/ QualityReady(d)
      \/ calls[i].kind \in {"edit", "save"} /\ OriginalReady(i, d)
  BY DEF AnswerReady
<1> HIDE DEF a, d, i
<1>4. UNCHANGED <<file, changed, given>>
  BY <1>3 DEF ViewReady, QualityReady, OriginalReady
<1>5. AnswerTypesOK
  BY DEF PInv, PageTypeOK, AnswerTypesOK
<1>6. AnswerTypesOK'
  <2>1. ASSUME ViewReady(d)  PROVE AnswerTypesOK'
    <3>1. Loaded(file.file) \in Images
          /\ <<[image |-> Loaded(file.file), unsaved |-> FALSE]>> \in Seq(PageEntry)
      BY <1>2, LoadedType
    <3>2. loadingImage' = FALSE /\ UNCHANGED <<crashed, tasks>>
      BY <2>1 DEF ViewReady
    <3>3. CASE UNCHANGED <<shown, undo, redo, qualityTimer>>
      BY <1>5, <3>2, <3>3 DEF AnswerTypesOK
    <3>4. CASE /\ d.file = file.file
               /\ shown' = Loaded(d.file)
               /\ History!ClearAndAdd(Loaded(d.file))
               /\ MayWantQuality(FALSE)
      <4>1. /\ undo' = <<[image |-> Loaded(file.file), unsaved |-> FALSE]>>
            /\ redo' = <<>> /\ qualityTimer' \in BOOLEAN
        BY <1>5, <3>4 DEF History!ClearAndAdd, MayWantQuality, AnswerTypesOK
      <4>2. undo' \in Seq(PageEntry) /\ redo' \in Seq(PageEntry)
        BY <3>1, <4>1
      <4> QED  BY <1>5, <3>1, <3>2, <3>4, <4>1, <4>2 DEF AnswerTypesOK
    <3> QED  BY <2>1, <3>3, <3>4 DEF ViewReady
  <2>2. ASSUME QualityReady(d)  PROVE AnswerTypesOK'
    <3>1. /\ crashed' \in BOOLEAN
          /\ UNCHANGED <<loadingImage, qualityTimer, undo, redo, tasks>>
      BY <2>2 DEF QualityReady
    <3>2. CASE UNCHANGED shown
      BY <1>5, <3>1, <3>2 DEF AnswerTypesOK
    <3>3. CASE /\ d.image # Failed /\ d.file \in {file.file, GTH_MODIFIED_IMAGE}
               /\ shown' \in {shown, IF d.file = file.file THEN Loaded(d.file)
                                                          ELSE given[d.image]}
      <4>1. d.file = file.file => Loaded(d.file) \in Images
        BY <1>2, LoadedType
      <4>2. shown' \in Images \union {NoImage}
        BY <1>2, <1>5, <3>3, <4>1 DEF AnswerTypesOK
      <4> QED  BY <1>5, <3>1, <4>2 DEF AnswerTypesOK
    <3> QED  BY <2>2, <3>2, <3>3 DEF QualityReady
  <2>3. ASSUME calls[i].kind \in {"edit", "save"}, OriginalReady(i, d)  PROVE AnswerTypesOK'
    <3>1. UNCHANGED <<loadingImage, qualityTimer, undo, redo, shown, crashed>>
      BY <2>3 DEF OriginalReady
    <3>2. CASE tasks' = tasks
      BY <1>5, <3>1, <3>2 DEF AnswerTypesOK
    <3>3. CASE d.image # Failed
      <4> DEFINE m == IF d.file = GTH_MODIFIED_IMAGE THEN given[d.image] ELSE Loaded(d.file)
      <4>1. m \in Images
        BY <1>2, <3>3, LoadedType
      <4>2. calls[i].target \in Files
        BY <1>2 DEF Calls
      <4>3. tasks' = tasks \union {[id |-> i, kind |-> calls[i].kind,
                                    target |-> calls[i].target, image |-> m]}
        BY <2>3, <3>3 DEF OriginalReady
      <4> HIDE DEF m
      <4>4. [id |-> i, kind |-> calls[i].kind, target |-> calls[i].target, image |-> m]
              \in Tasks
        BY <1>2, <2>3, <4>1, <4>2 DEF Tasks
      <4>5. tasks' \subseteq Tasks
        BY <1>5, <4>3, <4>4 DEF AnswerTypesOK
      <4> QED  BY <1>5, <3>1, <4>5 DEF AnswerTypesOK
    <3> QED  BY <2>3, <3>2, <3>3 DEF OriginalReady
  <2> QED  BY <1>3, <2>1, <2>2, <2>3
<1>7. PageTypeOK' /\ NothingBefore'
  BY <1>1, <1>2, <1>4, <1>6 DEF PInv, PageTypeOK, AnswerTypesOK, NothingBefore
<1>8. IInv' /\ CInv'
  BY <1>1, EngineStep, StepCache DEF Next, MainLoop, PInv
<1>9. Requests'
  BY <1>1, RequestsKept DEF PInv
<1>10. CacheRoom'
  BY <1>1, <1>4 DEF PInv, CacheRoom, Needed, Rest
<1> QED  BY <1>7, <1>8, <1>9, <1>10 DEF PInv


-----------------------------------------------------------------------------
(* The tasks *)

LEMMA TaskFacts ==
    ASSUME PInv, NEW t \in tasks
    PROVE  file # NoFile /\ t.target \in Files /\ t.image.of \in Files
<1>1. t \in Tasks
  BY DEF PInv, PageTypeOK
<1>2. file # NoFile
  BY SomethingOpen
<1> QED  BY <1>1, <1>2 DEF Tasks, Images

LEMMA TaskStepSound ==
    ASSUME PreloaderAssumption, PageAssumption, PInv, NEW t \in tasks,
           TaskFails(t) \/ EditDone(t) \/ SaveDone(t)
    PROVE  PInv'
<1>1. file # NoFile /\ t.target \in Files /\ t.image.of \in Files
  BY TaskFacts
<1>2. CASE TaskFails(t)
  <2>1. /\ tasks' \subseteq tasks
        /\ UNCHANGED <<file, changed, loadingImage, qualityTimer, undo, redo, shown,
                       given, calls, crashed, vars>>
    BY <1>2 DEF TaskFails
  <2>2. Base'
    BY <2>1, BaseKept
  <2>3. UNCHANGED <<disk, issued, edit>>
    BY <2>1 DEF vars
  <2>4. PageTypeOK' /\ NothingBefore'
    BY <1>1, <2>1, <2>3 DEF PInv, PageTypeOK, NothingBefore
  <2> QED  BY <2>2, <2>4 DEF Base, PInv
<1>3. CASE EditDone(t)
  <2>1. NewImage(t.image.of) /\ tasks' \subseteq tasks
    BY <1>3 DEF EditDone
  <2> QED  BY <1>1, <2>1, NewImageSound
<1>4. CASE SaveDone(t)
  <2>1. /\ tasks' \subseteq tasks /\ FileChanges(t.target)
        /\ UNCHANGED <<file, changed, loadingImage, qualityTimer, undo, redo, shown,
                       given, calls, crashed>>
    BY <1>4 DEF SaveDone
  <2>2. UNCHANGED <<current, last, pos, cache, issued, edit>>
    BY <2>1 DEF FileChanges
  <2>3. IInv' /\ CInv'
    BY <1>1, <2>1, EngineStep, FileChangesCache DEF Next, PInv
  <2>4. Requests' /\ CacheRoom'
    BY <2>1, <2>2, RequestsKept DEF PInv, CacheRoom, Needed, Rest
  <2>5. PageTypeOK'
    BY <2>1, <2>2 DEF PInv, PageTypeOK
  <2>6. file.mtime <= disk'[file.file]
    <3>1. disk \in [Files -> 1..MaxVersion] /\ MaxVersion \in Nat
      BY PreloaderAssumption DEF PInv, CInv, CacheTypes, PreloaderAssumption
    <3>2. disk' = [disk EXCEPT ![t.target] = @ + 1]
      BY <2>1 DEF FileChanges
    <3>3. file \in FileData /\ file.mtime <= disk[file.file]
      BY <1>1 DEF PInv, PageTypeOK, NothingBefore
    <3>4. file.file \in Files /\ file.mtime \in Int
      BY <1>1, <3>1, <3>3 DEF FileData, NoFile
    <3>5. disk[file.file] \in Int /\ disk[file.file] <= disk'[file.file]
          /\ disk'[file.file] \in Int
      BY <1>1, <3>1, <3>2, <3>4
    <3> QED  BY <3>3, <3>4, <3>5
  <2>7. NothingBefore'
    BY <1>1, <2>1, <2>6 DEF NothingBefore
  <2> QED  BY <2>3, <2>4, <2>5, <2>7 DEF PInv
<1> QED  BY <1>2, <1>3, <1>4

LEMMA CancelCallSound ==
    ASSUME PreloaderAssumption, PInv, NEW i \in 1..MaxRequests, CancelCall(i)
    PROVE  PInv'
<1>1. Cancel(i) /\ UNCHANGED pvars
  BY DEF CancelCall
<1>2. UNCHANGED <<current, last, pos, cache, issued, edit, disk>>
  BY <1>1 DEF Cancel
<1>3. IInv' /\ CInv'
  BY <1>1, EngineStep, CancelCache DEF Next, PInv
<1>4. Requests' /\ CacheRoom'
  BY <1>1, <1>2, RequestsKept DEF PInv, CacheRoom, Needed, Rest, pvars
<1>5. PageTypeOK' /\ NothingBefore'
  BY <1>1, <1>2 DEF PInv, PageTypeOK, NothingBefore, pvars
<1> QED  BY <1>3, <1>4, <1>5 DEF PInv

-----------------------------------------------------------------------------
(* The theorems *)

LEMMA PInvInit == PageInit => PInv
<1> SUFFICES ASSUME PageInit  PROVE PInv
  OBVIOUS
<1>1. IInv
  BY PreloaderAssumption, InitIInv DEF PageInit
<1>2. CInv
  BY InitCInv DEF PageInit
<1>3. PageTypeOK
  <2>1. file \in FileData
    BY DEF PageInit, NoFile, FileData
  <2>2. Len(given) = edit /\ Len(calls) = issued
    BY DEF PageInit, Init
  <2>3. /\ undo \in Seq(PageEntry) /\ redo \in Seq(PageEntry)
        /\ given \in Seq(Images) /\ calls \in Seq(Calls)
    BY DEF PageInit
  <2>4. /\ changed \in BOOLEAN /\ loadingImage \in BOOLEAN /\ qualityTimer \in BOOLEAN
        /\ crashed \in BOOLEAN
    BY DEF PageInit
  <2>5. shown \in Images \union {NoImage} /\ tasks \subseteq Tasks
    BY DEF PageInit
  <2> QED  BY <2>1, <2>2, <2>3, <2>4, <2>5 DEF PageTypeOK
<1>4. NothingBefore
  BY DEF PageInit, Init, NothingBefore
<1>5. Requests
  BY DEF PageInit, Init, Requests, ReqOK, CurrentReal
<1>6. CacheRoom
  <2>1. Len(cache) = 0 /\ ~ Needed /\ CACHE_MAX_SIZE \in Nat
    BY PreloaderAssumption DEF PageInit, Init, Needed, PreloaderAssumption
  <2> QED  BY <2>1 DEF CacheRoom
<1> QED  BY <1>1, <1>2, <1>3, <1>4, <1>5, <1>6 DEF PInv

LEMMA PInvStep == PInv /\ [PageNext]_<<vars, pvars>> => PInv'
<1> SUFFICES ASSUME PInv, [PageNext]_<<vars, pvars>>  PROVE PInv'
  OBVIOUS
<1> USE PreloaderAssumption, PageAssumption
<1>1. CASE PreloaderStep
  BY <1>1, EngineOnly
<1>2. CASE AnswerReady
  BY <1>2, AnswerReadySound
<1>3. CASE UpdateQuality
  BY <1>3, UpdateQualitySound
<1>4. CASE UserStep
  <2>1. ASSUME Paste  PROVE PInv'
    <3>1. file # NoFile /\ NewImage(file.file) /\ tasks' \subseteq tasks
      BY <2>1 DEF Paste
    <3>2. file.file \in Files
      BY <3>1 DEF PInv, PageTypeOK, FileData, NoFile
    <3> QED  BY <3>1, <3>2, NewImageSound
  <2> QED
    BY <1>4, <2>1, ViewSound, GetOriginalSound, CancelCallSound, UndoSoundPage,
       RedoSoundPage, RevertSoundPage DEF UserStep
<1>5. CASE TaskStep
  BY <1>5, TaskStepSound DEF TaskStep
<1>6. CASE UNCHANGED <<vars, pvars>>
  <2>1. UNCHANGED vars /\ UNCHANGED pvars /\ UNCHANGED <<disk, issued, edit>>
    BY <1>6 DEF vars
  <2>2. Base'
    BY <2>1, BaseKept DEF pvars
  <2>3. PageTypeOK' /\ NothingBefore'
    BY <2>1 DEF PInv, PageTypeOK, NothingBefore, pvars
  <2> QED  BY <2>2, <2>3 DEF PInv, Base
<1> QED  BY <1>1, <1>2, <1>3, <1>4, <1>5, <1>6 DEF PageNext

(***************************************************************************)
(* Together with the page the preloader keeps its invariants, and its      *)
(* cache keeps room for the files that may still be decoded before the     *)
(* edited image is evicted.                                                *)
(***************************************************************************)
THEOREM PageInvariant == PageSpec => []PInv
<1> QED  BY PInvInit, PInvStep, PTL DEF PageSpec

\* There is a caller for every request and an image for every edit, whatever the
\* order of the user's steps, the tasks and the preloader's answers.
THEOREM PageTypes == PageSpec => []PageTypeOK
<1>1. PInv => PageTypeOK
  BY DEF PInv
<1> QED  BY <1>1, PageInvariant, PTL

\* gth_image_viewer_page_get_original finds the edited image in the preloader's
\* cache as long as the image is not saved, and a save that waits finds it, too,
\* for every size of the cache that a request's files fit in.
THEOREM UnsavedImageCachedHolds == PageSpec => []UnsavedImageCached
<1>1. ASSUME PInv  PROVE UnsavedImageCached
  <2> SUFFICES ASSUME changed \/ \E r \in {current, last} :
                                    r # NoRequest /\ calls[r.id].kind = "save"
               PROVE  \E i \in DOMAIN cache : /\ cache[i].file = GTH_MODIFIED_IMAGE
                                              /\ cache[i].image = edit
    BY DEF UnsavedImageCached
  <2>1. Requests /\ CacheRoom
    BY <1>1 DEF PInv
  <2>2. Needed
    <3>1. ~ (current # NoRequest /\ calls[current.id].kind = "save")
      BY <2>1 DEF Requests, ReqOK, CurrentReal
    <3> QED  BY <3>1 DEF Needed
  <2>3. PICK k \in DOMAIN cache : cache[k].file = GTH_MODIFIED_IMAGE
    BY <2>1, <2>2 DEF CacheRoom
  <2>4. cache[k].image = edit
    BY <1>1, <2>3 DEF PInv, CInv, CacheOK, EntryOK
  <2> QED  BY <2>3, <2>4
<1> QED  BY <1>1, PageInvariant, PTL

\* What the preloader promises of its engine holds under the page's way of calling
\* it, too: no load of the page is left without an event to wait for, and every
\* reference is counted.
THEOREM PreloaderUnderPage == PageSpec => [](NeverStalled /\ RefsAccounted)
<1>1. PInv => NeverStalled /\ RefsAccounted
  BY DEF PInv, IInv
<1> QED  BY <1>1, PageInvariant, PTL
=============================================================================
