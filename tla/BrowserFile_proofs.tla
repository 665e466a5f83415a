------------------------- MODULE BrowserFile_proofs -------------------------
(***************************************************************************)
(* Theorems about BrowserFile, for any number of files, versions, edits    *)
(* and loads.                                                              *)
(***************************************************************************)
EXTENDS BrowserFile, TLAPS

Queries == [file : Files, mtime : 0..MaxVersion] \union {NoData}

\* The part of the type invariant, and of the agreement of browser and page, that
\* opening a file touches.
OpenOK ==
    /\ page = current
    /\ current \in Data \union {NoData}
    /\ {modified, loading} \subseteq BOOLEAN
    /\ metaTimer \in Files \union {NoFile}
    /\ query \in Queries
    /\ dialogs \subseteq Data
    /\ edit \in 0..MaxEdits
    /\ image \in 0..MaxVersion
    /\ loads \in Nat
    /\ current = NoData => ~ modified /\ ~ loading /\ dialogs = {}

\* Before the first file is opened there is nothing to save or to ask about.
NothingYet == current = NoData => ~ modified /\ ~ loading /\ dialogs = {} /\ saves = {}

\* A step does not undo the first load.
Forward == loads <= loads' /\ (current' = NoData => current = NoData)

\* The inductive invariant.
BInv == BrowserTypeOK /\ PageFollowsBrowser /\ NothingYet

LEMMA OpenOKInBInv == BInv => OpenOK
BY DEF BInv, BrowserTypeOK, PageFollowsBrowser, NothingYet, OpenOK, Queries

LEMMA NoDataFacts == NoData.mtime = 0 /\ NoData.file = NoFile /\ NoData \notin Data
BY BrowserFileAssumption DEF NoData, Data

\* Saves under way were started at an earlier load.
LEMMA SavesGrow ==
    ASSUME BrowserTypeOK, loads' \in Nat, loads <= loads', saves' \subseteq saves
    PROVE  saves' \subseteq [data : Data, load : 0..loads', edit : 0..MaxEdits,
                             next : Data \union {NoData}]
BY DEF BrowserTypeOK

\* What opening a file leaves.  m and q are as in DoLoad.
LEMMA DoLoadFacts ==
    ASSUME OpenOK, NEW d \in Data, NEW m \in Files \union {NoFile}, NEW q \in Queries,
           DoLoad(d, m, q), dialogs' \subseteq Data
    PROVE  OpenOK' /\ Forward
<1>1. current' = d /\ page' = d /\ loads' = loads + 1 /\ d.file \in Files /\ d # NoData
  BY NoDataFacts DEF DoLoad, OpenOK, Data
<1>2. CASE page = d /\ edit = 0
  <2>1. /\ modified' = FALSE /\ metaTimer' = d.file /\ query' = NoData
        /\ UNCHANGED <<edit, loading, image>>
    BY <1>2 DEF DoLoad, FileLoaded
  <2>2. {modified', loading'} \subseteq BOOLEAN /\ query' \in Queries
    BY <2>1 DEF OpenOK, Queries
  <2>3. loads' \in Nat /\ Forward
    BY <1>1 DEF OpenOK, Forward
  <2>4. QED
    BY <1>1, <2>1, <2>2, <2>3 DEF OpenOK
<1>3. CASE ~ (page = d /\ edit = 0)
  <2>1. /\ modified' = FALSE /\ metaTimer' = m /\ query' = q
        /\ edit' = 0 /\ loading' = TRUE /\ image' = 0
    BY <1>3 DEF DoLoad
  <2>2. 0 \in 0..MaxEdits /\ 0 \in 0..MaxVersion
    BY BrowserFileAssumption
  <2>3. {modified', loading'} \subseteq BOOLEAN
    BY <2>1
  <2>4. loads' \in Nat /\ Forward
    BY <1>1 DEF OpenOK, Forward
  <2>5. QED
    BY <1>1, <2>1, <2>2, <2>3, <2>4 DEF OpenOK
<1>4. QED
  BY <1>2, <1>3

LEMMA OpenOrAskFacts ==
    ASSUME OpenOK, NEW d \in Data, NEW m \in Files \union {NoFile}, NEW q \in Queries,
           OpenOrAsk(d, m, q)
    PROVE  OpenOK' /\ Forward
<1>1. CASE modified
  BY <1>1 DEF OpenOrAsk, OpenOK, Forward, pageVars
<1>2. CASE ~ modified
  <2>1. DoLoad(d, m, q) /\ dialogs' = dialogs
    BY <1>2 DEF OpenOrAsk
  <2>2. dialogs' \subseteq Data
    BY <2>1 DEF OpenOK
  <2>3. QED
    BY <2>1, <2>2, DoLoadFacts
<1>3. QED
  BY <1>1, <1>2

LEMMA LoadFileFacts ==
    ASSUME OpenOK, NEW d \in Data, NEW view, LoadFile(d, view)
    PROVE  OpenOK' /\ Forward /\ loadTimer' \in Data \union {NoData}
<1>1. CASE view
  <2>1. OpenOrAsk(d, NoFile, NoData) /\ loadTimer' = NoData
    BY <1>1 DEF LoadFile
  <2>2. QED
    BY <2>1, OpenOrAskFacts DEF Queries
<1>2. CASE ~ view
  BY <1>2 DEF LoadFile, OpenOK, Forward, pageVars, Queries
<1>3. QED
  BY <1>1, <1>2

\* A step that leaves the rest of the types alone.
LEMMA RestFacts ==
    ASSUME BInv, OpenOK', Forward, loadTimer' \in Data \union {NoData},
           attributes' \subseteq Data, saves' \subseteq saves, edits' = edits,
           written' \subseteq 0..MaxEdits, disk' \in [Files -> 1..MaxVersion], unnoticed' \subseteq Files
    PROVE  BInv'
<1>1. saves' \subseteq [data : Data, load : 0..loads', edit : 0..MaxEdits,
                        next : Data \union {NoData}]
  BY SavesGrow DEF BInv, OpenOK, Forward
<1>2. BrowserTypeOK'
  BY <1>1 DEF BInv, BrowserTypeOK, OpenOK, Queries
<1>3. PageFollowsBrowser' /\ NothingYet'
  BY DEF BInv, PageFollowsBrowser, NothingYet, OpenOK, Forward
<1>4. QED
  BY <1>2, <1>3 DEF BInv

\* Starting a save, of a file that there is.
LEMMA StartSaveFacts ==
    ASSUME BInv, modified \/ current # NoData, NEW d \in Data \union {NoData}, StartSave(d),
           dialogs' \subseteq dialogs,
           UNCHANGED <<current, loadTimer, metaTimer, query, attributes, page, edit, loading,
                       image, loads, edits, written, disk, unnoticed>>
    PROVE  BInv'
<1>1. current \in Data
  BY DEF BInv, NothingYet, BrowserTypeOK
<1>2. [data |-> current, load |-> loads, edit |-> edit, next |-> d]
        \in [data : Data, load : 0..loads, edit : 0..MaxEdits, next : Data \union {NoData}]
  BY <1>1 DEF BInv, BrowserTypeOK
<1>3. BrowserTypeOK'
  BY <1>2 DEF StartSave, BInv, BrowserTypeOK
<1>4. QED
  BY <1>1, <1>3, NoDataFacts DEF BInv, PageFollowsBrowser, NothingYet

LEMMA BInvInit == BInit => BInv
<1> SUFFICES ASSUME BInit PROVE BInv
  OBVIOUS
<1>1. disk \in [Files -> 1..MaxVersion]
  BY BrowserFileAssumption DEF BInit
<1>2. 0 \in 0..MaxEdits /\ 0 \in 0..MaxVersion
  BY BrowserFileAssumption
<1>3. BrowserTypeOK
  BY <1>1, <1>2 DEF BInit, BrowserTypeOK
<1>4. QED
  BY <1>3 DEF BInit, BInv, PageFollowsBrowser, NothingYet

\* Every step preserves the invariant: one step for each action.
LEMMA BInvStep == BInv /\ [BNext]_bvars => BInv'
<1> SUFFICES ASSUME BInv, [BNext]_bvars PROVE BInv'
  OBVIOUS
<1> USE BrowserFileAssumption
<1>a. BrowserTypeOK /\ OpenOK
  BY OpenOKInBInv DEF BInv
<1>1. CASE \E f \in Files, t \in 1..MaxVersion, view \in BOOLEAN : Open(f, t, view)
  <2>1. PICK f \in Files, t \in 1..MaxVersion, view \in BOOLEAN : Open(f, t, view)
    BY <1>1
  <2>2. [file |-> f, mtime |-> t] \in Data
    BY DEF Data
  <2>3. OpenOK' /\ Forward /\ loadTimer' \in Data \union {NoData}
    BY <1>a, <2>1, <2>2, LoadFileFacts DEF Open
  <2>4. UNCHANGED <<attributes, saves, edits, written, disk, unnoticed>>
    BY <2>1 DEF Open
  <2>5. QED
    BY <1>a, <2>3, <2>4, RestFacts DEF BrowserTypeOK
<1>2. CASE Edit
  BY <1>a, <1>2 DEF Edit, BInv, BrowserTypeOK, PageFollowsBrowser, NothingYet
<1>3. CASE UndoAll
  <2>1. 0 \in 0..MaxEdits
    OBVIOUS
  <2>2. BrowserTypeOK'
    BY <1>a, <1>3, <2>1 DEF UndoAll, BrowserTypeOK
  <2>3. QED
    BY <1>3, <2>2 DEF UndoAll, BInv, PageFollowsBrowser, NothingYet
<1>4. CASE Save
  BY <1>4, StartSaveFacts DEF Save, pageVars
<1>5. ASSUME NEW d \in dialogs, AnswerSave(d) PROVE BInv'
  <2>1. d \in Data /\ current # NoData /\ dialogs' \subseteq dialogs
    BY <1>a, <1>5 DEF AnswerSave, BrowserTypeOK, BInv, NothingYet
  <2>2. QED
    BY <1>5, <2>1, StartSaveFacts DEF AnswerSave, pageVars
<1>6. ASSUME NEW d \in dialogs, AnswerDiscard(d) PROVE BInv'
  <2>1. d \in Data /\ DoLoad(d, metaTimer, query) /\ dialogs' \subseteq Data
    BY <1>a, <1>6 DEF AnswerDiscard, OpenOK
  <2>2. OpenOK' /\ Forward
    BY <1>a, <2>1, DoLoadFacts DEF OpenOK
  <2>3. UNCHANGED <<loadTimer, attributes, saves, edits, written, disk, unnoticed>>
    BY <1>6 DEF AnswerDiscard
  <2>4. QED
    BY <1>a, <2>2, <2>3, RestFacts DEF BrowserTypeOK
<1>7. ASSUME NEW d \in dialogs, AnswerCancel(d) PROVE BInv'
  BY <1>a, <1>7 DEF AnswerCancel, BInv, BrowserTypeOK, PageFollowsBrowser, NothingYet, pageVars
<1>8. CASE LoadDelayed
  <2>1. loadTimer \in Data /\ OpenOrAsk(loadTimer, metaTimer, query) /\ loadTimer' = NoData
    BY <1>a, <1>8 DEF LoadDelayed, BrowserTypeOK
  <2>2. OpenOK' /\ Forward
    BY <1>a, <2>1, OpenOrAskFacts DEF OpenOK
  <2>3. UNCHANGED <<attributes, saves, edits, written, disk, unnoticed>>
    BY <1>8 DEF LoadDelayed
  <2>4. QED
    BY <1>a, <2>1, <2>2, <2>3, RestFacts DEF BrowserTypeOK
<1>9. CASE ImageLoaded
  <2>1. page \in Data /\ current # NoData
    BY <1>a, <1>9 DEF ImageLoaded, BInv, NothingYet, OpenOK
  <2>2. page.file \in Files /\ page.mtime \in 1..MaxVersion /\ disk[page.file] \in 1..MaxVersion
    BY <1>a, <2>1 DEF Data, BrowserTypeOK
  <2>3. image' \in 0..MaxVersion
    BY <1>9, <2>2 DEF ImageLoaded
  <2>4. BrowserTypeOK'
    BY <1>a, <1>9, <2>2, <2>3 DEF ImageLoaded, FileLoaded, BrowserTypeOK
  <2>5. QED
    BY <1>9, <2>1, <2>4 DEF ImageLoaded, BInv, PageFollowsBrowser, NothingYet
<1>10. CASE ReadMetadata
  BY <1>a, <1>10 DEF ReadMetadata, BInv, BrowserTypeOK, PageFollowsBrowser, NothingYet, pageVars
<1>11. CASE QueryTime
  BY <1>a, <1>11 DEF QueryTime, BInv, BrowserTypeOK, PageFollowsBrowser, NothingYet, pageVars
<1>12. CASE MetadataReady
  <2>1. query \in Data
    BY <1>a, <1>12, NoDataFacts DEF MetadataReady, BrowserTypeOK, Data
  <2>2. CASE query.file = current.file
    <3>1. current' = query /\ page' = query /\ modified' = FALSE /\ query' = NoData
      BY <1>12, <2>2 DEF MetadataReady, BInv, PageFollowsBrowser
    <3>2. BrowserTypeOK'
      BY <1>a, <1>12, <2>1, <3>1 DEF MetadataReady, BrowserTypeOK
    <3>3. QED
      BY <2>1, <3>1, <3>2, NoDataFacts DEF BInv, PageFollowsBrowser, NothingYet
  <2>3. CASE query.file # current.file
    BY <1>a, <1>12, <2>3 DEF MetadataReady, BInv, BrowserTypeOK, PageFollowsBrowser, NothingYet
  <2>4. QED
    BY <2>2, <2>3
<1>13. ASSUME NEW s \in saves, SaveSucceeds(s) PROVE BInv'
  <2>1. saves' \subseteq saves /\ loadTimer' = loadTimer /\ attributes' = attributes
        /\ edits' = edits
    BY <1>13 DEF SaveSucceeds
  <2>2. /\ written' \subseteq 0..MaxEdits
        /\ disk' \in [Files -> 1..MaxVersion]
        /\ unnoticed' \subseteq Files
    BY <1>a, <1>13 DEF SaveSucceeds, BrowserTypeOK, Data
  <2>3. OpenOK' /\ Forward
    <3>1. CASE s.next = NoData
      BY <1>a, <1>13, <3>1 DEF SaveSucceeds, OpenOK, Forward, pageVars
    <3>2. CASE s.next # NoData
      <4>1. s.next \in Data /\ DoLoad(s.next, metaTimer, query) /\ dialogs' \subseteq Data
        BY <1>a, <1>13, <3>2 DEF SaveSucceeds, BrowserTypeOK
      <4>2. QED
        BY <1>a, <4>1, DoLoadFacts DEF OpenOK
    <3>3. QED
      BY <3>1, <3>2
  <2>4. QED
    BY <1>a, <2>1, <2>2, <2>3, RestFacts DEF BrowserTypeOK
<1>14. ASSUME NEW s \in saves, SaveFails(s) PROVE BInv'
  BY <1>a, <1>14 DEF SaveFails, BInv, BrowserTypeOK, PageFollowsBrowser, NothingYet, pageVars
<1>15. ASSUME NEW f \in unnoticed, FolderChanged(f) PROVE BInv'
  BY <1>a, <1>15 DEF FolderChanged, BInv, BrowserTypeOK, PageFollowsBrowser, NothingYet, pageVars, Data
<1>16. ASSUME NEW d \in attributes, AttributesReady(d) PROVE BInv'
  <2>1. d \in Data /\ attributes' \subseteq Data
    BY <1>a, <1>16 DEF AttributesReady, BrowserTypeOK
  <2>2. OpenOK' /\ Forward /\ loadTimer' \in Data \union {NoData}
    <3>1. CASE d.file = current.file
      <4>1. PICK t \in d.mtime .. disk[d.file] : LoadFile([d EXCEPT !.mtime = t], FALSE)
        BY <1>16, <3>1 DEF AttributesReady
      <4>2. disk[d.file] \in 1..MaxVersion /\ d.mtime \in 1..MaxVersion
        BY <1>a, <2>1 DEF BrowserTypeOK, Data
      <4>3. t \in 1..MaxVersion
        BY <4>2
      <4>4. [d EXCEPT !.mtime = t] \in Data
        BY <2>1, <4>3 DEF Data
      <4>5. QED
        BY <1>a, <4>1, <4>4, LoadFileFacts
    <3>2. CASE d.file # current.file
      BY <1>a, <1>16, <3>2 DEF AttributesReady, OpenOK, Forward, BrowserTypeOK, pageVars
    <3>3. QED
      BY <3>1, <3>2
  <2>3. UNCHANGED <<saves, edits, written, disk, unnoticed>>
    BY <1>16 DEF AttributesReady
  <2>4. QED
    BY <1>a, <2>1, <2>2, <2>3, RestFacts DEF BrowserTypeOK
<1>17. ASSUME NEW f \in Files, FileChanges(f) PROVE BInv'
  BY <1>a, <1>17 DEF FileChanges, BInv, BrowserTypeOK, PageFollowsBrowser, NothingYet, browserVars, pageVars
<1>18. CASE UNCHANGED bvars
  BY <1>a, <1>18 DEF bvars, browserVars, pageVars, BInv, BrowserTypeOK, PageFollowsBrowser, NothingYet
<1>19. QED
  BY <1>1, <1>2, <1>3, <1>4, <1>5, <1>6, <1>7, <1>8, <1>9, <1>10, <1>11, <1>12, <1>13, <1>14,
     <1>15, <1>16, <1>17, <1>18 DEF BNext, User, Callbacks

\* The type invariant and the agreement of the browser with the page, together: the
\* page gets the file that the metadata were read of only because it has the same
\* file as the browser (file_metadata_ready_cb, update_info).
THEOREM BrowserInvariant == BSpec => []BInv
<1>1. BInit => BInv
  BY BInvInit
<1>2. BInv /\ [BNext]_bvars => BInv'
  BY BInvStep
<1>3. QED
  BY <1>1, <1>2, PTL DEF BSpec

\* What the page shows is saved in the file that the browser names.
THEOREM PageFollowsBrowserHolds == BSpec => []PageFollowsBrowser
<1>1. BInv => PageFollowsBrowser
  BY DEF BInv
<1>2. QED
  BY <1>1, BrowserInvariant, PTL

\* No file is opened over changes that the browser knows of, but by the user's answer
\* and by the end of a save (load_file_delayed_cb, ask_whether_to_save).
THEOREM AsksWhenModifiedHolds == BSpec => AsksWhenModified
<1> DEFINE Asks == loads' # loads /\ modified => dialogs' # dialogs \/ saves' # saves
<1>1. [BNext]_bvars => [Asks]_bvars
  <2> SUFFICES ASSUME BNext, loads' # loads, modified
               PROVE  dialogs' # dialogs \/ saves' # saves
    OBVIOUS
  <2>1. ASSUME NEW d, NEW m, NEW q, OpenOrAsk(d, m, q) PROVE FALSE
    BY <2>1 DEF OpenOrAsk, pageVars
  <2>2. ASSUME NEW d, NEW view, LoadFile(d, view) PROVE FALSE
    BY <2>1, <2>2 DEF LoadFile, pageVars
  <2>3. ~ LoadDelayed
    BY <2>1 DEF LoadDelayed
  <2>4. ASSUME NEW f, NEW t, NEW view, Open(f, t, view) PROVE FALSE
    BY <2>2, <2>4 DEF Open
  <2>5. ASSUME NEW d, AttributesReady(d) PROVE FALSE
    BY <2>2, <2>5 DEF AttributesReady, pageVars
  <2>6. ASSUME NEW d \in dialogs, AnswerDiscard(d) PROVE dialogs' # dialogs
    BY <2>6 DEF AnswerDiscard
  <2>7. ASSUME NEW s \in saves, SaveSucceeds(s) PROVE saves' # saves
    BY <2>7 DEF SaveSucceeds
  <2>8. ~ Edit /\ ~ UndoAll /\ ~ Save /\ ~ ImageLoaded /\ ~ ReadMetadata /\ ~ QueryTime
        /\ ~ MetadataReady
    BY DEF Edit, UndoAll, Save, ImageLoaded, ReadMetadata, QueryTime, MetadataReady, pageVars
  <2>9. ASSUME NEW x, AnswerSave(x) \/ AnswerCancel(x) \/ SaveFails(x) \/ FolderChanged(x)
                      \/ FileChanges(x)
        PROVE  FALSE
    BY <2>9 DEF AnswerSave, AnswerCancel, SaveFails, FolderChanged, FileChanges, pageVars
  <2>10. QED
    BY <2>3, <2>4, <2>5, <2>6, <2>7, <2>8, <2>9 DEF BNext, User, Callbacks
<1>2. QED
  BY <1>1, PTL DEF BSpec, AsksWhenModified

\* The types of the browser's and of the page's state, through every order of loads,
\* dialogs, saves, notifications and late answers of gth-browser.c.
THEOREM BrowserTypes == BSpec => []BrowserTypeOK
<1>1. BInv => BrowserTypeOK
  BY DEF BInv
<1>2. QED
  BY <1>1, BrowserInvariant, PTL
=============================================================================
