------------------------- MODULE BrowserLoad_proofs -------------------------
(***************************************************************************)
(* The inductive invariant of BrowserLoad and what follows from it: the     *)
(* types of the window's state, the path that its history is, and that its  *)
(* list follows the disk, for every tree of folders, every set of volumes   *)
(* and any number of requests and changes.                                  *)
(***************************************************************************)
EXTENDS BrowserLoad, SequenceLemmas

-----------------------------------------------------------------------------
(* Types *)

Actions == {"go", "travel", "list"}

Window ==
    [location : Places, history : Seq(Folders), pos : Nat, monitor : Places,
     rows : SUBSET Files, shown : SUBSET Folders, listed : SUBSET Folders,
     activity : Int, loads : [Slots -> Load], crashed : BOOLEAN, doubt : SUBSET Items,
     astray : Places]

\* what the monitor tells about: no entry point is created or deleted
Reportable == Items \ EntryPoints
MonitorQueue == [created : Seq(Reportable), deleted : Seq(Reportable), changed : Seq(Reportable)]
MonitorEvent == [kind : {"created", "deleted", "changed"}, item : Reportable]
Read == [item : Items, kind : {"created", "changed"}, list : BOOLEAN, tree : BOOLEAN,
         found : BOOLEAN]

-----------------------------------------------------------------------------
(***************************************************************************)
(* The inductive invariant, of the window b when the volumes in M are       *)
(* mounted.  What the window shows can be reached: its location and the     *)
(* folders that it loads to show them, though not those of its history.  A  *)
(* load that the browser started itself is an ordinary one, which enters    *)
(* the history.                                                             *)
(***************************************************************************)
Reach(f, M) == Path[f][1] \in Volumes => Path[f][1] \in M

LoadOK(l, M) ==
    l.at # "free" =>
        /\ l.folder \in Folders /\ (l.action # "list" => Reach(l.folder, M))
        /\ l.current \in DOMAIN Path[l.folder]
        /\ l.automatic => l.action = "go"
        /\ l.at # "listing" => l.action # "list" /\ Current(l) = l.folder

\* what holds of a window while its location is not yet, or no more, in its history
Sound(b, M) ==
    /\ b \in Window
    /\ b.monitor \in {NoFolder, b.location}
    /\ b.listed \subseteq b.shown
    /\ b.activity = Cardinality(Queued(b))
    /\ \A i \in Slots : LoadOK(b.loads[i], M)
    /\ b.location # NoFolder => Reach(b.location, M)
    /\ IsInjective(b.history)
    /\ b.pos \in 0..Len(b.history) /\ (b.pos = 0 => b.history = <<>>)

\* f is the folder of the current place of the history
AtPlace(b, f) == b.pos \in DOMAIN b.history /\ b.history[b.pos] = f

\* The window is where its history says, or a move to a volume f parted the two.
OnVolume(f) == f \in Folders /\ Path[f][1] \in Volumes

InPlace(b) ==
    IF b.astray = NoFolder
    THEN b.location # NoFolder => AtPlace(b, b.location)
    ELSE OnVolume(b.astray) /\ (b.astray = b.location \/ AtPlace(b, b.astray))

\* Each load, and each event that can start one, is due to another input: there is a
\* slot for every load.
Reports(q) == Len(q.created) + Len(q.deleted) + Len(q.changed)
Pending == Cardinality(mounts) + Reports(queue) + Len(flushing)

BInv ==
    /\ Sound(browser, mounted) /\ InPlace(browser)
    /\ disk \subseteq Items /\ mounted \subseteq Volumes
    /\ IsFiniteSet(mounts)
    /\ \A m \in mounts : /\ m \in [folder : Folders, action : {"go", "travel"}]
                         /\ Path[m.folder][1] \in Volumes
    /\ queue \in MonitorQueue /\ flushing \in Seq(MonitorEvent) /\ reads \subseteq Read
    /\ inputs \in 0..MaxInputs
    /\ Cardinality(Queued(browser)) + Pending <= inputs

-----------------------------------------------------------------------------
(* Paths *)

LEMMA PathFacts ==
    ASSUME NEW f \in Folders
    PROVE  /\ Path[f] \in Seq(Folders) /\ Len(Path[f]) \in Nat \ {0}
           /\ DOMAIN Path[f] = 1..Len(Path[f]) /\ Path[f][Len(Path[f])] = f
           /\ Path[f][1] \in Folders
           /\ \A k \in 1..Len(Path[f]) : /\ Path[f][k] \in Folders
                                         /\ Len(Path[Path[f][k]]) = k
                                         /\ Path[Path[f][k]][1] = Path[f][1]
                                         /\ k > 1 => Path[Path[f][k]][k - 1] = Path[f][k - 1]
<1>1. /\ Path[f] \in Seq(Folders) /\ Len(Path[f]) \in Nat \ {0}
      /\ Path[f][Len(Path[f])] = f
      /\ \A k \in DOMAIN Path[f] : Path[Path[f][k]] = SubSeq(Path[f], 1, k)
  BY LoadAssumption DEF LoadAssumption
<1> DEFINE p == Path[f]
<1>2. DOMAIN p = 1..Len(p) /\ \A k \in 1..Len(p) : p[k] \in Folders
  BY <1>1
<1>3. ASSUME NEW k \in 1..Len(p)
      PROVE  /\ Len(Path[p[k]]) = k /\ Path[p[k]][1] = p[1]
             /\ k > 1 => Path[p[k]][k - 1] = p[k - 1]
  <2>1. Path[p[k]] = SubSeq(p, 1, k)
    BY <1>1, <1>2
  <2>2. Len(SubSeq(p, 1, k)) = k /\ \A j \in 1..k : SubSeq(p, 1, k)[j] = p[j]
    BY <1>1
  <2> QED  BY <2>1, <2>2
<1> QED  BY <1>1, <1>2, <1>3

LEMMA ParentFacts ==
    ASSUME NEW f \in Folders
    PROVE  /\ f \in EntryPoints => Parent(f) = NoFolder
           /\ f \notin EntryPoints =>
                /\ Parent(f) \in Folders /\ Parent(f) # NoFolder
                /\ Path[Parent(f)][1] = Path[f][1]
                /\ Len(Path[Parent(f)]) = Len(Path[f]) - 1
<1>1. f \notin Files /\ NoFolder \notin Folders
  BY LoadAssumption DEF LoadAssumption, Items
<1>2. ASSUME f \notin EntryPoints
      PROVE  /\ Parent(f) = Path[f][Len(Path[f]) - 1]
             /\ Len(Path[f]) - 1 \in 1..Len(Path[f])
  <2>1. Len(Path[f]) # 1 /\ Len(Path[f]) \in Nat \ {0}
    BY <1>2, PathFacts DEF EntryPoints
  <2>2. Len(Path[f]) - 1 \in 1..Len(Path[f])
    <3>1. \A n \in Nat \ {0} : n # 1 => n - 1 \in 1..n
      OBVIOUS
    <3> QED  BY <2>1, <3>1
  <2>3. Parent(f) = Path[f][Len(Path[f]) - 1]
    BY <1>1, <1>2 DEF Parent
  <2> QED  BY <2>2, <2>3
<1> QED  BY <1>1, <1>2, PathFacts DEF Parent

LEMMA AboveFacts ==
    ASSUME NEW f \in Folders, NEW g \in Above(f)
    PROVE  g \in Folders /\ Path[g][1] = Path[f][1] /\ Len(Path[g]) <= Len(Path[f])
BY PathFacts DEF Above

\* a folder is not below what it contains
LEMMA NotBelowChild ==
    ASSUME NEW f \in Folders, NEW h \in Folders, Parent(h) = f
    PROVE  f \notin Below(h)
<1> SUFFICES ASSUME f \in Below(h)  PROVE FALSE
  OBVIOUS
<1>1. h \in Above(f)
  BY DEF Below
<1>2. Len(Path[h]) <= Len(Path[f]) /\ Len(Path[h]) \in Nat /\ Len(Path[f]) \in Nat
  BY <1>1, AboveFacts, PathFacts
<1>3. NoFolder \notin Folders
  BY LoadAssumption DEF LoadAssumption, Items
<1>4. Len(Path[f]) = Len(Path[h]) - 1
  BY <1>3, ParentFacts
<1> QED  BY <1>2, <1>4

-----------------------------------------------------------------------------
(* The window *)

LEMMA WindowFields ==
    ASSUME NEW b \in Window
    PROVE  /\ b.location \in Places /\ b.history \in Seq(Folders) /\ b.pos \in Nat
           /\ b.monitor \in Places /\ b.rows \in SUBSET Files /\ b.shown \in SUBSET Folders
           /\ b.listed \in SUBSET Folders /\ b.activity \in Int /\ b.loads \in [Slots -> Load]
           /\ b.crashed \in BOOLEAN /\ b.doubt \in SUBSET Items /\ b.astray \in Places
BY DEF Window

\* the number of loads
Busy(b) == Cardinality(Queued(b))

LEMMA BusyFacts ==
    ASSUME NEW b
    PROVE  /\ Queued(b) \subseteq Slots /\ IsFiniteSet(Queued(b)) /\ Busy(b) \in Nat
           /\ Busy(b) <= MaxInputs
<1>1. MaxInputs \in Nat
  BY LoadAssumption DEF LoadAssumption
<1>2. Queued(b) \subseteq Slots
  BY DEF Queued
<1>3. IsFiniteSet(Slots) /\ Cardinality(Slots) = MaxInputs
  BY <1>1, FS_Interval DEF Slots
<1> QED  BY <1>2, <1>3, FS_Subset, FS_CardinalityType DEF Busy

\* Only what the window shows changes, not where it is nor what it loads.
Redrawn(b, c) ==
    /\ c \in Window /\ c.listed \subseteq c.shown
    /\ c.location = b.location /\ c.history = b.history /\ c.pos = b.pos
    /\ c.monitor = b.monitor /\ c.activity = b.activity /\ c.loads = b.loads
    /\ c.astray = b.astray

\* Where the window is does not change.
SamePlace(b, c) ==
    /\ c.location = b.location /\ c.history = b.history /\ c.pos = b.pos
    /\ c.astray = b.astray

LEMMA SamePlaceKeeps ==
    ASSUME NEW b, NEW c, SamePlace(b, c), InPlace(b)
    PROVE  InPlace(c)
BY DEF SamePlace, InPlace, AtPlace

LEMMA RedrawnKeeps ==
    ASSUME NEW M, NEW b, Sound(b, M), NEW c, Redrawn(b, c)
    PROVE  Sound(c, M) /\ Queued(c) = Queued(b) /\ Busy(c) = Busy(b) /\ (InPlace(b) => InPlace(c))
<1>1. Queued(c) = Queued(b)
  BY DEF Redrawn, Queued
<1>2. InPlace(b) => InPlace(c)
  BY SamePlaceKeeps DEF Redrawn, SamePlace
<1> QED  BY <1>1, <1>2 DEF Sound, Redrawn, Busy

LEMMA SetChildrenFacts ==
    ASSUME NEW M, NEW b, Sound(b, M), NEW f \in Folders, NEW children
    PROVE  Redrawn(b, SetChildren(b, f, children))
<1>1. b \in Window /\ b.listed \subseteq b.shown
  BY DEF Sound
<1>2. CASE f \notin b.shown
  BY <1>1, <1>2 DEF SetChildren, Redrawn
<1>3. CASE f \in b.shown
  <2> DEFINE gone == UNION {Below(g) : g \in {h \in Folders : Parent(h) = f} \ children}
             S == (b.shown \ gone) \union (children \intersect Folders)
             L == (b.listed \ gone) \union {f}
  <2>1. f \notin gone
    BY NotBelowChild
  <2> HIDE DEF gone
  <2>2. S \in SUBSET Folders /\ L \in SUBSET Folders /\ L \subseteq S
    BY <1>1, <1>3, <2>1, WindowFields
  <2>3. SetChildren(b, f, children) = [b EXCEPT !.shown = S, !.listed = L]
    BY <1>3 DEF SetChildren, gone
  <2> HIDE DEF S, L
  <2> QED  BY <1>1, <2>2, <2>3 DEF Redrawn, Window
<1> QED  BY <1>2, <1>3

LEMMA RemoveRowsFacts ==
    ASSUME NEW M, NEW b, Sound(b, M), NEW rows
    PROVE  Redrawn(b, RemoveRows(b, rows))
<1>1. b \in Window /\ b.listed \subseteq b.shown
  BY DEF Sound
<1> QED  BY <1>1 DEF RemoveRows, Redrawn, Window

LEMMA DoneFacts ==
    ASSUME NEW M, NEW b, Sound(b, M), NEW i \in Queued(b)
    PROVE  LET c == Done(b, i)
           IN  /\ Sound(c, M) /\ (InPlace(b) => InPlace(c)) /\ Busy(c) = Busy(b) - 1
               /\ c.rows = b.rows /\ c.shown = b.shown /\ c.listed = b.listed
               /\ c.location = b.location /\ c.doubt = b.doubt
<1> DEFINE c == Done(b, i)
<1>1. /\ b \in Window /\ b.activity \in Int /\ b.loads \in [Slots -> Load]
      /\ i \in Slots /\ b.activity = Busy(b)
  BY WindowFields DEF Sound, Queued, Busy
<1>2. FreeLoad \in Load
  BY DEF FreeLoad, Load, Places
<1> DEFINE n == b.activity - 1
           L == [b.loads EXCEPT ![i] = FreeLoad]
<1>8. n \in Int /\ L \in [Slots -> Load] /\ c = [b EXCEPT !.activity = n, !.loads = L]
  BY <1>1, <1>2 DEF Done
<1> HIDE DEF n, L, c
<1>9. /\ c \in Window /\ c.loads = L
      /\ c.activity = n /\ c.location = b.location /\ c.history = b.history
      /\ c.pos = b.pos /\ c.monitor = b.monitor /\ c.listed = b.listed /\ c.shown = b.shown
      /\ c.rows = b.rows /\ c.doubt = b.doubt /\ c.astray = b.astray
  BY <1>1, <1>8 DEF Window
<1>3. /\ c \in Window /\ c.loads = [b.loads EXCEPT ![i] = FreeLoad]
      /\ c.activity = b.activity - 1 /\ c.location = b.location /\ c.history = b.history
      /\ c.pos = b.pos /\ c.monitor = b.monitor /\ c.listed = b.listed /\ c.shown = b.shown
      /\ c.rows = b.rows /\ c.doubt = b.doubt /\ c.astray = b.astray
  BY <1>9 DEF n, L
<1>4. Queued(c) = Queued(b) \ {i}
  BY <1>1, <1>3 DEF Queued, FreeLoad
<1>5. Busy(c) = Busy(b) - 1
  BY <1>4, BusyFacts, FS_RemoveElement DEF Busy
<1>6. \A j \in Slots : LoadOK(c.loads[j], M)
  BY <1>1, <1>3 DEF Sound, LoadOK, FreeLoad
<1>7. Sound(c, M)
  BY <1>1, <1>3, <1>5, <1>6 DEF Sound, Busy
<1>10. InPlace(b) => InPlace(c)
  BY <1>3, SamePlaceKeeps DEF SamePlace
<1> QED  BY <1>3, <1>5, <1>7, <1>10 DEF c


-----------------------------------------------------------------------------
(* Loads *)

LEMMA LoadFields ==
    ASSUME NEW l \in Load
    PROVE  /\ l.at \in {"free", "attributes", "listing", "query"} /\ l.folder \in Places
           /\ l.action \in Actions /\ l.automatic \in BOOLEAN /\ l.current \in Nat
           /\ l.op \in BOOLEAN /\ l.stopped \in {"no", "early", "late"}
           /\ l.found \in SUBSET Items /\ l.missed \in SUBSET Items
BY DEF Load, Actions

LEMMA BelowInRange ==
    ASSUME NEW a \in Nat, NEW N \in Nat, NEW n \in a + 1..N, NEW m \in a + 1..n - 1
    PROVE  m \in a + 1..N /\ ~ (n <= m)
OBVIOUS

\* A load that is not at the end of its path goes on to a folder of it.
LEMMA NextFolderFacts ==
    ASSUME NEW M, NEW b, NEW l \in Load, l.folder \in Folders,
           l.action # "list" => Reach(l.folder, M),
           l.current \in 0..Len(Path[l.folder]) - 1, l.automatic => l.action = "go"
    PROVE  LET n == NextFolder(b, l) IN n \in Load /\ n.at # "free" /\ LoadOK(n, M)
<1> DEFINE path == Path[l.folder]
           T == {n \in l.current + 1..Len(path) : n = Len(path) \/ path[n] \notin b.listed}
           P(n) == /\ n = Len(path) \/ path[n] \notin b.listed
                   /\ \A m \in l.current + 1..n - 1 : path[m] \in b.listed
           k == CHOOSE n \in l.current + 1..Len(path) : P(n)
           at == IF l.action # "list" /\ k = Len(path) THEN "attributes" ELSE "listing"
           next == [l EXCEPT !.current = k, !.op = FALSE, !.at = at]
<1>1. /\ Len(path) \in Nat \ {0} /\ l.current \in Nat /\ DOMAIN path = 1..Len(path)
      /\ path[Len(path)] = l.folder
  BY PathFacts, LoadFields
<1> HIDE DEF path
<1>2. \E n \in l.current + 1..Len(path) : P(n)
  <2>1. Len(path) \in T /\ T \subseteq Nat
    BY <1>1 DEF path
  <2>2. PICK n \in T : \A m \in T : n <= m
    <3> HIDE DEF T
    <3> QED  BY <2>1, LeastNatural
  <2>3. \A m \in l.current + 1..n - 1 : path[m] \in b.listed
    <3> TAKE m \in l.current + 1..n - 1
    <3>2. n \in l.current + 1..Len(path)
      OBVIOUS
    <3>1. m \in l.current + 1..Len(path) /\ ~ (n <= m)
      BY <1>1, <3>2, BelowInRange
    <3> QED  BY <2>2, <3>1
  <2> QED  BY <2>2, <2>3
<1>3. k \in l.current + 1..Len(path)
  <2> HIDE DEF P
  <2> QED  BY <1>2
<1> HIDE DEF k
<1>4. k \in Nat /\ k \in DOMAIN path
  BY <1>1, <1>3
<1>5. /\ next \in Load /\ next.at = at /\ next.current = k /\ next.folder = l.folder
      /\ next.action = l.action /\ next.automatic = l.automatic
  BY <1>4 DEF Load
<1>6. next = NextFolder(b, l)
  BY DEF NextFolder, k, path
<1> HIDE DEF next
<1>7. at # "listing" => l.action # "list" /\ k = Len(path)
  OBVIOUS
<1>8. at # "free"
  OBVIOUS
<1> HIDE DEF at
<1>9. LoadOK(next, M)
  BY <1>1, <1>4, <1>5, <1>7 DEF LoadOK, Current, path
<1> QED  BY <1>5, <1>6, <1>8, <1>9

LEMMA FreeSlotFacts ==
    ASSUME NEW b, Busy(b) < MaxInputs
    PROVE  FreeSlot(b) \in Slots \ Queued(b)
<1> DEFINE T == Slots \ Queued(b)
<1>1. MaxInputs \in Nat
  BY LoadAssumption DEF LoadAssumption
<1>2. T # {}
  <2> SUFFICES ASSUME T = {}  PROVE FALSE
    OBVIOUS
  <2>1. Queued(b) = Slots
    BY BusyFacts
  <2>2. Cardinality(Slots) = MaxInputs
    BY <1>1, FS_Interval DEF Slots
  <2> QED  BY <1>1, <2>1, <2>2 DEF Busy
<1>3. \E i \in T : \A j \in T : i <= j
  <2>1. T \subseteq Nat
    BY DEF Slots
  <2> HIDE DEF T
  <2> QED  BY <1>2, <2>1, LeastNatural
<1> QED  BY <1>3 DEF FreeSlot

\* the loads of a window, and their number, set
WithLoads(b, n, L) == [b EXCEPT !.activity = n, !.loads = L]

LEMMA WithLoadsFacts ==
    ASSUME NEW b \in Window, NEW n \in Int, NEW L \in [Slots -> Load]
    PROVE  LET c == WithLoads(b, n, L)
           IN  /\ c \in Window /\ c.activity = n /\ c.loads = L
               /\ c.location = b.location /\ c.history = b.history /\ c.pos = b.pos
               /\ c.monitor = b.monitor /\ c.listed = b.listed /\ c.shown = b.shown
               /\ c.rows = b.rows /\ c.doubt = b.doubt /\ c.astray = b.astray
BY DEF WithLoads, Window

\* a load put into slot i, and one that goes on in its slot
PutLoad(b, i, l) == [b EXCEPT !.activity = @ + 1, !.loads[i] = l]
NextStage(b, i, l) == [b EXCEPT !.loads[i] = l]

\* A load takes a slot.
LEMMA PutLoadFacts ==
    ASSUME NEW M, NEW b, Sound(b, M), NEW i \in Slots \ Queued(b), NEW l \in Load,
           l.at # "free", LoadOK(l, M)
    PROVE  LET c == PutLoad(b, i, l)
           IN  Sound(c, M) /\ (InPlace(b) => InPlace(c)) /\ Busy(c) = Busy(b) + 1
<1> DEFINE n == b.activity + 1
           L == [b.loads EXCEPT ![i] = l]
           c == WithLoads(b, n, L)
<1>1. /\ b \in Window /\ b.activity \in Int /\ b.loads \in [Slots -> Load]
      /\ b.activity = Busy(b)
  BY WindowFields DEF Sound, Busy
<1>2. n \in Int /\ L \in [Slots -> Load] /\ L[i] = l /\ \A j \in Slots \ {i} : L[j] = b.loads[j]
  BY <1>1
<1>3. c = PutLoad(b, i, l)
  BY DEF WithLoads, PutLoad
<1>4. n = Busy(b) + 1
  BY <1>1
<1> HIDE DEF n, L, c
<1>5. /\ c \in Window /\ c.activity = n /\ c.loads = L
      /\ c.location = b.location /\ c.history = b.history /\ c.pos = b.pos
      /\ c.monitor = b.monitor /\ c.listed = b.listed /\ c.shown = b.shown
      /\ c.astray = b.astray
  BY <1>1, <1>2, WithLoadsFacts DEF c
<1>6. Queued(c) = Queued(b) \union {i}
  BY <1>2, <1>5 DEF Queued
<1>7. Busy(c) = Busy(b) + 1
  BY <1>6, BusyFacts, FS_AddElement DEF Busy
<1>8. \A j \in Slots : LoadOK(c.loads[j], M)
  BY <1>2, <1>5 DEF Sound
<1>9. Sound(c, M)
  BY <1>4, <1>5, <1>7, <1>8 DEF Sound, Busy
<1>10. InPlace(b) => InPlace(c)
  BY <1>5, SamePlaceKeeps DEF SamePlace
<1> QED  BY <1>3, <1>7, <1>9, <1>10

\* A load goes on in its slot.
LEMMA NextStageFacts ==
    ASSUME NEW M, NEW b, Sound(b, M), NEW i \in Queued(b), NEW l \in Load,
           l.at # "free", LoadOK(l, M)
    PROVE  LET c == NextStage(b, i, l)
           IN  Sound(c, M) /\ (InPlace(b) => InPlace(c)) /\ Busy(c) = Busy(b)
<1> DEFINE n == b.activity
           L == [b.loads EXCEPT ![i] = l]
           c == WithLoads(b, n, L)
<1>1. /\ b \in Window /\ b.activity \in Int /\ b.loads \in [Slots -> Load]
      /\ b.activity = Busy(b) /\ i \in Slots
  BY WindowFields DEF Sound, Busy, Queued
<1>2. n \in Int /\ L \in [Slots -> Load] /\ L[i] = l /\ \A j \in Slots \ {i} : L[j] = b.loads[j]
  BY <1>1
<1>3. c = NextStage(b, i, l)
  BY <1>1 DEF WithLoads, Window, NextStage
<1>4. n = Busy(b)
  BY <1>1
<1> HIDE DEF n, L, c
<1>5. /\ c \in Window /\ c.activity = n /\ c.loads = L
      /\ c.location = b.location /\ c.history = b.history /\ c.pos = b.pos
      /\ c.monitor = b.monitor /\ c.listed = b.listed /\ c.shown = b.shown
      /\ c.astray = b.astray
  BY <1>1, <1>2, WithLoadsFacts DEF c
<1>6. Queued(c) = Queued(b)
  BY <1>2, <1>5 DEF Queued
<1>7. Busy(c) = Busy(b)
  BY <1>6 DEF Busy
<1>8. \A j \in Slots : LoadOK(c.loads[j], M)
  BY <1>2, <1>5 DEF Sound
<1>9. Sound(c, M)
  BY <1>4, <1>5, <1>7, <1>8 DEF Sound, Busy
<1>10. InPlace(b) => InPlace(c)
  BY <1>5, SamePlaceKeeps DEF SamePlace
<1> QED  BY <1>3, <1>7, <1>9, <1>10


-----------------------------------------------------------------------------
(* Going to a folder *)

\* the history and the place in it, set by a load that enters it
WithHistory(b, h, p) == [b EXCEPT !.history = h, !.pos = p, !.astray = NoFolder]

LEMMA AddToHistoryFacts ==
    ASSUME NEW b \in Window, IsInjective(b.history), b.pos \in 0..Len(b.history),
           NEW f \in Folders
    PROVE  LET c == AddToHistory(b, f)
           IN  /\ c = WithHistory(b, c.history, c.pos)
               /\ c.history \in Seq(Folders) /\ c.pos \in DOMAIN c.history
               /\ IsInjective(c.history) /\ c.history[c.pos] = f
<1>0. SUFFICES \E h \in Seq(Folders) : \E p \in DOMAIN h :
                   /\ AddToHistory(b, f) = WithHistory(b, h, p)
                   /\ IsInjective(h) /\ h[p] = f
  BY DEF WithHistory, Window
<1> DEFINE h == b.history
<1>1. h \in Seq(Folders) /\ Len(h) \in Nat /\ DOMAIN h = 1..Len(h)
  BY WindowFields
<1>2. CASE b.pos > 0 /\ h[b.pos] = f
  <2>1. b.pos \in DOMAIN h
    BY <1>1, <1>2
  <2>2. AddToHistory(b, f) = WithHistory(b, h, b.pos)
    BY <1>2 DEF AddToHistory, WithHistory, Window
  <2> QED  BY <1>1, <1>2, <2>1, <2>2
<1>3. CASE ~ (b.pos > 0 /\ h[b.pos] = f)
  <2> DEFINE kept == IF b.pos = 0 THEN <<>> ELSE SubSeq(h, b.pos, Len(h))
             old == Keep(kept, Folders \ {f})
             one == <<f>>
             new == one \o old
  <2>1. kept \in Seq(Folders) /\ IsInjective(kept)
    <3>1. CASE b.pos = 0
      BY <3>1 DEF IsInjective
    <3>2. CASE b.pos # 0
      <4> DEFINE p == b.pos
                 s == SubSeq(h, p, Len(h))
      <4>1. p \in 1..Len(h)
        BY <1>1, <3>2
      <4> HIDE DEF h, p
      <4>2. /\ s \in Seq(Folders) /\ Len(s) = Len(h) - p + 1
            /\ \A k \in 1..Len(h) - p + 1 : s[k] = h[p + k - 1]
        BY <1>1, <4>1
      <4> HIDE DEF s
      <4>3. \A k \in 1..Len(s) : p + k - 1 \in 1..Len(h) /\ s[k] = h[p + k - 1]
        BY <1>1, <4>1, <4>2
      <4>4. DOMAIN s = 1..Len(s)
        BY <4>2
      <4>5. IsInjective(s)
        <5>1. IsInjective(h)
          BY DEF h
        <5>2. ASSUME NEW i \in 1..Len(s), NEW j \in 1..Len(s), s[i] = s[j]
              PROVE  i = j
          <6>1. p + i - 1 = p + j - 1
            BY <1>1, <4>3, <5>1, <5>2 DEF IsInjective
          <6> QED  BY <4>1, <4>2, <6>1
        <5> QED  BY <4>4, <5>2 DEF IsInjective
      <4>6. kept = s
        BY <3>2 DEF s, p
      <4> QED  BY <4>2, <4>5, <4>6
    <3> QED  BY <3>1, <3>2
  <2>2. /\ old \in Seq(Folders) /\ IsInjective(old)
        /\ Range(old) = Range(kept) \intersect (Folders \ {f})
    <3> HIDE DEF kept
    <3> QED  BY <2>1, KeepFacts
  <2>3. AddToHistory(b, f) = WithHistory(b, new, 1)
    BY <1>3 DEF AddToHistory, WithHistory
  <2> HIDE DEF kept, old
  <2>4. /\ one \in Seq(Folders) /\ IsInjective(one) /\ Range(one) = {f}
        /\ Len(one) = 1 /\ one[1] = f
    BY DEF IsInjective, Range
  <2> HIDE DEF one
  <2>5. new \in Seq(Folders) /\ IsInjective(new) /\ Range(new) = {f} \union Range(old)
    <3>1. Range(one) \intersect Range(old) = {}
      BY <2>2, <2>4
    <3> QED  BY <2>2, <2>4, <3>1, ConcatFacts
  <2>6. Len(new) = 1 + Len(old) /\ Len(old) \in Nat /\ new[1] = f
    <3>3. old \in Seq(Folders) /\ Len(old) \in Nat
      BY <2>2
    <3>4. 1 \in 1..1 + Len(old)
      BY <3>3
    <3>1. one \in Seq(Folders) /\ Len(one) = 1 /\ 1 <= Len(one)
      BY <2>4
    <3>5. \A i \in 1..Len(one) + Len(old) : (one \o old)[i] =
                IF i <= Len(one) THEN one[i] ELSE old[i - Len(one)]
      BY <3>1, <3>3, ConcatProperties
    <3>2. Len(new) = Len(one) + Len(old) /\ new[1] = one[1]
      BY <3>1, <3>3, <3>4, <3>5, ConcatProperties
    <3> QED  BY <2>4, <3>2, <3>3
  <2> HIDE DEF new
  <2>7. 1 \in DOMAIN new
    BY <2>5, <2>6
  <2> QED  BY <2>3, <2>5, <2>6, <2>7
<1> QED  BY <1>2, <1>3


LEMMA WithHistoryFacts ==
    ASSUME NEW M, NEW b, Sound(b, M), NEW h \in Seq(Folders), NEW p \in DOMAIN h,
           IsInjective(h), h[p] = b.location
    PROVE  LET c == WithHistory(b, h, p)
           IN  Sound(c, M) /\ InPlace(c) /\ Queued(c) = Queued(b) /\ Busy(c) = Busy(b)
<1> DEFINE c == WithHistory(b, h, p)
<1>1. p \in Nat /\ p \in 0..Len(h) /\ p # 0 /\ b \in Window
  BY DEF Sound
<1>2. /\ c \in Window /\ c.history = h /\ c.pos = p
      /\ c.location = b.location /\ c.activity = b.activity /\ c.loads = b.loads
      /\ c.monitor = b.monitor /\ c.listed = b.listed /\ c.shown = b.shown
      /\ c.astray = NoFolder
  BY <1>1 DEF WithHistory, Window, Places
<1> HIDE DEF c
<1>3. Queued(c) = Queued(b) /\ Busy(c) = Busy(b)
  BY <1>2 DEF Queued, Busy
<1>4. Sound(c, M)
  BY <1>1, <1>2, <1>3 DEF Sound
<1>5. InPlace(c)
  BY <1>2 DEF InPlace, AtPlace
<1> QED  BY <1>3, <1>4, <1>5 DEF c

\* A move to another place of the history ends, on a volume perhaps where the place
\* is not any more.
WithAstray(b, a) == [b EXCEPT !.astray = a]

LEMMA WithAstrayFacts ==
    ASSUME NEW M, NEW b, Sound(b, M), NEW a \in Places
    PROVE  LET c == WithAstray(b, a)
           IN  /\ Sound(c, M) /\ Queued(c) = Queued(b) /\ Busy(c) = Busy(b)
               /\ c.location = b.location /\ c.history = b.history /\ c.pos = b.pos
               /\ c.astray = a
<1> DEFINE c == WithAstray(b, a)
<1>1. b \in Window
  BY DEF Sound
<1>2. /\ c \in Window /\ c.location = b.location /\ c.monitor = b.monitor
      /\ c.activity = b.activity /\ c.loads = b.loads /\ c.history = b.history /\ c.pos = b.pos
      /\ c.listed = b.listed /\ c.shown = b.shown /\ c.astray = a
  BY <1>1 DEF WithAstray, Window
<1> HIDE DEF c
<1>3. Queued(c) = Queued(b) /\ Busy(c) = Busy(b)
  BY <1>2 DEF Queued, Busy
<1>4. Sound(c, M)
  BY <1>2, <1>3 DEF Sound
<1> QED  BY <1>2, <1>3, <1>4 DEF c

LEMMA ArriveFacts ==
    ASSUME NEW M, NEW b, Sound(b, M), NEW f \in Folders, b.location = f,
           AtPlace(b, f) \/ OnVolume(f)
    PROVE  LET c == Arrive(b, f)
           IN  Sound(c, M) /\ InPlace(c) /\ Queued(c) = Queued(b) /\ Busy(c) = Busy(b)
<1> DEFINE a == IF AtPlace(b, f) THEN NoFolder ELSE f
           c == WithAstray(b, a)
<1>1. NoFolder \notin Folders
  BY LoadAssumption DEF LoadAssumption, Items
<1>2. a \in Places /\ (a = NoFolder => AtPlace(b, f)) /\ (a # NoFolder => a = f /\ OnVolume(f))
  BY <1>1 DEF Places
<1>3. c = Arrive(b, f)
  BY DEF WithAstray, Arrive, AtPlace
<1> HIDE DEF a, c
<1>4. /\ Sound(c, M) /\ Queued(c) = Queued(b) /\ Busy(c) = Busy(b)
      /\ c.location = b.location /\ c.history = b.history /\ c.pos = b.pos
      /\ c.astray = a
  BY <1>2, WithAstrayFacts DEF c
<1>5. InPlace(c)
  BY <1>2, <1>4 DEF InPlace, AtPlace
<1> QED  BY <1>3, <1>4, <1>5

\* the window that goes to f, before its history and its loads are set
GoneTo(b, f) == [StopMonitor(b) EXCEPT !.rows = {}, !.doubt = {}, !.location = f]

LEMMA GoneToFacts ==
    ASSUME NEW M, NEW b, Sound(b, M), NEW f \in Folders, Reach(f, M)
    PROVE  LET c == GoneTo(b, f)
           IN  /\ Sound(c, M) /\ Queued(c) = Queued(b) /\ Busy(c) = Busy(b)
               /\ c.location = f /\ c.history = b.history /\ c.pos = b.pos
<1> DEFINE c == GoneTo(b, f)
<1>1. b \in Window
  BY DEF Sound
<1>2. /\ c \in Window /\ c.location = f /\ c.monitor = NoFolder
      /\ c.activity = b.activity /\ c.loads = b.loads /\ c.history = b.history /\ c.pos = b.pos
      /\ c.listed = b.listed /\ c.shown = b.shown
  BY <1>1 DEF GoneTo, StopMonitor, Window, Places
<1> HIDE DEF c
<1>3. Queued(c) = Queued(b) /\ Busy(c) = Busy(b)
  BY <1>2 DEF Queued, Busy
<1>4. Sound(c, M)
  BY <1>1, <1>2, <1>3 DEF Sound
<1> QED  BY <1>2, <1>3, <1>4 DEF c

LEMMA StartLoadFacts ==
    ASSUME NEW M, NEW b, Sound(b, M), NEW f \in Folders, NEW action \in Actions,
           action # "list" => Reach(f, M),
           NEW automatic \in BOOLEAN, automatic => action = "go", Busy(b) < MaxInputs,
           action = "list" => InPlace(b),
           action = "travel" => AtPlace(b, f) \/ OnVolume(f)
    PROVE  LET c == StartLoad(b, f, action, automatic)
           IN  Sound(c, M) /\ InPlace(c) /\ Busy(c) = Busy(b) + 1
<1> DEFINE prepared == IF action = "list" THEN LoadingChildren(b, f) ELSE GoneTo(b, f)
           placed == CASE action = "go" -> AddToHistory(prepared, f)
                       [] action = "travel" -> Arrive(prepared, f)
                       [] action = "list" -> prepared
           l == NewLoad(f, action, automatic)
           next == NextFolder(placed, l)
           i == FreeSlot(b)
<1>1. /\ Sound(placed, M) /\ InPlace(placed)
      /\ Queued(placed) = Queued(b) /\ Busy(placed) = Busy(b)
  <2>1. CASE action = "list"
    <3>1. Redrawn(b, LoadingChildren(b, f))
      <4>1. Redrawn(b, RemoveRows(b, Below(f) \ {f}))
        BY RemoveRowsFacts
      <4>2. Redrawn(b, b)
        BY DEF Redrawn, Sound
      <4> QED  BY <4>1, <4>2 DEF LoadingChildren
    <3>2. placed = LoadingChildren(b, f)
      BY <2>1
    <3> HIDE DEF placed
    <3> QED  BY <2>1, <3>1, <3>2, RedrawnKeeps
  <2>2. CASE action = "travel"
    <3> DEFINE g == GoneTo(b, f)
    <3>1. placed = Arrive(g, f) /\ Reach(f, M)
      BY <2>2
    <3> HIDE DEF placed, g
    <3>2. /\ Sound(g, M) /\ Queued(g) = Queued(b) /\ Busy(g) = Busy(b)
          /\ g.location = f /\ g.history = b.history /\ g.pos = b.pos
      BY <3>1, GoneToFacts DEF g
    <3>3. AtPlace(g, f) \/ OnVolume(f)
      BY <2>2, <3>2 DEF AtPlace
    <3> DEFINE c == Arrive(g, f)
    <3>4. Sound(c, M) /\ InPlace(c) /\ Queued(c) = Queued(g) /\ Busy(c) = Busy(g)
      BY <3>2, <3>3, ArriveFacts
    <3> HIDE DEF c
    <3>5. placed = c
      BY <3>1 DEF c
    <3> QED  BY <3>2, <3>4, <3>5
  <2>3. CASE action = "go"
    <3> DEFINE g == GoneTo(b, f)
    <3>0. Reach(f, M)
      BY <2>3
    <3>1. Sound(g, M) /\ Queued(g) = Queued(b) /\ Busy(g) = Busy(b) /\ g.location = f
      BY <3>0, GoneToFacts
    <3>2. placed = AddToHistory(g, f)
      BY <2>3
    <3> HIDE DEF g, placed
    <3>3. /\ g \in Window /\ IsInjective(g.history) /\ g.pos \in 0..Len(g.history)
      BY <3>1 DEF Sound
    <3>4. /\ placed = WithHistory(g, placed.history, placed.pos)
          /\ placed.history \in Seq(Folders) /\ placed.pos \in DOMAIN placed.history
          /\ IsInjective(placed.history) /\ placed.history[placed.pos] = f
      BY <3>2, <3>3, AddToHistoryFacts
    <3> DEFINE h == placed.history
               p == placed.pos
               c == WithHistory(g, h, p)
    <3>5. /\ h \in Seq(Folders) /\ p \in DOMAIN h /\ IsInjective(h) /\ h[p] = g.location
      BY <3>1, <3>4
    <3>6. placed = c
      BY <3>4
    <3> HIDE DEF h, p
    <3>7. Sound(c, M) /\ InPlace(c) /\ Queued(c) = Queued(g) /\ Busy(c) = Busy(g)
      BY <3>1, <3>5, WithHistoryFacts
    <3> QED  BY <3>1, <3>6, <3>7
  <2> QED  BY <2>1, <2>2, <2>3 DEF Actions
<1>2. StartLoad(b, f, action, automatic) = PutLoad(placed, i, next)
  BY DEF StartLoad, GoneTo, PutLoad
<1>3. i \in Slots \ Queued(placed)
  BY <1>1, FreeSlotFacts
<1> HIDE DEF placed, i
<1>4. /\ l \in Load /\ l.folder = f /\ l.current = 0 /\ l.action = action
      /\ l.automatic = automatic
  BY DEF NewLoad, FreeLoad, Load, Places, Actions
<1> HIDE DEF l
<1>5. next \in Load /\ next.at # "free" /\ LoadOK(next, M)
  <2>1. l.current \in 0..Len(Path[l.folder]) - 1
    BY <1>4, PathFacts
  <2> QED  BY <1>4, <2>1, NextFolderFacts
<1> HIDE DEF next
<1> QED  BY <1>1, <1>2, <1>3, <1>5, PutLoadFacts


-----------------------------------------------------------------------------
(* The ends of a load *)

Fine(b, M) == Sound(b, M) /\ InPlace(b)

LEMMA LoadFacts ==
    ASSUME NEW M, NEW b, Sound(b, M), NEW i \in Queued(b)
    PROVE  LET l == b.loads[i]
           IN  /\ l \in Load /\ i \in Slots /\ l.at # "free" /\ LoadOK(l, M)
               /\ l.folder \in Folders /\ Current(l) \in Folders
               /\ (l.action # "list" => Reach(l.folder, M))
               /\ l.current \in 1..Len(Path[l.folder])
               /\ (Current(l) # l.folder => l.current \in 0..Len(Path[l.folder]) - 1)
               /\ (l.automatic => l.action = "go")
<1> DEFINE l == b.loads[i]
<1>1. l \in Load /\ i \in Slots /\ l.at # "free" /\ LoadOK(l, M)
  <2>1. i \in Slots /\ b.loads \in [Slots -> Load] /\ b.loads[i].at # "free"
    BY WindowFields DEF Sound, Queued
  <2> QED  BY <2>1 DEF Sound
<1> HIDE DEF l
<1>2. /\ l.folder \in Folders /\ l.current \in DOMAIN Path[l.folder]
      /\ (l.action # "list" => Reach(l.folder, M)) /\ (l.automatic => l.action = "go")
  BY <1>1 DEF LoadOK
<1> DEFINE path == Path[l.folder]
<1>3. /\ DOMAIN path = 1..Len(path) /\ Len(path) \in Nat /\ path[Len(path)] = l.folder
      /\ \A k \in 1..Len(path) : path[k] \in Folders
  BY <1>2, PathFacts
<1> HIDE DEF path
<1>4. l.current \in 1..Len(path) /\ Current(l) \in Folders
  BY <1>2, <1>3 DEF Current, path
<1>5. Current(l) # l.folder => l.current \in 0..Len(path) - 1
  <2>1. Current(l) # l.folder => l.current # Len(path)
    BY <1>3 DEF Current, path
  <2>2. \A n \in Nat : \A k \in 1..n : k # n => k \in 0..n - 1
    OBVIOUS
  <2> QED  BY <1>3, <1>4, <2>1, <2>2
<1> QED  BY <1>1, <1>2, <1>4, <1>5 DEF l, path

\* a window that shows other files, and doubts others
WithRows(b, rows, doubt) == [b EXCEPT !.rows = rows, !.doubt = doubt]

LEMMA WithRowsFacts ==
    ASSUME NEW b, NEW c, Redrawn(b, c), NEW rows \in SUBSET Files, NEW doubt \in SUBSET Items
    PROVE  Redrawn(b, WithRows(c, rows, doubt))
<1>1. c \in Window
  BY DEF Redrawn
<1> QED  BY <1>1 DEF WithRows, Redrawn, Window

LEMMA FailFacts ==
    ASSUME NEW M, NEW b, Fine(b, M), NEW i \in Queued(b), NEW cancelled \in BOOLEAN
    PROVE  LET c == Fail(b, i, cancelled) IN Fine(c, M) /\ Busy(c) <= Busy(b)
<1> DEFINE l == b.loads[i]
           emptied == SetChildren(b, Current(l), {})
           doubt == emptied.doubt \union Files \union
                        (IF l.folder = b.location THEN {l.folder} ELSE {})
           c == IF l.action = "list" THEN emptied ELSE WithRows(emptied, {}, doubt)
           d == Done(c, i)
<1>1. /\ l.folder \in Folders /\ (l.action # "list" => Reach(l.folder, M))
      /\ Current(l) \in Folders /\ l.action \in Actions /\ l.automatic \in BOOLEAN
      /\ (l.automatic => l.action = "go")
  BY LoadFacts, LoadFields DEF Fine
<1>2. Redrawn(b, emptied)
  BY <1>1, SetChildrenFacts DEF Fine
<1> HIDE DEF emptied
<1>3. Redrawn(b, c)
  <2>1. doubt \in SUBSET Items
    <3>1. emptied.doubt \in SUBSET Items
      BY <1>2, WindowFields DEF Redrawn
    <3> QED  BY <1>1, <3>1 DEF Items
  <2>2. {} \in SUBSET Files
    OBVIOUS
  <2> HIDE DEF doubt
  <2> QED  BY <1>2, <2>1, <2>2, WithRowsFacts
<1>4. Fail(b, i, cancelled) =
          IF ~ cancelled /\ l.automatic /\ Parent(l.folder) # NoFolder
          THEN StartLoad(d, Parent(l.folder), l.action, TRUE)
          ELSE d
  BY DEF Fail, emptied, WithRows
<1> HIDE DEF c
<1>5. Sound(c, M) /\ InPlace(c) /\ Queued(c) = Queued(b) /\ Busy(c) = Busy(b)
  BY <1>3, RedrawnKeeps DEF Fine
<1>6. Sound(d, M) /\ InPlace(d) /\ Busy(d) = Busy(b) - 1
  BY <1>5, DoneFacts
<1> HIDE DEF d
<1>7. Busy(b) \in Nat /\ Busy(b) <= MaxInputs /\ MaxInputs \in Nat
  BY BusyFacts, LoadAssumption DEF LoadAssumption
<1>8. CASE ~ (~ cancelled /\ l.automatic /\ Parent(l.folder) # NoFolder)
  <2>1. Fail(b, i, cancelled) = d
    BY <1>4, <1>8, Zenon
  <2>2. Busy(d) <= Busy(b)
    BY <1>6, <1>7
  <2> QED  BY <1>6, <2>1, <2>2 DEF Fine
<1>9. CASE ~ cancelled /\ l.automatic /\ Parent(l.folder) # NoFolder
  <2> DEFINE f == Parent(l.folder)
             automatic == TRUE
             action == "go"
             e == StartLoad(d, f, action, automatic)
  <2>1. f \in Folders /\ Reach(f, M)
    BY <1>1, <1>9, ParentFacts DEF Reach
  <2>2. Fail(b, i, cancelled) = e
    BY <1>1, <1>4, <1>9
  <2>3. action \in Actions /\ action = "go" /\ automatic \in BOOLEAN
    BY DEF Actions
  <2>4. Busy(d) < MaxInputs
    BY <1>6, <1>7
  <2> HIDE DEF f, automatic, action
  <2>5. Sound(e, M) /\ InPlace(e) /\ Busy(e) = Busy(d) + 1
    BY <1>6, <2>1, <2>3, <2>4, StartLoadFacts
  <2> QED  BY <1>6, <1>7, <2>2, <2>5 DEF Fine
<1> QED  BY <1>8, <1>9

LEMMA ShowFacts ==
    ASSUME NEW M, NEW b, Fine(b, M), NEW i \in Queued(b)
    PROVE  LET c == Show(b, i) IN Fine(c, M) /\ Busy(c) <= Busy(b)
<1> DEFINE l == b.loads[i]
           s == SetChildren(b, l.folder, l.found)
           d == Done(s, i)
           c == Show(b, i)
<1>1. l.folder \in Folders /\ l.found \in SUBSET Items /\ l.missed \in SUBSET Items
  BY LoadFacts, LoadFields DEF Fine
<1>2. Redrawn(b, s)
  BY <1>1, SetChildrenFacts DEF Fine
<1>3. c = [d EXCEPT !.rows = l.found \intersect Files, !.monitor = b.location, !.doubt = l.missed]
  BY DEF Show
<1> HIDE DEF s, c
<1>4. /\ Sound(s, M) /\ InPlace(s) /\ Queued(s) = Queued(b) /\ Busy(s) = Busy(b)
      /\ s.location = b.location
  BY <1>2, RedrawnKeeps DEF Fine, Redrawn
<1>5. Sound(d, M) /\ InPlace(d) /\ Busy(d) = Busy(b) - 1 /\ d.location = b.location
  BY <1>4, DoneFacts
<1> HIDE DEF d
<1>6. d \in Window /\ b.location \in Places
  BY <1>5, WindowFields DEF Sound, Fine
<1>7. /\ c \in Window /\ c.location = d.location /\ c.history = d.history /\ c.pos = d.pos
      /\ c.monitor = d.location /\ c.listed = d.listed /\ c.shown = d.shown
      /\ c.activity = d.activity /\ c.loads = d.loads /\ c.astray = d.astray
  BY <1>1, <1>3, <1>5, <1>6 DEF Window
<1>8. Queued(c) = Queued(d) /\ Busy(c) = Busy(d)
  BY <1>7 DEF Queued, Busy
<1>9. Sound(c, M) /\ InPlace(c)
  BY <1>5, <1>7, <1>8, SamePlaceKeeps DEF Sound, SamePlace
<1>10. Busy(c) <= Busy(b)
  BY <1>5, <1>8, BusyFacts
<1> QED  BY <1>9, <1>10 DEF c, Fine

LEMMA ContinueFacts ==
    ASSUME NEW M, Fine(browser, M), NEW i \in Queued(browser), NEW children, Continue(i, children)
    PROVE  /\ Fine(browser', M) /\ Busy(browser') <= Busy(browser)
           /\ queue' = queue \/ queue' = NoEvents
<1> DEFINE l == browser.loads[i]
<1>1. Busy(browser) \in Nat
  BY BusyFacts
<1>2. CASE browser' = Done(browser, i) /\ queue' = queue
  <2> DEFINE c == Done(browser, i)
  <2>1. Sound(c, M) /\ InPlace(c) /\ Busy(c) = Busy(browser) - 1
    BY DoneFacts DEF Fine
  <2> HIDE DEF c
  <2>2. browser' = c
    BY <1>2 DEF c
  <2> QED  BY <1>1, <1>2, <2>1, <2>2 DEF Fine
<1>3. CASE /\ Current(l) # l.folder /\ queue' = queue
           /\ browser' = [SetChildren(browser, Current(l), children) EXCEPT
                             !.loads[i] = NextFolder(SetChildren(browser, Current(l), children), l)]
  <2> DEFINE c == SetChildren(browser, Current(l), children)
             next == NextFolder(c, l)
             e == NextStage(c, i, next)
  <2>1. /\ Current(l) \in Folders /\ l \in Load /\ l.folder \in Folders
        /\ (l.action # "list" => Reach(l.folder, M)) /\ l.current \in 0..Len(Path[l.folder]) - 1
        /\ (l.automatic => l.action = "go")
    BY <1>3, LoadFacts DEF Fine
  <2>2. Redrawn(browser, c)
    BY <2>1, SetChildrenFacts DEF Fine
  <2>3. browser' = e
    BY <1>3 DEF NextStage
  <2> HIDE DEF c
  <2>4. Sound(c, M) /\ InPlace(c) /\ Queued(c) = Queued(browser) /\ Busy(c) = Busy(browser)
    BY <2>2, RedrawnKeeps DEF Fine
  <2>5. next \in Load /\ next.at # "free" /\ LoadOK(next, M)
    <3> HIDE DEF l
    <3> QED  BY <2>1, NextFolderFacts
  <2> HIDE DEF next
  <2>6. Sound(e, M) /\ InPlace(e) /\ Busy(e) = Busy(c)
    BY <2>4, <2>5, NextStageFacts
  <2> QED  BY <1>1, <1>3, <2>3, <2>4, <2>6 DEF Fine
<1>4. CASE browser' = Done(SetChildren(browser, l.folder, children), i) /\ queue' = queue
  <2> DEFINE s == SetChildren(browser, l.folder, children)
             c == Done(s, i)
  <2>1. Redrawn(browser, s)
    BY LoadFacts, SetChildrenFacts DEF Fine
  <2>2. browser' = c
    BY <1>4
  <2> HIDE DEF s
  <2>3. Sound(s, M) /\ InPlace(s) /\ Queued(s) = Queued(browser) /\ Busy(s) = Busy(browser)
    BY <2>1, RedrawnKeeps DEF Fine
  <2>4. Sound(c, M) /\ InPlace(c) /\ Busy(c) = Busy(s) - 1
    BY <2>3, DoneFacts
  <2> HIDE DEF c
  <2> QED  BY <1>1, <1>4, <2>2, <2>3, <2>4 DEF Fine
<1>5. CASE browser' = Show(browser, i) /\ queue' = NoEvents
  <2> DEFINE c == Show(browser, i)
  <2>1. Fine(c, M) /\ Busy(c) <= Busy(browser)
    BY ShowFacts
  <2>2. browser' = c
    BY <1>5
  <2> HIDE DEF c
  <2> QED  BY <1>5, <2>1, <2>2
<1> QED  BY <1>2, <1>3, <1>4, <1>5 DEF Continue


-----------------------------------------------------------------------------
(* The steps *)

LEMMA BInvFacts ==
    ASSUME BInv
    PROVE  /\ Fine(browser, mounted) /\ Sound(browser, mounted) /\ InPlace(browser)
           /\ browser \in Window
           /\ Busy(browser) \in Nat /\ Cardinality(mounts) \in Nat
           /\ Reports(queue) \in Nat /\ Len(flushing) \in Nat /\ Pending \in Nat
           /\ Busy(browser) + Pending <= inputs /\ Busy(browser) <= inputs
           /\ inputs \in Nat /\ inputs <= MaxInputs /\ MaxInputs \in Nat
<1>1. MaxInputs \in Nat
  BY LoadAssumption DEF LoadAssumption
<1>2. Reports(queue) \in Nat /\ Len(flushing) \in Nat
  <2>1. queue.created \in Seq(Reportable) /\ queue.deleted \in Seq(Reportable)
        /\ queue.changed \in Seq(Reportable) /\ flushing \in Seq(MonitorEvent)
    BY DEF BInv, MonitorQueue
  <2>2. /\ Len(queue.created) \in Nat /\ Len(queue.deleted) \in Nat
        /\ Len(queue.changed) \in Nat /\ Len(flushing) \in Nat
    BY <2>1
  <2>3. \A a \in Nat : \A b \in Nat : \A c \in Nat : a + b + c \in Nat
    OBVIOUS
  <2> QED  BY <2>2, <2>3 DEF Reports
<1>3. Busy(browser) \in Nat /\ Cardinality(mounts) \in Nat
  BY BusyFacts, FS_CardinalityType DEF BInv
<1>4. Busy(browser) + Pending <= inputs /\ inputs \in Nat /\ inputs <= MaxInputs
  BY <1>1 DEF BInv, Busy
<1>5. Pending \in Nat
  BY <1>2, <1>3 DEF Pending
<1>6. Busy(browser) <= inputs
  BY <1>3, <1>4, <1>5
<1>7. Sound(browser, mounted) /\ InPlace(browser)
  BY DEF BInv
<1> QED  BY <1>1, <1>2, <1>3, <1>4, <1>5, <1>6, <1>7 DEF Fine, Sound

\* A step of the window that at most takes the monitor's queue away, and starts a load
\* only for an input.
WindowMoves ==
    /\ UNCHANGED <<disk, mounted, mounts, flushing, reads>>
    /\ queue' = queue \/ queue' = NoEvents
    /\ Fine(browser', mounted)
    /\ \/ inputs' = inputs /\ Busy(browser') <= Busy(browser)
       \/ inputs < MaxInputs /\ inputs' = inputs + 1 /\ Busy(browser') <= Busy(browser) + 1

LEMMA WindowMovesStep == BInv /\ WindowMoves => BInv'
<1> SUFFICES ASSUME BInv, WindowMoves  PROVE BInv'
  OBVIOUS
<1>1. queue' \in MonitorQueue
  <2>1. queue \in MonitorQueue
    BY DEF BInv
  <2>2. NoEvents \in MonitorQueue
    BY DEF NoEvents, MonitorQueue
  <2> QED  BY <2>1, <2>2 DEF WindowMoves
<1>2. Reports(queue') \in Nat /\ Reports(queue') <= Reports(queue)
  <2>1. CASE queue' = queue
    BY <2>1, BInvFacts
  <2>2. CASE queue' = NoEvents
    <3>1. Reports(NoEvents) = 0
      BY DEF NoEvents, Reports
    <3> QED  BY <2>2, <3>1, BInvFacts
  <2> QED  BY <2>1, <2>2 DEF WindowMoves
<1>3. Busy(browser') \in Nat
  BY BusyFacts
<1>4. inputs' \in 0..MaxInputs /\ Busy(browser') <= Busy(browser) + (inputs' - inputs)
  BY <1>3, BInvFacts DEF WindowMoves
<1>5. Busy(browser') + Pending' <= inputs'
  <2>1. Pending' = Cardinality(mounts) + Reports(queue') + Len(flushing)
    BY DEF WindowMoves, Pending
  <2>2. Pending' <= Pending /\ Pending' \in Nat
    BY <1>2, <2>1, BInvFacts DEF Pending
  <2>3. Busy(browser) + Pending <= inputs
    BY BInvFacts
  <2> QED  BY <1>3, <1>4, <2>2, <2>3, BInvFacts, SMTT(30)
<1>6. /\ disk' = disk /\ mounted' = mounted /\ mounts' = mounts /\ flushing' = flushing
      /\ reads' = reads /\ Sound(browser', mounted') /\ InPlace(browser')
  BY DEF WindowMoves, Fine
<1> QED  BY <1>1, <1>4, <1>5, <1>6 DEF BInv, Busy

\* the loads of a window of which only the progress is noted
Marked(b, L) == [b EXCEPT !.loads = L]

LEMMA MarkedFacts ==
    ASSUME NEW M, NEW b, Fine(b, M), NEW L \in [Slots -> Load],
           \A j \in Slots : /\ L[j].at = b.loads[j].at /\ L[j].folder = b.loads[j].folder
                            /\ L[j].action = b.loads[j].action
                            /\ L[j].automatic = b.loads[j].automatic
                            /\ L[j].current = b.loads[j].current
    PROVE  Fine(Marked(b, L), M) /\ Busy(Marked(b, L)) = Busy(b)
<1> DEFINE c == Marked(b, L)
<1>1. b \in Window
  BY DEF Fine, Sound
<1>2. /\ c \in Window /\ c.loads = L /\ c.activity = b.activity
      /\ c.location = b.location /\ c.history = b.history /\ c.pos = b.pos
      /\ c.monitor = b.monitor /\ c.listed = b.listed /\ c.shown = b.shown
      /\ c.astray = b.astray
  BY <1>1 DEF Marked, Window
<1> HIDE DEF c
<1>3. Queued(c) = Queued(b) /\ Busy(c) = Busy(b)
  BY <1>2 DEF Queued, Busy
<1>4. \A j \in Slots : LoadOK(c.loads[j], M)
  BY <1>2 DEF Fine, Sound, LoadOK, Current
<1>5. Sound(c, M)
  BY <1>2, <1>3, <1>4 DEF Fine, Sound
<1>6. InPlace(c)
  BY <1>2, SamePlaceKeeps DEF Fine, SamePlace
<1> QED  BY <1>3, <1>5, <1>6 DEF c, Fine

LEMMA StopMonitorFacts ==
    ASSUME NEW M, NEW b, Sound(b, M)
    PROVE  LET c == StopMonitor(b)
           IN  Sound(c, M) /\ SamePlace(b, c) /\ Queued(c) = Queued(b) /\ Busy(c) = Busy(b)
<1> DEFINE c == StopMonitor(b)
<1>1. b \in Window
  BY DEF Sound
<1>2. /\ c \in Window /\ c.loads = b.loads /\ c.activity = b.activity
      /\ c.location = b.location /\ c.history = b.history /\ c.pos = b.pos
      /\ c.monitor = NoFolder /\ c.listed = b.listed /\ c.shown = b.shown
      /\ c.astray = b.astray
  BY <1>1 DEF StopMonitor, Window, Places
<1> HIDE DEF c
<1>3. Queued(c) = Queued(b) /\ Busy(c) = Busy(b)
  BY <1>2 DEF Queued, Busy
<1>4. Sound(c, M)
  BY <1>2, <1>3 DEF Sound
<1> QED  BY <1>2, <1>3, <1>4 DEF c, SamePlace

\* A folder is gone to, or waits for its volume: from the place where the window is, or
\* from the place of the folder in the history, which the window has just moved to.
LEMMA LoadLocationStep ==
    ASSUME BInv, NEW b, Sound(b, mounted), Queued(b) = Queued(browser), NEW f \in Folders,
           NEW action \in {"go", "travel"}, action = "go" => InPlace(b),
           action = "travel" => AtPlace(b, f), LoadLocation(b, f, action),
           inputs < MaxInputs, inputs' = inputs + 1,
           UNCHANGED <<disk, mounted, queue, flushing, reads>>
    PROVE  BInv'
<1>1. Busy(b) = Busy(browser) /\ Busy(b) < MaxInputs
  BY BInvFacts DEF Busy
<1>2. CASE Mounted(f)
  <2> DEFINE automatic == FALSE
             c == StartLoad(b, f, action, automatic)
  <2>1. browser' = c /\ mounts' = mounts
    BY <1>2 DEF LoadLocation
  <2>2. Reach(f, mounted) /\ action \in Actions /\ automatic \in BOOLEAN /\ ~ automatic
    BY <1>2 DEF Mounted, Reach, Actions
  <2> HIDE DEF automatic
  <2>3. Sound(c, mounted) /\ InPlace(c) /\ Busy(c) = Busy(b) + 1
    <3>1. action # "list"
      OBVIOUS
    <3> QED  BY <1>1, <2>2, <3>1, StartLoadFacts
  <2> HIDE DEF c
  <2>4. WindowMoves
    BY <1>1, <2>1, <2>3, BInvFacts DEF WindowMoves, Fine
  <2> QED  BY <2>4, WindowMovesStep
<1>3. CASE ~ Mounted(f)
  <2> DEFINE m == [folder |-> f, action |-> action]
             s == StopMonitor(b)
             a == IF action = "travel" THEN f ELSE s.astray
             c == WithAstray(s, a)
  <2>1. browser' = c /\ mounts' = mounts \union {m}
    BY <1>3 DEF LoadLocation, WithAstray
  <2>2. /\ m \in [folder : Folders, action : {"go", "travel"}]
        /\ Path[m.folder][1] \in Volumes /\ OnVolume(f)
    BY <1>3 DEF Mounted, OnVolume
  <2>3. /\ Sound(s, mounted) /\ SamePlace(b, s)
        /\ Queued(s) = Queued(b) /\ Busy(s) = Busy(b)
    BY StopMonitorFacts
  <2> HIDE DEF s, m
  <2>4. a \in Places
    BY <2>3, WindowFields DEF Sound, Places
  <2>5. /\ action = "go" => a = s.astray
        /\ action = "travel" => a = f
    OBVIOUS
  <2> HIDE DEF a
  <2>6. /\ Sound(c, mounted) /\ Busy(c) = Busy(s)
        /\ c.location = s.location /\ c.history = s.history /\ c.pos = s.pos
        /\ c.astray = a
    BY <2>3, <2>4, WithAstrayFacts
  <2> HIDE DEF c
  <2>7. InPlace(c)
    <3>1. CASE action = "go"
      <4>1. SamePlace(b, c)
        BY <2>3, <2>5, <2>6, <3>1 DEF SamePlace
      <4> QED  BY <3>1, <4>1, SamePlaceKeeps
    <3>2. CASE action = "travel"
      <4>1. AtPlace(c, f) /\ c.astray = f
        BY <2>3, <2>5, <2>6, <3>2 DEF SamePlace, AtPlace
      <4>2. NoFolder \notin Folders
        BY LoadAssumption DEF LoadAssumption, Items
      <4> QED  BY <2>2, <4>1, <4>2 DEF InPlace
    <3> QED  BY <3>1, <3>2
  <2>8. IsFiniteSet(mounts') /\ Cardinality(mounts') <= Cardinality(mounts) + 1
        /\ Cardinality(mounts') \in Nat
    <3>1. IsFiniteSet(mounts)
      BY DEF BInv
    <3>2. IsFiniteSet(mounts') /\ Cardinality(mounts') \in Nat
      BY <2>1, <3>1, FS_AddElement, FS_CardinalityType
    <3>3. Cardinality(mounts) \in Nat
      BY <3>1, FS_CardinalityType
    <3>4. Cardinality(mounts') \in {Cardinality(mounts), Cardinality(mounts) + 1}
      BY <2>1, <3>1, FS_AddElement
    <3> QED  BY <3>2, <3>3, <3>4
  <2>9. Sound(browser', mounted) /\ InPlace(browser') /\ Busy(browser') = Busy(browser)
    BY <1>1, <2>1, <2>3, <2>6, <2>7
  <2>10. Busy(browser') + Pending' <= inputs'
    <3>1. Pending' = Cardinality(mounts') + Reports(queue) + Len(flushing)
      BY DEF Pending
    <3>2. Pending' <= Pending + 1 /\ Pending' \in Nat
      BY <2>8, <3>1, BInvFacts, SMTT(30) DEF Pending
    <3> QED  BY <2>9, <3>2, BInvFacts
  <2>11. inputs' \in 0..MaxInputs
    BY BInvFacts
  <2>12. \A x \in mounts' : /\ x \in [folder : Folders, action : {"go", "travel"}]
                            /\ Path[x.folder][1] \in Volumes
    BY <2>1, <2>2 DEF BInv
  <2> QED  BY <2>8, <2>9, <2>10, <2>11, <2>12 DEF BInv, Busy
<1> QED  BY <1>2, <1>3

LEMMA GoToStep == BInv /\ (\E f \in Folders : GoTo(f)) => BInv'
<1> SUFFICES ASSUME BInv, NEW f \in Folders, GoTo(f)  PROVE BInv'
  OBVIOUS
<1> DEFINE action == "go"
<1>1. /\ inputs < MaxInputs /\ inputs' = inputs + 1
      /\ UNCHANGED <<disk, mounted, queue, flushing, reads>>
      /\ LoadLocation(browser, f, action)
  BY DEF GoTo, Request
<1>2. action \in {"go", "travel"} /\ action = "go"
  OBVIOUS
<1> HIDE DEF action
<1>3. Sound(browser, mounted) /\ InPlace(browser)
  BY BInvFacts
<1> QED  BY <1>1, <1>2, <1>3, LoadLocationStep


\* the window at another place of its history
MovedTo(b, k) == [b EXCEPT !.pos = k]

LEMMA TravelStep == BInv /\ (\E k \in DOMAIN browser.history : Travel(k)) => BInv'
<1> SUFFICES ASSUME BInv, NEW k \in DOMAIN browser.history, Travel(k)  PROVE BInv'
  OBVIOUS
<1> DEFINE b == MovedTo(browser, k)
           f == browser.history[k]
           action == "travel"
<1>1. /\ inputs < MaxInputs /\ inputs' = inputs + 1
      /\ UNCHANGED <<disk, mounted, queue, flushing, reads>>
      /\ LoadLocation(b, f, action)
  BY DEF Travel, Request, MovedTo
<1>2. /\ f \in Folders /\ k \in Nat /\ k # 0 /\ k \in 0..Len(browser.history)
      /\ browser \in Window
  <2>1. browser.history \in Seq(Folders) /\ browser \in Window
    BY BInvFacts, WindowFields
  <2> QED  BY <2>1
<1>4. /\ b \in Window /\ b.pos = k /\ b.history = browser.history
      /\ b.location = browser.location /\ b.activity = browser.activity
      /\ b.loads = browser.loads /\ b.monitor = browser.monitor
      /\ b.listed = browser.listed /\ b.shown = browser.shown
  BY <1>2 DEF MovedTo, Window
<1> HIDE DEF b
<1>5. Queued(b) = Queued(browser) /\ Busy(b) = Busy(browser)
  BY <1>4 DEF Queued, Busy
<1>6. Sound(b, mounted)
  BY <1>2, <1>4, <1>5, BInvFacts DEF Sound
<1>7. AtPlace(b, f)
  BY <1>4 DEF AtPlace
<1>8. action \in {"go", "travel"} /\ action = "travel" /\ action # "go"
  OBVIOUS
<1> HIDE DEF f, action
<1> QED  BY <1>1, <1>2, <1>5, <1>6, <1>7, <1>8, LoadLocationStep

LEMMA ListChildrenStep == BInv /\ (\E f \in Folders : ListChildren(f)) => BInv'
<1> SUFFICES ASSUME BInv, NEW f \in Folders, ListChildren(f)  PROVE BInv'
  OBVIOUS
<1> DEFINE action == "list"
           automatic == FALSE
           c == StartLoad(browser, f, action, automatic)
<1>1. /\ inputs < MaxInputs /\ inputs' = inputs + 1 /\ browser' = c
      /\ UNCHANGED <<disk, mounted, mounts, queue, flushing, reads>>
  BY DEF ListChildren, Request
<1>2. action \in Actions /\ action = "list" /\ automatic \in BOOLEAN /\ ~ automatic
  BY DEF Actions
<1>3. Busy(browser) < MaxInputs
  BY <1>1, BInvFacts
<1> HIDE DEF action, automatic
<1>4. Sound(c, mounted) /\ InPlace(c) /\ Busy(c) = Busy(browser) + 1
  BY <1>2, <1>3, BInvFacts, StartLoadFacts
<1>5. WindowMoves
  BY <1>1, <1>4, BInvFacts DEF WindowMoves, Fine
<1> QED  BY <1>5, WindowMovesStep

\* the window of which the history is cleared, and whose program ends with it
Cleared(b) == [b EXCEPT !.history = <<>>, !.pos = 0]
Crashed(b) == [Cleared(b) EXCEPT !.crashed = TRUE, !.astray = NoFolder]

LEMMA ClearedFacts ==
    ASSUME NEW M, NEW b, Sound(b, M)
    PROVE  LET c == Cleared(b)
           IN  /\ Sound(c, M) /\ c.history = <<>> /\ c.pos = 0
               /\ c.location = b.location /\ Queued(c) = Queued(b) /\ Busy(c) = Busy(b)
<1> DEFINE c == Cleared(b)
<1>1. b \in Window /\ <<>> \in Seq(Folders) /\ 0 \in Nat
  BY DEF Sound
<1>2. /\ c \in Window /\ c.pos = 0 /\ c.history = <<>>
      /\ c.location = b.location /\ c.activity = b.activity
      /\ c.loads = b.loads /\ c.monitor = b.monitor
      /\ c.listed = b.listed /\ c.shown = b.shown
  BY <1>1 DEF Cleared, Window
<1> HIDE DEF c
<1>3. Queued(c) = Queued(b) /\ Busy(c) = Busy(b)
  BY <1>2 DEF Queued, Busy
<1>4. IsInjective(c.history) /\ c.pos \in 0..Len(c.history)
  BY <1>2 DEF IsInjective
<1>5. Sound(c, M)
  BY <1>2, <1>3, <1>4 DEF Sound
<1> QED  BY <1>2, <1>3, <1>5 DEF c

LEMMA CrashedFacts ==
    ASSUME NEW M, NEW b, Sound(b, M), b.location = NoFolder
    PROVE  LET c == Crashed(b) IN Fine(c, M) /\ Queued(c) = Queued(b) /\ Busy(c) = Busy(b)
<1> DEFINE d == Cleared(b)
           c == Crashed(b)
<1>1. /\ Sound(d, M) /\ d.history = <<>> /\ d.pos = 0
      /\ d.location = b.location /\ Queued(d) = Queued(b) /\ Busy(d) = Busy(b)
  BY ClearedFacts
<1>2. c = [d EXCEPT !.crashed = TRUE, !.astray = NoFolder]
  BY DEF Crashed
<1> HIDE DEF d, c
<1>3. d \in Window
  BY <1>1 DEF Sound
<1>4. /\ c \in Window /\ c.pos = d.pos /\ c.history = d.history
      /\ c.location = d.location /\ c.activity = d.activity
      /\ c.loads = d.loads /\ c.monitor = d.monitor
      /\ c.listed = d.listed /\ c.shown = d.shown /\ c.astray = NoFolder
  BY <1>2, <1>3 DEF Window, Places
<1>5. Queued(c) = Queued(d) /\ Busy(c) = Busy(d)
  BY <1>4 DEF Queued, Busy
<1>6. Sound(c, M)
  BY <1>1, <1>4, <1>5 DEF Sound
<1>7. InPlace(c)
  BY <1>1, <1>4 DEF InPlace
<1> QED  BY <1>1, <1>5, <1>6, <1>7 DEF Fine, c

LEMMA ClearHistoryStep == BInv /\ ClearHistory => BInv'
<1> SUFFICES ASSUME BInv, ClearHistory  PROVE BInv'
  OBVIOUS
<1> DEFINE b == Cleared(browser)
           f == browser.location
           c == AddToHistory(b, f)
           d == WithHistory(b, c.history, c.pos)
           e == Crashed(browser)
<1>1. /\ inputs < MaxInputs /\ inputs' = inputs + 1
      /\ browser' = IF f # NoFolder THEN c ELSE e
      /\ UNCHANGED <<disk, mounted, mounts, queue, flushing, reads>>
  BY DEF ClearHistory, Request, Cleared, Crashed
<1>2. Fine(browser', mounted) /\ Busy(browser') = Busy(browser)
  <2>1. CASE f = NoFolder
    <3>1. browser' = e
      BY <1>1, <2>1
    <3>2. Fine(e, mounted) /\ Busy(e) = Busy(browser)
      BY <2>1, BInvFacts, CrashedFacts
    <3> HIDE DEF e
    <3> QED  BY <3>1, <3>2
  <2>2. CASE f # NoFolder
    <3>1. browser' = c
      BY <1>1, <2>2
    <3>2. f \in Folders
      BY <2>2, BInvFacts, WindowFields DEF Places
    <3>3. /\ Sound(b, mounted) /\ b.history = <<>> /\ b.pos = 0
          /\ b.location = f /\ Queued(b) = Queued(browser) /\ Busy(b) = Busy(browser)
      BY BInvFacts, ClearedFacts
    <3> HIDE DEF b, f
    <3>4. b \in Window /\ IsInjective(b.history) /\ b.pos \in 0..Len(b.history)
      BY <3>3 DEF Sound
    <3>5. /\ c = WithHistory(b, c.history, c.pos)
          /\ c.history \in Seq(Folders) /\ c.pos \in DOMAIN c.history
          /\ IsInjective(c.history) /\ c.history[c.pos] = f
      BY <3>2, <3>4, AddToHistoryFacts
    <3> HIDE DEF c
    <3>6. Sound(d, mounted) /\ InPlace(d) /\ Queued(d) = Queued(b) /\ Busy(d) = Busy(b)
      BY <3>3, <3>5, WithHistoryFacts
    <3> HIDE DEF d
    <3>7. c = d
      BY <3>5 DEF d
    <3> QED  BY <3>1, <3>3, <3>6, <3>7 DEF Fine
  <2> QED  BY <2>1, <2>2
<1> HIDE DEF b, f, c, d, e
<1>3. WindowMoves
  BY <1>1, <1>2, BInvFacts DEF WindowMoves
<1> QED  BY <1>3, WindowMovesStep

LEMMA StopStep == BInv /\ Stop => BInv'
<1> SUFFICES ASSUME BInv, Stop  PROVE BInv'
  OBVIOUS
<1> DEFINE mark(l) == [l EXCEPT !.op = l.at # "free",
                                !.stopped = IF l.at = "free" \/ @ # "no" THEN @
                                            ELSE IF l.at = "query" THEN "late" ELSE "early"]
           L == [i \in Slots |-> mark(browser.loads[i])]
<1>1. /\ inputs < MaxInputs /\ inputs' = inputs + 1 /\ browser' = Marked(browser, L)
      /\ UNCHANGED <<disk, mounted, mounts, queue, flushing, reads>>
  BY DEF Stop, Request, Marked
<1>2. \A l \in Load : /\ mark(l) \in Load /\ mark(l).at = l.at /\ mark(l).folder = l.folder
                      /\ mark(l).action = l.action /\ mark(l).automatic = l.automatic
                      /\ mark(l).current = l.current
  <2> TAKE l \in Load
  <2> DEFINE op == l.at # "free"
             stopped == IF l.at = "free" \/ l.stopped # "no" THEN l.stopped
                        ELSE IF l.at = "query" THEN "late" ELSE "early"
  <2>1. op \in BOOLEAN /\ stopped \in {"no", "early", "late"}
    BY LoadFields
  <2>2. mark(l) = [l EXCEPT !.op = op, !.stopped = stopped]
    OBVIOUS
  <2> HIDE DEF op, stopped, mark
  <2> QED  BY <2>1, <2>2 DEF Load
<1> HIDE DEF mark
<1>3. browser.loads \in [Slots -> Load]
  BY BInvFacts, WindowFields
<1>4. L \in [Slots -> Load] /\ \A j \in Slots : L[j] = mark(browser.loads[j])
  BY <1>2, <1>3
<1> HIDE DEF L
<1>5. Fine(Marked(browser, L), mounted) /\ Busy(Marked(browser, L)) = Busy(browser)
  <2>1. \A j \in Slots : /\ L[j].at = browser.loads[j].at
                         /\ L[j].folder = browser.loads[j].folder
                         /\ L[j].action = browser.loads[j].action
                         /\ L[j].automatic = browser.loads[j].automatic
                         /\ L[j].current = browser.loads[j].current
    BY <1>2, <1>3, <1>4
  <2> QED  BY <1>4, <2>1, BInvFacts, MarkedFacts
<1>6. WindowMoves
  BY <1>1, <1>5, BInvFacts DEF WindowMoves
<1> QED  BY <1>6, WindowMovesStep


LEMMA LoadFailsFacts ==
    ASSUME BInv, NEW i \in Queued(browser), NEW cancelled \in BOOLEAN, LoadFails(i, cancelled),
           UNCHANGED <<disk, mounted, mounts, flushing, reads>>,
           inputs' = inputs \/ (inputs < MaxInputs /\ inputs' = inputs + 1)
    PROVE  WindowMoves
<1> DEFINE c == Fail(browser, i, cancelled)
<1>1. Fine(c, mounted) /\ Busy(c) <= Busy(browser)
  BY BInvFacts, FailFacts
<1>2. browser' = c /\ queue' = queue
  BY DEF LoadFails
<1> HIDE DEF c
<1>3. Busy(browser') <= Busy(browser) + 1
  BY <1>1, <1>2, BusyFacts
<1> QED  BY <1>1, <1>2, <1>3 DEF WindowMoves

LEMMA FolderUnreadableStep == BInv /\ (\E i \in Slots : FolderUnreadable(i)) => BInv'
<1> SUFFICES ASSUME BInv, NEW i \in Slots, FolderUnreadable(i)  PROVE BInv'
  OBVIOUS
<1> DEFINE cancelled == FALSE
<1>1. /\ inputs < MaxInputs /\ inputs' = inputs + 1 /\ i \in Queued(browser)
      /\ LoadFails(i, cancelled) /\ UNCHANGED <<disk, mounted, mounts, flushing, reads>>
  BY DEF FolderUnreadable, Queued
<1>2. cancelled \in BOOLEAN
  OBVIOUS
<1> HIDE DEF cancelled
<1> QED  BY <1>1, <1>2, LoadFailsFacts, WindowMovesStep

LEMMA LoadStepsStep == BInv /\ (\E i \in Slots : LoadStep(i)) => BInv'
<1> SUFFICES ASSUME BInv, NEW i \in Slots, LoadStep(i)  PROVE WindowMoves
  BY WindowMovesStep
<1> DEFINE l == browser.loads[i]
<1>1. UNCHANGED <<disk, mounted, mounts, flushing, reads, inputs>> /\ i \in Queued(browser)
  BY DEF LoadStep, AttributesReady, ListReady, QueryReady, Callback, Queued
<1>2. l \in Load /\ l.at # "free" /\ LoadOK(l, mounted)
  BY <1>1, BInvFacts, LoadFacts
<1>3. ASSUME LoadFails(i, TRUE) \/ LoadFails(i, FALSE)  PROVE WindowMoves
  <2> DEFINE yes == TRUE
             no == FALSE
  <2>1. LoadFails(i, yes) \/ LoadFails(i, no)
    BY <1>3
  <2>2. yes \in BOOLEAN /\ no \in BOOLEAN
    OBVIOUS
  <2> HIDE DEF yes, no
  <2> QED  BY <1>1, <2>1, <2>2, LoadFailsFacts
<1>4. ASSUME NEW children, Continue(i, children)  PROVE WindowMoves
  BY <1>1, <1>4, BInvFacts, ContinueFacts DEF WindowMoves
<1>5. ASSUME NEW next \in Load, next.at # "free", LoadOK(next, mounted),
             browser' = NextStage(browser, i, next), queue' = queue
      PROVE  WindowMoves
  <2> DEFINE c == NextStage(browser, i, next)
  <2>1. Sound(c, mounted) /\ InPlace(c) /\ Busy(c) = Busy(browser)
    BY <1>1, <1>5, BInvFacts, NextStageFacts
  <2>2. browser' = c
    BY <1>5
  <2> HIDE DEF c
  <2> QED  BY <1>1, <1>5, <2>1, <2>2, BInvFacts DEF WindowMoves, Fine
<1>6. CASE AttributesReady(i)
  <2>1. CASE /\ browser' = [browser EXCEPT !.loads[i].at = "listing", !.loads[i].op = FALSE]
             /\ queue' = queue
    <3> DEFINE next == [l EXCEPT !.at = "listing", !.op = FALSE]
    <3>1. /\ next \in Load /\ next.at = "listing" /\ next.folder = l.folder
          /\ next.action = l.action /\ next.automatic = l.automatic
          /\ next.current = l.current
      BY <1>2 DEF Load
    <3>2. browser' = NextStage(browser, i, next)
      <4>1. browser \in Window /\ browser.loads \in [Slots -> Load]
        BY BInvFacts, WindowFields
      <4> QED  BY <2>1, <4>1 DEF NextStage, Window
    <3> HIDE DEF next
    <3>3. next.at # "free" /\ LoadOK(next, mounted)
      BY <1>2, <3>1 DEF LoadOK
    <3> QED  BY <1>5, <2>1, <3>1, <3>2, <3>3
  <2> QED  BY <1>3, <1>6, <2>1 DEF AttributesReady
<1>7. CASE ListReady(i)
  <2> DEFINE children == {x \in disk : Parent(x) = Current(l)}
  <2>1. CASE /\ l.action # "list" /\ Current(l) = l.folder /\ queue' = queue
             /\ browser' = [browser EXCEPT !.loads[i].at = "query", !.loads[i].op = FALSE,
                                           !.loads[i].found = children]
    <3> DEFINE next == [l EXCEPT !.at = "query", !.op = FALSE, !.found = children]
    <3>1. children \in SUBSET Items
      BY DEF BInv
    <3> HIDE DEF children
    <3>2. /\ next \in Load /\ next.at = "query" /\ next.folder = l.folder
          /\ next.action = l.action /\ next.automatic = l.automatic
          /\ next.current = l.current
      BY <1>2, <3>1 DEF Load
    <3>3. browser' = NextStage(browser, i, next)
      <4>1. browser \in Window /\ browser.loads \in [Slots -> Load]
        BY BInvFacts, WindowFields
      <4> QED  BY <2>1, <4>1 DEF NextStage, Window
    <3> HIDE DEF next
    <3>4. next.at # "free" /\ LoadOK(next, mounted)
      BY <1>2, <2>1, <3>2 DEF LoadOK, Current
    <3> QED  BY <1>5, <2>1, <3>2, <3>3, <3>4
  <2> HIDE DEF children
  <2>2. CASE Continue(i, children)
    BY <1>4, <2>2
  <2> QED  BY <1>3, <1>7, <2>1, <2>2 DEF ListReady, children
<1>8. CASE QueryReady(i)
  <2>1. LoadFails(i, TRUE) \/ Continue(i, l.found)
    BY <1>8 DEF QueryReady
  <2> HIDE DEF l
  <2> QED  BY <1>3, <1>4, <2>1
<1> QED  BY <1>6, <1>7, <1>8 DEF LoadStep

\* What can be reached stays so when a volume is mounted.
LEMMA MountKeeps ==
    ASSUME NEW M, NEW N, M \subseteq N, NEW b, Fine(b, M)
    PROVE  Fine(b, N)
<1>1. \A f : Reach(f, M) => Reach(f, N)
  BY DEF Reach
<1> QED  BY <1>1 DEF Fine, Sound, LoadOK

LEMMA MountReadyStep == BInv /\ (\E m \in mounts : MountReady(m)) => BInv'
<1> SUFFICES ASSUME BInv, NEW m \in mounts, MountReady(m)  PROVE BInv'
  OBVIOUS
<1> DEFINE f == m.folder
           root == Path[f][1]
           M == mounted \union {root}
<1>1. /\ mounts' = mounts \ {m}
      /\ UNCHANGED <<disk, queue, flushing, reads, inputs>>
  BY DEF MountReady
<1>2. /\ f \in Folders /\ root \in Volumes /\ m.action \in {"go", "travel"}
      /\ root \in Folders
  <2>1. m \in [folder : Folders, action : {"go", "travel"}] /\ root \in Volumes
    BY DEF BInv
  <2> QED  BY <2>1, PathFacts
<1>3. IsFiniteSet(mounts') /\ Cardinality(mounts') = Cardinality(mounts) - 1
      /\ \A x \in mounts' : /\ x \in [folder : Folders, action : {"go", "travel"}]
                            /\ Path[x.folder][1] \in Volumes
  BY <1>1, FS_RemoveElement DEF BInv
<1>4. /\ Pending' = Pending - 1 /\ Pending \in Nat
      /\ Busy(browser) + Pending <= inputs /\ Busy(browser) \in Nat
  <2>1. Pending' = Cardinality(mounts') + Reports(queue) + Len(flushing)
    BY <1>1 DEF Pending
  <2> QED  BY <1>3, <2>1, BInvFacts DEF Pending
<1>5. ASSUME Fine(browser', mounted'), Busy(browser') <= Busy(browser) + 1,
             mounted' \subseteq Volumes
      PROVE  BInv'
  <2>1. Busy(browser') \in Nat
    BY BusyFacts
  <2>2. Busy(browser') + Pending' <= inputs'
    BY <1>1, <1>4, <1>5, <2>1, BInvFacts
  <2> QED  BY <1>1, <1>3, <1>5, <2>2 DEF BInv, Fine, Busy
<1>6. CASE UNCHANGED <<mounted, browser>>
  <2>1. Fine(browser', mounted') /\ Busy(browser') <= Busy(browser) + 1
        /\ mounted' \subseteq Volumes
    BY <1>4, <1>6, BInvFacts DEF BInv
  <2> QED  BY <1>5, <2>1
<1>7. CASE /\ mounted' = M
           /\ browser' = StartLoad([browser EXCEPT !.shown = @ \union {root}],
                                   f, m.action, FALSE)
  <2> DEFINE b == [browser EXCEPT !.shown = @ \union {root}]
             action == m.action
             automatic == FALSE
             c == StartLoad(b, f, action, automatic)
  <2>1. Redrawn(browser, b)
    <3>1. browser \in Window /\ browser.listed \subseteq browser.shown
      BY BInvFacts DEF Sound
    <3>2. browser.shown \union {root} \in SUBSET Folders
      BY <1>2, <3>1, WindowFields
    <3> DEFINE S == browser.shown \union {root}
    <3>3. browser.listed \subseteq S
      BY <3>1
    <3> HIDE DEF S
    <3> QED  BY <3>1, <3>2, <3>3 DEF Redrawn, Window, S
  <2>2. browser' = c
    BY <1>7
  <2> HIDE DEF b
  <2>3. Fine(browser, M)
    BY BInvFacts, MountKeeps
  <2>4. Reach(f, M) /\ OnVolume(f)
    BY <1>2 DEF Reach, OnVolume
  <2> HIDE DEF M, f
  <2>5. Sound(b, M) /\ InPlace(b) /\ Busy(b) = Busy(browser)
    BY <2>1, <2>3, RedrawnKeeps DEF Fine
  <2>6. action \in Actions /\ action # "list" /\ automatic \in BOOLEAN /\ ~ automatic
    BY <1>2 DEF Actions
  <2>7. Busy(b) < MaxInputs
    <3>1. Pending' \in Nat
      BY <1>1, <1>3, <1>4, BInvFacts, FS_CardinalityType, SMTT(30) DEF Pending
    <3> QED  BY <1>4, <2>5, <3>1, BInvFacts
  <2> HIDE DEF action, automatic
  <2>8. Sound(c, M) /\ InPlace(c) /\ Busy(c) = Busy(b) + 1
    BY <1>2, <2>4, <2>5, <2>6, <2>7, StartLoadFacts DEF f
  <2> HIDE DEF c
  <2>9. mounted' = M /\ mounted' \subseteq Volumes
    BY <1>2, <1>7 DEF M, BInv
  <2>10. Fine(browser', mounted') /\ Busy(browser') <= Busy(browser) + 1
    BY <1>4, <2>2, <2>5, <2>8, <2>9 DEF Fine
  <2> QED  BY <1>5, <2>9, <2>10
<1> QED  BY <1>6, <1>7 DEF MountReady


LEMMA QueueFacts ==
    ASSUME NEW q \in MonitorQueue
    PROVE  /\ q.created \in Seq(Reportable) /\ q.deleted \in Seq(Reportable)
           /\ q.changed \in Seq(Reportable)
           /\ Len(q.created) \in Nat /\ Len(q.deleted) \in Nat /\ Len(q.changed) \in Nat
           /\ Reports(q) \in Nat
<1>1. /\ q.created \in Seq(Reportable) /\ q.deleted \in Seq(Reportable)
      /\ q.changed \in Seq(Reportable)
  BY DEF MonitorQueue
<1>2. Len(q.created) \in Nat /\ Len(q.deleted) \in Nat /\ Len(q.changed) \in Nat
  BY <1>1
<1>3. \A a \in Nat : \A b \in Nat : \A c \in Nat : a + b + c \in Nat
  OBVIOUS
<1> QED  BY <1>1, <1>2, <1>3 DEF Reports

\* An item in front, and no other in its place, makes a list at most one longer.
LEMMA FrontFacts ==
    ASSUME NEW x \in Reportable, NEW s \in Seq(Reportable)
    PROVE  /\ <<x>> \o s \in Seq(Reportable) /\ Len(<<x>> \o s) = Len(s) + 1
           /\ Without(s, x) \in Seq(Reportable) /\ Len(Without(s, x)) <= Len(s)
           /\ Len(Without(s, x)) \in Nat
<1>1. Without(s, x) \in Seq(Reportable) /\ Len(Without(s, x)) <= Len(s)
  BY KeepFacts DEF Without
<1> DEFINE one == <<x>>
<1>2. one \in Seq(Reportable) /\ Len(one) = 1
  OBVIOUS
<1> HIDE DEF one
<1>3. one \o s \in Seq(Reportable) /\ Len(one \o s) = Len(s) + 1
  <2>1. one \o s \in Seq(Reportable) /\ Len(one \o s) = Len(one) + Len(s)
    BY <1>2, ConcatProperties
  <2>2. Len(s) \in Nat
    OBVIOUS
  <2> QED  BY <1>2, <2>1, <2>2
<1>4. Len(Without(s, x)) \in Nat
  BY <1>1
<1> QED  BY <1>1, <1>3, <1>4 DEF one

LEMMA ReportedOnce ==
    ASSUME NEW x \in Reportable, NEW q \in MonitorQueue,
           NEW r \in {Created(q, x), Deleted(q, x), Changed(q, x)}
    PROVE  r \in MonitorQueue /\ Reports(r) <= Reports(q) + 1
<1> DEFINE c == q.created
           d == q.deleted
           g == q.changed
           x_c == <<x>> \o c
           x_d == <<x>> \o d
           x_g == <<x>> \o g
           c_x == Without(c, x)
           d_x == Without(d, x)
           g_x == Without(g, x)
<1>1. /\ c \in Seq(Reportable) /\ d \in Seq(Reportable) /\ g \in Seq(Reportable)
      /\ Len(c) \in Nat /\ Len(d) \in Nat /\ Len(g) \in Nat
  BY QueueFacts
<1>2. /\ x_c \in Seq(Reportable) /\ x_d \in Seq(Reportable) /\ x_g \in Seq(Reportable)
      /\ c_x \in Seq(Reportable) /\ d_x \in Seq(Reportable) /\ g_x \in Seq(Reportable)
  BY <1>1, FrontFacts
<1>3. /\ Len(x_c) = Len(c) + 1 /\ Len(x_d) = Len(d) + 1 /\ Len(x_g) = Len(g) + 1
      /\ Len(c_x) <= Len(c) /\ Len(d_x) <= Len(d) /\ Len(g_x) <= Len(g)
      /\ Len(c_x) \in Nat /\ Len(d_x) \in Nat /\ Len(g_x) \in Nat
  BY <1>1, FrontFacts
<1>4. CASE r = [created |-> c_x, deleted |-> x_d, changed |-> g_x]
  <2>1. r \in MonitorQueue /\ Reports(r) = Len(c_x) + Len(x_d) + Len(g_x)
    <3> HIDE DEF c_x, x_d, g_x
    <3> QED  BY <1>2, <1>4 DEF MonitorQueue, Reports
  <2>2. Reports(q) = Len(c) + Len(d) + Len(g)
    BY DEF Reports
  <2> HIDE DEF c, d, g, c_x, x_d, g_x
  <2> QED  BY <1>1, <1>3, <2>1, <2>2
<1>5. CASE r = [q EXCEPT !.deleted = d_x, !.changed = x_g]
  <2>1. r \in MonitorQueue /\ Reports(r) = Len(c) + Len(d_x) + Len(x_g)
    <3> HIDE DEF d_x, x_g
    <3> QED  BY <1>2, <1>5 DEF MonitorQueue, Reports
  <2>2. Reports(q) = Len(c) + Len(d) + Len(g)
    BY DEF Reports
  <2> HIDE DEF c, d, g, d_x, x_g
  <2> QED  BY <1>1, <1>3, <2>1, <2>2
<1>6. CASE r = [q EXCEPT !.created = x_c]
  <2>1. r \in MonitorQueue /\ Reports(r) = Len(x_c) + Len(d) + Len(g)
    <3> HIDE DEF x_c
    <3> QED  BY <1>2, <1>6 DEF MonitorQueue, Reports
  <2>2. Reports(q) = Len(c) + Len(d) + Len(g)
    BY DEF Reports
  <2> HIDE DEF c, d, g, x_c
  <2> QED  BY <1>1, <1>3, <2>1, <2>2
<1>7. CASE r = [q EXCEPT !.changed = <<x>> \o g_x]
  <2> DEFINE x_g_x == <<x>> \o g_x
  <2>1. x_g_x \in Seq(Reportable) /\ Len(x_g_x) = Len(g_x) + 1
    <3> HIDE DEF g_x
    <3> QED  BY <1>2, FrontFacts
  <2>2. r \in MonitorQueue /\ Reports(r) = Len(c) + Len(d) + Len(x_g_x)
    <3>1. r = [q EXCEPT !.changed = x_g_x]
      BY <1>7
    <3> HIDE DEF x_g_x
    <3> QED  BY <1>2, <2>1, <3>1 DEF MonitorQueue, Reports
  <2>3. Reports(q) = Len(c) + Len(d) + Len(g)
    BY DEF Reports
  <2> HIDE DEF c, d, g, g_x, x_g_x
  <2> QED  BY <1>1, <1>3, <2>1, <2>2, <2>3
<1>8. CASE r = q
  BY <1>8, QueueFacts
<1> QED  BY <1>4, <1>5, <1>6, <1>7, <1>8 DEF Created, Deleted, Changed

LEMMA ContentChangeStep == BInv /\ (\E x \in Items : ContentChange(x)) => BInv'
<1> SUFFICES ASSUME BInv, NEW x \in Items, ContentChange(x)  PROVE BInv'
  OBVIOUS
<1>1. /\ inputs < MaxInputs /\ inputs' = inputs + 1 /\ x \in Reportable
      /\ queue' = Changed(queue, x)
      /\ UNCHANGED <<browser, disk, mounted, mounts, flushing, reads>>
  BY DEF ContentChange, Reportable
<1>2. queue' \in MonitorQueue /\ Reports(queue') <= Reports(queue) + 1 /\ Reports(queue') \in Nat
  BY <1>1, ReportedOnce, QueueFacts DEF BInv
<1>3. Pending' = Cardinality(mounts) + Reports(queue') + Len(flushing)
  BY <1>1 DEF Pending
<1>4. Pending' <= Pending + 1 /\ Pending' \in Nat
  BY <1>2, <1>3, BInvFacts, SMTT(30) DEF Pending
<1>5. Busy(browser') + Pending' <= inputs' /\ inputs' \in 0..MaxInputs
  BY <1>1, <1>4, BInvFacts
<1> QED  BY <1>1, <1>2, <1>5 DEF BInv, Busy

LEMMA DiskChangeStep == BInv /\ (\E x \in Items : DiskChange(x)) => BInv'
<1> SUFFICES ASSUME BInv, NEW x \in Items, DiskChange(x)  PROVE BInv'
  OBVIOUS
<1> DEFINE mark(l) == [l EXCEPT !.missed = IF l.at = "query" /\ l.folder \in {x, Parent(x)}
                                           THEN @ \union {x} ELSE @]
           L == [i \in Slots |-> mark(browser.loads[i])]
           D == IF Watched(x) \/ Loading(browser, browser.location) THEN browser.doubt
                ELSE browser.doubt \union {x}
           b == Marked(browser, L)
           c == WithRows(b, browser.rows, D)
<1>1. /\ inputs < MaxInputs /\ inputs' = inputs + 1 /\ x \in Reportable
      /\ UNCHANGED <<mounted, mounts, flushing, reads>>
      /\ browser' = [browser EXCEPT !.loads = L, !.doubt = D]
      /\ queue' = IF ~ Watched(x) THEN queue
                  ELSE IF x \in disk THEN Deleted(queue, x) ELSE Created(queue, x)
  BY DEF DiskChange, Reportable
<1>2. disk' \subseteq Items
  BY DEF DiskChange, BInv
<1>3. queue' \in MonitorQueue /\ Reports(queue') <= Reports(queue) + 1 /\ Reports(queue') \in Nat
  <2>1. queue \in MonitorQueue
    BY DEF BInv
  <2>2. CASE queue' = queue
    BY <2>1, <2>2, QueueFacts
  <2>3. CASE queue' \in {Created(queue, x), Deleted(queue, x)}
    BY <1>1, <2>1, <2>3, ReportedOnce, QueueFacts
  <2> QED  BY <1>1, <2>2, <2>3
<1>4. \A l \in Load : /\ mark(l) \in Load /\ mark(l).at = l.at /\ mark(l).folder = l.folder
                      /\ mark(l).action = l.action /\ mark(l).automatic = l.automatic
                      /\ mark(l).current = l.current
  <2> TAKE l \in Load
  <2> DEFINE missed == IF l.at = "query" /\ l.folder \in {x, Parent(x)}
                       THEN l.missed \union {x} ELSE l.missed
  <2>1. missed \in SUBSET Items
    BY LoadFields
  <2>2. mark(l) = [l EXCEPT !.missed = missed]
    OBVIOUS
  <2> HIDE DEF missed, mark
  <2> QED  BY <2>1, <2>2 DEF Load
<1> HIDE DEF mark
<1>5. /\ browser \in Window /\ browser.loads \in [Slots -> Load]
      /\ browser.rows \in SUBSET Files /\ browser.doubt \in SUBSET Items
  BY BInvFacts, WindowFields
<1>6. L \in [Slots -> Load] /\ \A j \in Slots : L[j] = mark(browser.loads[j])
  BY <1>4, <1>5
<1>7. D \in SUBSET Items
  BY <1>5
<1> HIDE DEF L, D
<1>8. browser' = c
  <2>1. browser' = [browser EXCEPT !.loads = L, !.doubt = D]
    BY <1>1
  <2>2. b = [browser EXCEPT !.loads = L] /\ b.rows = browser.rows
    BY <1>5 DEF Marked, Window
  <2>3. c = [[browser EXCEPT !.loads = L] EXCEPT !.rows = browser.rows, !.doubt = D]
    BY <2>2 DEF WithRows
  <2> QED  BY <1>5, <2>1, <2>3 DEF Window
<1>9. Fine(b, mounted) /\ Busy(b) = Busy(browser)
  <2>1. \A j \in Slots : /\ L[j].at = browser.loads[j].at
                         /\ L[j].folder = browser.loads[j].folder
                         /\ L[j].action = browser.loads[j].action
                         /\ L[j].automatic = browser.loads[j].automatic
                         /\ L[j].current = browser.loads[j].current
    BY <1>4, <1>5, <1>6
  <2> QED  BY <1>6, <2>1, BInvFacts, MarkedFacts
<1> HIDE DEF b
<1>10. Sound(c, mounted) /\ InPlace(c) /\ Busy(c) = Busy(b)
  <2>1. Redrawn(b, b)
    BY <1>9 DEF Redrawn, Fine, Sound
  <2>2. Redrawn(b, c)
    BY <1>5, <1>7, <2>1, WithRowsFacts
  <2> HIDE DEF c
  <2> QED  BY <1>9, <2>2, RedrawnKeeps DEF Fine
<1> HIDE DEF c
<1>11. Busy(browser') + Pending' <= inputs'
  <2>1. Pending' = Cardinality(mounts) + Reports(queue') + Len(flushing)
    BY <1>1 DEF Pending
  <2>2. Pending' <= Pending + 1 /\ Pending' \in Nat
    BY <1>3, <2>1, BInvFacts, SMTT(30) DEF Pending
  <2>3. Busy(browser') = Busy(browser)
    BY <1>8, <1>9, <1>10
  <2> QED  BY <1>1, <2>2, <2>3, BInvFacts
<1>12. inputs' \in 0..MaxInputs
  BY <1>1, BInvFacts
<1> QED  BY <1>1, <1>2, <1>3, <1>8, <1>10, <1>11, <1>12 DEF BInv, Busy


LEMMA EventsFacts ==
    ASSUME NEW s \in Seq(Reportable), NEW kind \in {"created", "deleted", "changed"}
    PROVE  Events(kind, s) \in Seq(MonitorEvent) /\ Len(Events(kind, s)) = Len(s)
<1>1. /\ DOMAIN s = 1..Len(s) /\ Len(s) \in Nat
      /\ \A k \in 1..Len(s) : s[k] \in Reportable
  OBVIOUS
<1> DEFINE e == Events(kind, s)
<1>2. e = [k \in 1..Len(s) |-> [kind |-> kind, item |-> s[k]]]
  BY <1>1 DEF Events
<1>3. \A k \in 1..Len(s) : [kind |-> kind, item |-> s[k]] \in MonitorEvent
  BY <1>1 DEF MonitorEvent
<1> HIDE DEF e
<1>4. e \in [1..Len(s) -> MonitorEvent]
  BY <1>2, <1>3
<1>5. e \in Seq(MonitorEvent) /\ Len(e) = Len(s)
  BY <1>1, <1>4
<1> QED  BY <1>5 DEF e

LEMMA FlushStep == BInv /\ Flush => BInv'
<1> SUFFICES ASSUME BInv, Flush  PROVE BInv'
  OBVIOUS
<1> DEFINE c == Events("created", queue.created)
           d == Events("deleted", queue.deleted)
           g == Events("changed", queue.changed)
           cd == c \o d
           cdg == cd \o g
<1>1. /\ flushing = <<>> /\ flushing' = cdg /\ queue' = NoEvents
      /\ UNCHANGED <<browser, disk, mounted, mounts, reads, inputs>>
  BY DEF Flush, Quiet
<1>2. /\ queue.created \in Seq(Reportable) /\ queue.deleted \in Seq(Reportable)
      /\ queue.changed \in Seq(Reportable)
      /\ Len(queue.created) \in Nat /\ Len(queue.deleted) \in Nat
      /\ Len(queue.changed) \in Nat
  BY QueueFacts DEF BInv
<1>3. /\ c \in Seq(MonitorEvent) /\ d \in Seq(MonitorEvent) /\ g \in Seq(MonitorEvent)
      /\ Len(c) = Len(queue.created) /\ Len(d) = Len(queue.deleted)
      /\ Len(g) = Len(queue.changed)
  BY <1>2, EventsFacts
<1> HIDE DEF c, d, g
<1>4. cd \in Seq(MonitorEvent) /\ Len(cd) = Len(c) + Len(d)
  BY <1>3, ConcatProperties
<1> HIDE DEF cd
<1>5. cdg \in Seq(MonitorEvent) /\ Len(cdg) = Len(cd) + Len(g)
  BY <1>3, <1>4, ConcatProperties
<1> HIDE DEF cdg
<1>6. Len(flushing') = Reports(queue)
  BY <1>1, <1>3, <1>4, <1>5 DEF Reports
<1>7. NoEvents \in MonitorQueue /\ Reports(NoEvents) = 0
  BY DEF NoEvents, MonitorQueue, Reports
<1>8. Pending' = Cardinality(mounts) + 0 + Reports(queue)
  BY <1>1, <1>6, <1>7 DEF Pending
<1>9. Len(flushing) = 0
  BY <1>1
<1>10. Pending' = Pending
  BY <1>8, <1>9, BInvFacts DEF Pending
<1>11. Busy(browser') + Pending' <= inputs'
  BY <1>1, <1>10, BInvFacts
<1> QED  BY <1>1, <1>5, <1>7, <1>11 DEF BInv, Busy

LEMMA FolderChangedFacts ==
    ASSUME BInv, NEW x \in Reportable, NEW kind \in {"created", "deleted", "changed"},
           FolderChanged(x, kind), Busy(browser) < MaxInputs
    PROVE  /\ Fine(browser', mounted) /\ Busy(browser') <= Busy(browser) + 1
           /\ reads' \subseteq Read
<1> DEFINE hit == x \in Folders /\ x \in Above(browser.location)
           b == IF kind = "deleted" /\ hit THEN StartLoad(browser, Parent(x), "go", TRUE)
                ELSE browser
           updateTree == Parent(x) \in b.listed
           updateList == Parent(x) = b.location \/ (kind # "created" /\ x \in b.rows)
<1>1. /\ Fine(browser, mounted) /\ Busy(browser) \in Nat /\ reads \subseteq Read
      /\ Busy(browser) <= Busy(browser) + 1 /\ browser.location \in Places
  BY BInvFacts, WindowFields DEF BInv
<1>2. CASE browser.location = NoFolder
  BY <1>1, <1>2 DEF FolderChanged
<1>3. ASSUME NEW f \in Folders, Reach(f, mounted)
      PROVE  LET c == StartLoad(browser, f, "go", TRUE)
             IN  Fine(c, mounted) /\ Busy(c) = Busy(browser) + 1
  <2> DEFINE action == "go"
             automatic == TRUE
             c == StartLoad(browser, f, action, automatic)
  <2>1. action \in Actions /\ action = "go" /\ automatic \in BOOLEAN
    BY DEF Actions
  <2> SUFFICES Sound(c, mounted) /\ InPlace(c) /\ Busy(c) = Busy(browser) + 1
    BY DEF Fine
  <2> HIDE DEF action, automatic
  <2> QED  BY <1>3, <2>1, BInvFacts, StartLoadFacts
<1>4. CASE browser.location # NoFolder /\ kind = "changed" /\ hit
  <2> DEFINE f == browser.location
             c == StartLoad(browser, f, "go", TRUE)
  <2>1. f \in Folders /\ Reach(f, mounted)
    BY <1>1, <1>4 DEF Fine, Sound, Places
  <2>2. browser' = c /\ reads' = reads
    BY <1>4 DEF FolderChanged
  <2> HIDE DEF f
  <2>3. Fine(c, mounted) /\ Busy(c) = Busy(browser) + 1
    BY <1>3, <2>1
  <2> HIDE DEF c
  <2> QED  BY <1>1, <2>2, <2>3
<1>5. ASSUME browser.location # NoFolder
      PROVE  Fine(b, mounted) /\ Busy(b) <= Busy(browser) + 1
  <2>1. CASE ~ (kind = "deleted" /\ hit)
    <3>1. b = browser
      BY <2>1
    <3> QED  BY <1>1, <3>1
  <2>2. CASE kind = "deleted" /\ hit
    <3> DEFINE f == Parent(x)
               c == StartLoad(browser, f, "go", TRUE)
    <3>1. x \in Folders /\ x \notin EntryPoints /\ x \in Above(browser.location)
      BY <2>2 DEF Reportable
    <3>2. browser.location \in Folders /\ Reach(browser.location, mounted)
      BY <1>1, <1>5 DEF Fine, Sound, Places
    <3>3. f \in Folders /\ Path[f][1] = Path[browser.location][1]
      BY <3>1, <3>2, ParentFacts, AboveFacts
    <3>4. Reach(f, mounted)
      BY <3>2, <3>3 DEF Reach
    <3>5. b = c
      BY <2>2
    <3> HIDE DEF f
    <3>6. Fine(c, mounted) /\ Busy(c) = Busy(browser) + 1
      BY <1>3, <3>3, <3>4
    <3> HIDE DEF b, c
    <3> QED  BY <1>1, <3>5, <3>6
  <2> QED  BY <2>1, <2>2
<1>6. updateTree \in BOOLEAN /\ updateList \in BOOLEAN
  OBVIOUS
<1>7. CASE browser.location # NoFolder /\ kind = "deleted"
  <2>1. Fine(b, mounted) /\ Busy(b) <= Busy(browser) + 1
    BY <1>5, <1>7
  <2>2. /\ browser' \in {b, RemoveRows(b, Below(x)), [b EXCEPT !.rows = @ \ {x}]}
        /\ reads' = reads
    BY <1>7 DEF FolderChanged
  <2> HIDE DEF b
  <2>3. b \in Window /\ Sound(b, mounted)
    BY <2>1 DEF Fine, Sound
  <2>4. ASSUME Redrawn(b, browser')
        PROVE  Fine(browser', mounted) /\ Busy(browser') = Busy(b)
    BY <2>1, <2>4, RedrawnKeeps DEF Fine
  <2>5. Redrawn(b, b)
    BY <2>3 DEF Redrawn, Sound
  <2>6. Redrawn(b, RemoveRows(b, Below(x)))
    BY <2>3, RemoveRowsFacts
  <2>7. Redrawn(b, [b EXCEPT !.rows = @ \ {x}])
    <3> DEFINE R == b.rows \ {x}
    <3>1. R \in SUBSET Files /\ b.doubt \in SUBSET Items
      BY <2>3, WindowFields
    <3>2. [b EXCEPT !.rows = @ \ {x}] = WithRows(b, R, b.doubt)
      BY <2>3 DEF WithRows, Window
    <3> HIDE DEF R
    <3> QED  BY <2>5, <3>1, <3>2, WithRowsFacts
  <2>8. Fine(browser', mounted) /\ Busy(browser') = Busy(b)
    BY <2>2, <2>4, <2>5, <2>6, <2>7
  <2> QED  BY <1>1, <2>1, <2>2, <2>8
<1>8. CASE browser.location # NoFolder /\ kind # "deleted" /\ ~ (kind = "changed" /\ hit)
  <2> DEFINE r == [item |-> x, kind |-> kind, list |-> updateList, tree |-> updateTree,
                   found |-> FALSE]
  <2>1. browser' = browser /\ reads' \in {reads, reads \union {r}}
    BY <1>8 DEF FolderChanged
  <2>2. r \in Read
    <3> HIDE DEF updateTree, updateList, b
    <3>1. kind \in {"created", "changed"} /\ x \in Items
      BY <1>8 DEF Reportable
    <3> QED  BY <1>6, <3>1 DEF Read
  <2> HIDE DEF r
  <2> QED  BY <1>1, <2>1, <2>2
<1> QED  BY <1>2, <1>4, <1>7, <1>8

LEMMA DeliverStep == BInv /\ Deliver => BInv'
<1> SUFFICES ASSUME BInv, Deliver  PROVE BInv'
  OBVIOUS
<1> DEFINE event == Head(flushing)
           x == event.item
           kind == event.kind
<1>1. /\ flushing # <<>> /\ FolderChanged(x, kind) /\ flushing' = Tail(flushing)
      /\ UNCHANGED <<disk, mounted, mounts, queue, inputs>>
  BY DEF Deliver
<1>2. flushing \in Seq(MonitorEvent)
  BY DEF BInv
<1>3. /\ event \in MonitorEvent /\ Tail(flushing) \in Seq(MonitorEvent)
      /\ Len(Tail(flushing)) = Len(flushing) - 1 /\ Len(flushing) > 0
  BY <1>1, <1>2
<1> HIDE DEF event
<1>4. x \in Reportable /\ kind \in {"created", "deleted", "changed"}
  BY <1>3 DEF MonitorEvent
<1> HIDE DEF x, kind
<1>5. Pending' = Cardinality(mounts) + Reports(queue) + Len(flushing')
  BY <1>1 DEF Pending
<1>6. Pending' = Pending - 1 /\ Pending > 0
  <2>1. Cardinality(mounts) \in Nat /\ Reports(queue) \in Nat /\ Len(flushing) \in Nat
    BY BInvFacts
  <2>2. Len(flushing') = Len(flushing) - 1 /\ Len(flushing) > 0
    BY <1>1, <1>3
  <2>3. Pending = Cardinality(mounts) + Reports(queue) + Len(flushing)
    BY DEF Pending
  <2> QED  BY <1>5, <2>1, <2>2, <2>3
<1>7. Busy(browser) < MaxInputs
  BY <1>6, BInvFacts
<1>8. /\ Fine(browser', mounted) /\ Busy(browser') <= Busy(browser) + 1
      /\ reads' \subseteq Read
  BY <1>1, <1>4, <1>7, FolderChangedFacts
<1>9. Busy(browser') + Pending' <= inputs'
  <2>1. Busy(browser') \in Nat
    BY BusyFacts
  <2>2. /\ Busy(browser) + Pending <= inputs /\ Busy(browser) \in Nat /\ Pending \in Nat
        /\ inputs \in Nat
    BY BInvFacts
  <2>3. inputs' = inputs
    BY <1>1
  <2> QED  BY <1>6, <1>8, <2>1, <2>2, <2>3
<1> QED  BY <1>1, <1>3, <1>8, <1>9 DEF BInv, Busy, Fine


-----------------------------------------------------------------------------
(* The queries of changed files *)

LEMMA ReadAttributesStep == BInv /\ (\E r \in reads : ReadAttributes(r)) => BInv'
<1> SUFFICES ASSUME BInv, NEW r \in reads, ReadAttributes(r)  PROVE BInv'
  OBVIOUS
<1>1. /\ UNCHANGED <<browser, disk, mounted, mounts, queue, flushing, inputs>>
      /\ reads' \subseteq reads \union {[r EXCEPT !.found = TRUE]}
  BY DEF ReadAttributes
<1>2. [r EXCEPT !.found = TRUE] \in Read
  BY DEF BInv, Read
<1>3. reads' \subseteq Read
  BY <1>1, <1>2 DEF BInv
<1>4. Pending' = Pending
  BY <1>1 DEF Pending
<1> QED  BY <1>1, <1>3, <1>4 DEF BInv

LEMMA FileAttributesReadyStep == BInv /\ (\E r \in reads : FileAttributesReady(r)) => BInv'
<1> SUFFICES ASSUME BInv, NEW r \in reads, FileAttributesReady(r)  PROVE BInv'
  OBVIOUS
<1> DEFINE x == r.item
           lost == FolderOf[x] # browser.location
                   \/ (x \notin disk /\ ~ Reported(x, "deleted"))
           R == browser.rows \union {x}
           D == IF lost THEN browser.doubt \union {x} ELSE browser.doubt
           missed == browser.doubt \union ({x} \ browser.rows)
           S == browser.shown \union {x}
<1>1. /\ UNCHANGED <<disk, mounted, mounts, queue, flushing, inputs>>
      /\ reads' = reads \ {r}
  BY DEF FileAttributesReady
<1>2. x \in Items /\ reads' \subseteq Read
  BY <1>1 DEF BInv, Read
<1>3. /\ browser \in Window /\ browser.listed \subseteq browser.shown
      /\ browser.rows \in SUBSET Files /\ browser.doubt \in SUBSET Items
      /\ browser.shown \in SUBSET Folders
  BY BInvFacts, WindowFields DEF Sound
<1>4. Redrawn(browser, browser)
  BY <1>3 DEF Redrawn
<1>5. Redrawn(browser, browser')
  <2>1. \/ browser' = browser
        \/ x \in Folders /\ browser' = [browser EXCEPT !.shown = S]
        \/ x \notin Folders /\ browser' = WithRows(browser, R, D)
        \/ browser' = [browser EXCEPT !.doubt = missed]
    BY <1>3 DEF FileAttributesReady, WithRows, Window
  <2>2. CASE x \in Folders /\ browser' = [browser EXCEPT !.shown = S]
    <3>1. S \in SUBSET Folders /\ browser.listed \subseteq S
      BY <1>3, <2>2
    <3> HIDE DEF S
    <3> QED  BY <1>3, <2>2, <3>1 DEF Redrawn, Window
  <2>3. CASE x \notin Folders /\ browser' = WithRows(browser, R, D)
    <3>1. R \in SUBSET Files /\ D \in SUBSET Items
      BY <1>2, <1>3, <2>3 DEF Items
    <3> HIDE DEF R, D
    <3> QED  BY <1>4, <2>3, <3>1, WithRowsFacts
  <2>4. CASE browser' = [browser EXCEPT !.doubt = missed]
    <3>1. missed \in SUBSET Items
      BY <1>2, <1>3
    <3> HIDE DEF missed
    <3> QED  BY <1>3, <2>4, <3>1 DEF Redrawn, Window
  <2> QED  BY <1>4, <2>1, <2>2, <2>3, <2>4
<1>6. Fine(browser', mounted) /\ Busy(browser') = Busy(browser)
  BY <1>5, BInvFacts, RedrawnKeeps DEF Fine
<1>7. Pending' = Pending
  BY <1>1 DEF Pending
<1> QED  BY <1>1, <1>2, <1>6, <1>7 DEF BInv, Busy, Fine

-----------------------------------------------------------------------------
(* The invariant *)

LEMMA InitBInv == Init => BInv
<1> SUFFICES ASSUME Init  PROVE BInv
  OBVIOUS
<1> DEFINE S == EntryPoints \ Volumes
           L == [i \in Slots |-> FreeLoad]
<1> DEFINE p == IF Saved = <<>> THEN 0 ELSE 1
<1>1. /\ browser = [location |-> NoFolder, history |-> Saved, pos |-> p, monitor |-> NoFolder,
                    rows |-> {}, shown |-> S, listed |-> {}, activity |-> 0,
                    loads |-> L, crashed |-> FALSE, doubt |-> {}, astray |-> NoFolder]
      /\ disk = Disk /\ mounted = {} /\ mounts = {} /\ reads = {}
      /\ queue = NoEvents /\ flushing = <<>> /\ inputs = 0
  BY DEF Init
<1>2. S \in SUBSET Folders
  BY DEF EntryPoints
<1>3. FreeLoad \in Load /\ FreeLoad.at = "free"
  BY DEF FreeLoad, Load, Places
<1>4. L \in [Slots -> Load] /\ \A i \in Slots : L[i].at = "free"
  BY <1>3
<1>12. /\ Saved \in Seq(Folders) /\ IsInjective(Saved)
       /\ p \in 0..Len(Saved) /\ p \in Nat /\ (p = 0 => Saved = <<>>)
  BY LoadAssumption DEF LoadAssumption
<1> HIDE DEF S, L, p
<1>5. browser \in Window
  BY <1>1, <1>2, <1>4, <1>12 DEF Window, Places
<1>6. Queued(browser) = {}
  BY <1>1, <1>4 DEF Queued
<1>7. Cardinality(Queued(browser)) = 0
  BY <1>6, FS_EmptySet
<1>8. Sound(browser, mounted) /\ InPlace(browser)
  <2>1. \A i \in Slots : LoadOK(browser.loads[i], mounted)
    BY <1>1, <1>4 DEF LoadOK
  <2> QED  BY <1>1, <1>5, <1>7, <1>12, <2>1 DEF Sound, InPlace
<1>9. queue \in MonitorQueue /\ Reports(queue) = 0
  BY <1>1 DEF NoEvents, MonitorQueue, Reports
<1>10. IsFiniteSet(mounts) /\ Cardinality(mounts) = 0
  BY <1>1, FS_EmptySet
<1>11. Pending = 0
  BY <1>1, <1>9, <1>10 DEF Pending
<1> QED  BY <1>1, <1>7, <1>8, <1>9, <1>10, <1>11, LoadAssumption DEF BInv, LoadAssumption

LEMMA NextStep == BInv /\ [Next]_lvars => BInv'
<1> SUFFICES ASSUME BInv, [Next]_lvars  PROVE BInv'
  OBVIOUS
<1>1. CASE User
  BY <1>1, GoToStep, ListChildrenStep, TravelStep, ClearHistoryStep, StopStep DEF User
<1>2. CASE \E m \in mounts : MountReady(m)
  BY <1>2, MountReadyStep
<1>3. CASE \E i \in Slots : LoadStep(i) \/ FolderUnreadable(i)
  BY <1>3, LoadStepsStep, FolderUnreadableStep
<1>4. CASE \E x \in Items : DiskChange(x) \/ ContentChange(x)
  BY <1>4, DiskChangeStep, ContentChangeStep
<1>5. CASE Flush \/ Deliver
  BY <1>5, FlushStep, DeliverStep
<1>6. CASE \E r \in reads : ReadAttributes(r) \/ FileAttributesReady(r)
  BY <1>6, ReadAttributesStep, FileAttributesReadyStep
<1>7. CASE UNCHANGED lvars
  <2>1. UNCHANGED <<browser, disk, mounted, mounts, queue, flushing, reads, inputs>>
    BY <1>7 DEF lvars
  <2>2. Pending' = Pending
    BY <2>1 DEF Pending
  <2> QED  BY <2>1, <2>2 DEF BInv
<1> QED  BY <1>1, <1>2, <1>3, <1>4, <1>5, <1>6, <1>7 DEF Next

\* However requests, mounts, loads, stops and reports interleave, the folder that the
\* window is at and those that it loads to show them can be reached, whatever its
\* history remembers; loads that gth-browser.c starts itself enter the history, only a
\* move to a volume parts its current place from the location, and no more loads run
\* than there were occasions for.
THEOREM LoadInvariant == Spec => []BInv
BY InitBInv, NextStep, PTL DEF Spec

\* The private structure of the window keeps its types, gth-browser.c counts exactly the
\* loads that run, so the window is busy as long as one does, and it monitors no folder
\* but its location.
THEOREM LoadTypes == Spec => []LoadTypeOK
<1>1. BInv => LoadTypeOK
  <2> SUFFICES ASSUME BInv  PROVE LoadTypeOK
    OBVIOUS
  <2>1. Sound(browser, mounted) /\ browser \in Window
    BY BInvFacts
  <2> QED  BY <2>1, WindowFields DEF BInv, Sound, LoadTypeOK
<1> QED  BY <1>1, LoadInvariant, PTL

\* The history of gth-browser.c, with what it remembers of the last session, is a path
\* without repetitions.  Its current place is the location, whatever fails or is
\* overtaken, unless a move in the history to a volume that was not mounted came between:
\* then the folder of that move is the place, the location or both.
THEOREM HistoryIsPathHolds == Spec => []HistoryIsPath
<1>1. BInv => HistoryIsPath
  <2> SUFFICES ASSUME BInv  PROVE HistoryIsPath
    OBVIOUS
  <2>1. Sound(browser, mounted) /\ InPlace(browser) /\ browser.history \in Seq(Folders)
    BY BInvFacts, WindowFields
  <2> DEFINE h == browser.history
             p == browser.pos
             place == IF p = 0 THEN NoFolder ELSE h[p]
  <2>2. \A j, k \in DOMAIN h : h[j] = h[k] => j = k
    BY <2>1 DEF Sound, IsInjective
  <2>3. p \in 0..Len(h) /\ (p = 0 => h = <<>>)
    BY <2>1 DEF Sound
  <2>4. p = 0 <=> h = <<>>
    BY <2>1, <2>3
  <2>5. \A f : AtPlace(browser, f) => f = place
    BY <2>1, <2>3 DEF AtPlace
  <2>6. IF browser.astray = NoFolder
        THEN browser.location \in {NoFolder, place}
        ELSE /\ browser.astray \in {browser.location, place}
             /\ Path[browser.astray][1] \in Volumes
    <3> HIDE DEF place
    <3> QED  BY <2>1, <2>5 DEF InPlace, OnVolume
  <2> QED  BY <2>2, <2>4, <2>6 DEF HistoryIsPath
<1> QED  BY <1>1, LoadInvariant, PTL

-----------------------------------------------------------------------------
(***************************************************************************)
(* The list follows the disk.  While nothing loads the location, every      *)
(* item that is not in doubt is accounted for: what is shown and gone will  *)
(* be reported as deleted, what is missing will be added, only files of the *)
(* location are shown, and a file that came back is reported after its      *)
(* deletion.  A load that asks for the last attributes knows the files of   *)
(* its folder, but for those that changed meanwhile.                        *)
(***************************************************************************)
Open(b) == b.location # NoFolder /\ ~ Loading(b, b.location)

QueryOK(l, d) ==
    l.at = "query" =>
        /\ l.folder \in d \union l.missed
        /\ \A x \in Files \ l.missed : x \in l.found <=> x \in d /\ FolderOf[x] = l.folder

QueriesOK(b, d) == \A i \in Slots : QueryOK(b.loads[i], d)

Delivering(e, kind, x) == \E k \in DOMAIN e : e[k] = [kind |-> kind, item |-> x]
Going(q, e, x) == Has(q.deleted, x) \/ Delivering(e, "deleted", x)
Back(q, x) == Has(q.created, x) \/ Has(q.changed, x)
Coming(q, e, r, x) ==
    \/ Back(q, x) \/ Delivering(e, "created", x) \/ Delivering(e, "changed", x)
    \/ \E a \in r : a.item = x /\ a.list

Accounted(b, d, q, e, r, x) ==
    /\ x \in b.rows \union {b.location} /\ x \notin d => Going(q, e, x)
    /\ x \in b.rows => FolderOf[x] = b.location
    /\ x \in Files \ b.rows /\ x \in d /\ FolderOf[x] = b.location => Coming(q, e, r, x)
    /\ x \in Files /\ x \in d => /\ ~ Has(q.deleted, x)
                                 /\ Delivering(e, "deleted", x) => Back(q, x)

AllAccounted(b, d, q, e, r) ==
    Open(b) => \A x \in Items \ b.doubt : Accounted(b, d, q, e, r, x)

Accounting == QueriesOK(browser, disk) /\ AllAccounted(browser, disk, queue, flushing, reads)

\* Nothing that the list depends on changes in the window, but for loads that start.
Shows(b, c) ==
    /\ c.location = b.location /\ c.rows = b.rows /\ c.doubt = b.doubt
    /\ Loading(b, b.location) => Loading(c, b.location)

\* What was accounted for still is, whatever the disk and the monitor did.
Harmless(b, c) ==
    /\ \A d : QueriesOK(b, d) => QueriesOK(c, d)
    /\ \A d, q, e, r : AllAccounted(b, d, q, e, r) => AllAccounted(c, d, q, e, r)

LEMMA ReportedIs ==
    ASSUME NEW x
    PROVE  /\ Reported(x, "deleted") <=> Going(queue, flushing, x)
           /\ Reported(x, "created") \/ Reported(x, "changed") \/ (\E r \in reads : r.item = x /\ r.list)
                <=> Coming(queue, flushing, reads, x)
BY DEF Reported, Going, Coming, Back, Delivering

LEMMA AccountingShows == BInv /\ Accounting => WindowFollowsDisk
<1> SUFFICES ASSUME BInv, Accounting, Open(browser)  PROVE WindowFollowsDisk
  BY DEF WindowFollowsDisk, Open
<1> DEFINE loc == browser.location
<1>1. loc \in Items /\ browser.rows \in SUBSET Files
  BY BInvFacts, WindowFields DEF Open, Places, Items
<1>2. \A x \in Items \ browser.doubt : Accounted(browser, disk, queue, flushing, reads, x)
  BY DEF Accounting, AllAccounted
<1>3. ASSUME NEW x \in Files, x \notin browser.doubt, ~ Awaited(x)
      PROVE  x \in browser.rows <=> x \in disk /\ FolderOf[x] = loc
  <2>1. Accounted(browser, disk, queue, flushing, reads, x)
    BY <1>2, <1>3 DEF Items
  <2>2. ~ Going(queue, flushing, x) /\ ~ Coming(queue, flushing, reads, x)
    BY <1>3, ReportedIs DEF Awaited
  <2> QED  BY <1>3, <2>1, <2>2 DEF Accounted
<1>4. ASSUME loc \notin disk \union browser.doubt
      PROVE  Awaited(loc)
  <2>1. Accounted(browser, disk, queue, flushing, reads, loc)
    BY <1>1, <1>2, <1>4
  <2>2. Going(queue, flushing, loc)
    BY <1>4, <2>1 DEF Accounted
  <2> QED  BY <2>2, ReportedIs DEF Awaited
<1> QED  BY <1>3, <1>4 DEF WindowFollowsDisk

-----------------------------------------------------------------------------
(* What the loads do to the list *)

LEMMA ShowsHarmless ==
    ASSUME NEW b, NEW c, \A d : QueriesOK(b, d) => QueriesOK(c, d), Shows(b, c) \/ ~ Open(c)
    PROVE  Harmless(b, c)
<1> SUFFICES ASSUME NEW d, NEW q, NEW e, NEW r, AllAccounted(b, d, q, e, r), Open(c)
             PROVE  \A x \in Items \ c.doubt : Accounted(c, d, q, e, r, x)
  BY DEF Harmless, AllAccounted
<1>1. c.location = b.location /\ c.rows = b.rows /\ c.doubt = b.doubt /\ Open(b)
  BY DEF Shows, Open
<1>2. \A x \in Items \ c.doubt : Accounted(b, d, q, e, r, x)
  BY <1>1 DEF AllAccounted
<1> QED  BY <1>1, <1>2 DEF Accounted

LEMMA NextFolderKeeps ==
    ASSUME NEW b, NEW l \in Load
    PROVE  LET n == NextFolder(b, l)
           IN  /\ n.folder = l.folder /\ n.action = l.action
               /\ n.at \in {"attributes", "listing"}
<1> DEFINE path == Path[l.folder]
           k == CHOOSE n \in l.current + 1..Len(path) :
                    /\ n = Len(path) \/ path[n] \notin b.listed
                    /\ \A m \in l.current + 1..n - 1 : path[m] \in b.listed
           at == IF l.action # "list" /\ k = Len(path) THEN "attributes" ELSE "listing"
           next == [l EXCEPT !.current = k, !.op = FALSE, !.at = at]
<1>1. NextFolder(b, l) = next
  BY DEF NextFolder
<1>2. at \in {"attributes", "listing"}
  OBVIOUS
<1> HIDE DEF k, at
<1>3. next.folder = l.folder /\ next.action = l.action /\ next.at = at
  BY DEF Load
<1> HIDE DEF next
<1> QED  BY <1>1, <1>2, <1>3

LEMMA SetChildrenShows ==
    ASSUME NEW b \in Window, NEW f, NEW children
    PROVE  LET c == SetChildren(b, f, children)
           IN  /\ c.location = b.location /\ c.rows = b.rows /\ c.doubt = b.doubt
               /\ c.loads = b.loads
<1>1. CASE f \notin b.shown
  BY <1>1 DEF SetChildren
<1>2. CASE f \in b.shown
  <2> DEFINE gone == UNION {Below(g) : g \in {h \in Folders : Parent(h) = f} \ children}
             S == (b.shown \ gone) \union (children \intersect Folders)
             L == (b.listed \ gone) \union {f}
  <2>1. SetChildren(b, f, children) = [b EXCEPT !.shown = S, !.listed = L]
    BY <1>2 DEF SetChildren
  <2> HIDE DEF S, L
  <2> QED  BY <2>1 DEF Window
<1> QED  BY <1>1, <1>2

LEMMA RemoveRowsShows ==
    ASSUME NEW b \in Window, NEW rows
    PROVE  LET c == RemoveRows(b, rows)
           IN  /\ c.location = b.location /\ c.rows = b.rows /\ c.doubt = b.doubt
               /\ c.loads = b.loads
BY DEF RemoveRows, Window

\* a window with the same loads loads the same
LEMMA SameLoads ==
    ASSUME NEW b, NEW c, c.loads = b.loads
    PROVE  /\ Queued(c) = Queued(b)
           /\ \A f : Loading(c, f) <=> Loading(b, f)
           /\ \A d : QueriesOK(c, d) <=> QueriesOK(b, d)
<1>1. Queued(c) = Queued(b)
  BY DEF Queued
<1> QED  BY <1>1 DEF Loading, QueriesOK

\* Slot i is set.
LEMMA SlotShows ==
    ASSUME NEW b \in Window, NEW i \in Slots, NEW l \in Load, NEW n \in Int, l.at # "query"
    PROVE  LET c == WithLoads(b, n, [b.loads EXCEPT ![i] = l])
           IN  /\ c.location = b.location /\ c.rows = b.rows /\ c.doubt = b.doubt
               /\ \A d : QueriesOK(b, d) => QueriesOK(c, d)
               /\ \A f : /\ Loading(b, f) /\ ~ (i \in Queued(b) /\ b.loads[i].folder = f /\ b.loads[i].action # "list")
                              => Loading(c, f)
                         /\ l.at # "free" /\ l.folder = f /\ l.action # "list" => Loading(c, f)
<1> DEFINE L == [b.loads EXCEPT ![i] = l]
           c == WithLoads(b, n, L)
<1>1. L \in [Slots -> Load] /\ L[i] = l /\ \A j \in Slots \ {i} : L[j] = b.loads[j]
  BY WindowFields
<1> HIDE DEF L, c
<1>2. /\ c.loads = L /\ c.location = b.location /\ c.rows = b.rows /\ c.doubt = b.doubt
  BY <1>1, WithLoadsFacts DEF c
<1>3. ASSUME NEW d, QueriesOK(b, d)  PROVE QueriesOK(c, d)
  BY <1>1, <1>2, <1>3 DEF QueriesOK, QueryOK
<1>4. ASSUME NEW f, Loading(b, f), ~ (i \in Queued(b) /\ b.loads[i].folder = f /\ b.loads[i].action # "list")
      PROVE  Loading(c, f)
  <2>1. PICK j \in Queued(b) : b.loads[j].folder = f /\ b.loads[j].action # "list"
    BY <1>4 DEF Loading
  <2>2. j \in Slots /\ j # i /\ c.loads[j] = b.loads[j] /\ b.loads[j].at # "free"
    BY <1>1, <1>2, <1>4, <2>1 DEF Queued
  <2> QED  BY <2>1, <2>2 DEF Loading, Queued
<1>5. ASSUME l.at # "free", l.action # "list"  PROVE Loading(c, l.folder)
  <2>1. i \in Queued(c) /\ c.loads[i] = l
    BY <1>1, <1>2, <1>5 DEF Queued
  <2> QED  BY <1>5, <2>1 DEF Loading
<1> QED  BY <1>2, <1>3, <1>4, <1>5 DEF c, L

LEMMA DoneShows ==
    ASSUME NEW b \in Window, NEW i \in Queued(b)
    PROVE  LET c == Done(b, i)
           IN  /\ c.location = b.location /\ c.rows = b.rows /\ c.doubt = b.doubt
               /\ \A d : QueriesOK(b, d) => QueriesOK(c, d)
               /\ \A f : /\ Loading(b, f) /\ ~ (b.loads[i].folder = f /\ b.loads[i].action # "list")
                              => Loading(c, f)
<1> DEFINE n == b.activity - 1
<1>1. FreeLoad \in Load /\ FreeLoad.at # "query" /\ i \in Slots /\ n \in Int
  BY WindowFields DEF FreeLoad, Load, Places, Queued
<1>2. Done(b, i) = WithLoads(b, n, [b.loads EXCEPT ![i] = FreeLoad])
  BY WindowFields DEF Done, WithLoads, Window
<1> HIDE DEF n
<1> QED  BY <1>1, <1>2, SlotShows

LEMMA StartLoadShows ==
    ASSUME NEW M, NEW b, Sound(b, M), NEW f \in Folders, NEW action \in Actions,
           action # "list" => Reach(f, M),
           NEW automatic \in BOOLEAN, automatic => action = "go", Busy(b) < MaxInputs
    PROVE  LET c == StartLoad(b, f, action, automatic)
           IN  /\ \A d : QueriesOK(b, d) => QueriesOK(c, d)
               /\ action # "list" => ~ Open(c)
               /\ Harmless(b, c)
<1> DEFINE prepared == IF action = "list" THEN LoadingChildren(b, f) ELSE GoneTo(b, f)
           placed == CASE action = "go" -> AddToHistory(prepared, f)
                       [] action = "travel" -> Arrive(prepared, f)
                       [] action = "list" -> prepared
           l == NewLoad(f, action, automatic)
           next == NextFolder(placed, l)
           i == FreeSlot(b)
           n == placed.activity + 1
           c == WithLoads(placed, n, [placed.loads EXCEPT ![i] = next])
<1>0. b \in Window
  BY DEF Sound
<1>1. i \in Slots \ Queued(b)
  BY FreeSlotFacts
<1>2. l \in Load /\ l.folder = f /\ l.action = action
  BY DEF NewLoad, FreeLoad, Load, Places, Actions
<1>3. /\ placed \in Window /\ placed.loads = b.loads
      /\ action # "list" => placed.location = f
      /\ action = "list" => /\ placed.location = b.location /\ placed.rows = b.rows
                            /\ placed.doubt = b.doubt
  <2>1. CASE action = "list"
    <3>1. RemoveRows(b, Below(f) \ {f}) \in Window
      BY RemoveRowsFacts DEF Redrawn
    <3>2. placed = LoadingChildren(b, f)
      BY <2>1
    <3> HIDE DEF placed
    <3> QED  BY <1>0, <2>1, <3>1, <3>2, RemoveRowsShows DEF LoadingChildren
  <2>2. CASE action # "list"
    <3> DEFINE g == GoneTo(b, f)
    <3>1. Sound(g, M) /\ g.location = f
      BY <2>2, GoneToFacts
    <3>2. g.loads = b.loads
      BY <1>0 DEF GoneTo, StopMonitor, Window
    <3>3. g \in Window
      BY <3>1 DEF Sound
    <3>4. prepared = g
      BY <2>2
    <3> HIDE DEF g
    <3>5. CASE placed = Arrive(g, f)
      <4> DEFINE a == IF g.pos \in DOMAIN g.history /\ g.history[g.pos] = f
                      THEN NoFolder ELSE f
      <4> HIDE DEF placed
      <4>1. placed = [g EXCEPT !.astray = a] /\ a \in Places
        BY <3>5 DEF Arrive, Places
      <4> HIDE DEF a
      <4>2. placed \in Window /\ placed.loads = g.loads /\ placed.location = g.location
        BY <3>3, <4>1 DEF Window
      <4> QED  BY <2>2, <3>1, <3>2, <4>2
    <3>6. CASE placed = AddToHistory(g, f)
      <4> DEFINE h == placed.history
                 p == placed.pos
      <4> HIDE DEF placed
      <4>1. IsInjective(g.history) /\ g.pos \in 0..Len(g.history)
        BY <3>1 DEF Sound
      <4>2. placed = WithHistory(g, h, p) /\ h \in Seq(Folders) /\ p \in DOMAIN h
        BY <2>2, <3>3, <3>6, <4>1, AddToHistoryFacts
      <4> HIDE DEF h, p
      <4>3. p \in Nat
        BY <4>2
      <4>4. placed \in Window /\ placed.loads = g.loads /\ placed.location = g.location
        BY <3>3, <4>2, <4>3 DEF WithHistory, Window, Places
      <4> QED  BY <2>2, <3>1, <3>2, <4>4
    <3>7. placed = AddToHistory(g, f) \/ placed = Arrive(g, f)
      BY <2>2, <3>4 DEF Actions
    <3> QED  BY <3>5, <3>6, <3>7
  <2> QED  BY <2>1, <2>2
<1>4. StartLoad(b, f, action, automatic) = c
  <2>1. StartLoad(b, f, action, automatic) = PutLoad(placed, i, next)
    BY DEF StartLoad, GoneTo, PutLoad
  <2> HIDE DEF placed, next, i
  <2> QED  BY <2>1, <1>3 DEF PutLoad, WithLoads, Window
<1> HIDE DEF placed, i
<1>5. /\ next.folder = f /\ next.action = action /\ next.at \in {"attributes", "listing"}
  <2> HIDE DEF l
  <2> QED  BY <1>2, NextFolderKeeps
<1>6. next \in Load
  <2>1. l.current = 0 /\ l.automatic = automatic
    BY DEF NewLoad, FreeLoad
  <2> HIDE DEF l
  <2>2. l.current \in 0..Len(Path[l.folder]) - 1
    BY <1>2, <2>1, PathFacts
  <2> QED  BY <1>2, <2>1, <2>2, NextFolderFacts
<1>7. n \in Int
  BY <1>3, WindowFields
<1> HIDE DEF next, n
<1>8. /\ c.location = placed.location /\ c.rows = placed.rows /\ c.doubt = placed.doubt
      /\ \A d : QueriesOK(placed, d) => QueriesOK(c, d)
      /\ \A h : /\ Loading(placed, h) /\ ~ (i \in Queued(placed) /\ placed.loads[i].folder = h /\ placed.loads[i].action # "list")
                       => Loading(c, h)
                /\ next.at # "free" /\ next.folder = h /\ next.action # "list" => Loading(c, h)
  <2>1. next.at # "query"
    BY <1>5
  <2> QED  BY <1>1, <1>3, <1>6, <1>7, <2>1, SlotShows
<1> HIDE DEF c
<1>9. \A d : QueriesOK(b, d) => QueriesOK(c, d)
  BY <1>3, <1>8, SameLoads
<1>10. ASSUME action # "list"  PROVE ~ Open(c)
  BY <1>3, <1>5, <1>8, <1>10 DEF Open
<1>11. ASSUME action = "list", Loading(b, b.location)  PROVE Loading(c, b.location)
  <2>1. Loading(placed, b.location) /\ i \notin Queued(placed)
    BY <1>1, <1>3, <1>11, SameLoads
  <2> QED  BY <1>8, <2>1
<1>12. action = "list" => Shows(b, c)
  BY <1>3, <1>8, <1>11 DEF Shows
<1> QED  BY <1>4, <1>9, <1>10, <1>12, ShowsHarmless

\* a load ends that does not show the location
LEMMA DoneHarmless ==
    ASSUME NEW b \in Window, NEW i \in Queued(b),
           b.loads[i].folder = b.location => b.loads[i].action = "list"
    PROVE  Harmless(b, Done(b, i))
<1> DEFINE c == Done(b, i)
<1>1. /\ c.location = b.location /\ c.rows = b.rows /\ c.doubt = b.doubt
      /\ \A d : QueriesOK(b, d) => QueriesOK(c, d)
      /\ Loading(b, b.location) => Loading(c, b.location)
  BY DoneShows
<1> HIDE DEF c
<1> QED  BY <1>1, ShowsHarmless DEF c, Shows

LEMMA FailHarmless ==
    ASSUME NEW M, NEW b, Fine(b, M), NEW i \in Queued(b), NEW cancelled \in BOOLEAN
    PROVE  Harmless(b, Fail(b, i, cancelled))
<1> DEFINE l == b.loads[i]
           emptied == SetChildren(b, Current(l), {})
           doubt == emptied.doubt \union Files \union
                        (IF l.folder = b.location THEN {l.folder} ELSE {})
           c == IF l.action = "list" THEN emptied ELSE WithRows(emptied, {}, doubt)
           d == Done(c, i)
<1>0. b \in Window /\ Sound(b, M)
  BY DEF Fine, Sound
<1>1. /\ l.folder \in Folders /\ (l.action # "list" => Reach(l.folder, M))
      /\ Current(l) \in Folders /\ l.action \in Actions /\ l.automatic \in BOOLEAN
      /\ (l.automatic => l.action = "go")
  BY LoadFacts, LoadFields DEF Fine
<1>2. /\ emptied.location = b.location /\ emptied.rows = b.rows /\ emptied.doubt = b.doubt
      /\ emptied.loads = b.loads
  BY <1>0, SetChildrenShows
<1>3. Redrawn(b, emptied)
  BY <1>0, <1>1, SetChildrenFacts
<1> HIDE DEF emptied
<1>4. /\ Redrawn(b, c) /\ c.location = b.location /\ c.loads = b.loads
      /\ IF l.action = "list" THEN c.rows = b.rows /\ c.doubt = b.doubt
         ELSE /\ c.rows = {} /\ Files \subseteq c.doubt /\ b.doubt \subseteq c.doubt
              /\ l.folder = b.location => b.location \in c.doubt
  <2>1. doubt \in SUBSET Items
    <3>1. emptied.doubt \in SUBSET Items
      BY <1>3, WindowFields DEF Redrawn
    <3> QED  BY <1>1, <3>1 DEF Items
  <2>2. {} \in SUBSET Files
    OBVIOUS
  <2>3. /\ Files \subseteq doubt /\ b.doubt \subseteq doubt
        /\ l.folder = b.location => b.location \in doubt
    BY <1>2
  <2> HIDE DEF doubt
  <2>4. CASE l.action = "list"
    BY <1>2, <1>3, <2>4
  <2>5. CASE l.action # "list"
    <3> DEFINE w == WithRows(emptied, {}, doubt)
    <3>1. Redrawn(b, w)
      BY <1>3, <2>1, <2>2, WithRowsFacts
    <3>2. w.rows = {} /\ w.doubt = doubt /\ w.location = emptied.location /\ w.loads = emptied.loads
      BY <1>3 DEF WithRows, Redrawn, Window
    <3>3. c = w
      BY <2>5
    <3> HIDE DEF w, c
    <3> QED  BY <1>2, <2>3, <2>5, <3>1, <3>2, <3>3
  <2> QED  BY <2>4, <2>5
<1>5. Fail(b, i, cancelled) =
          IF ~ cancelled /\ l.automatic /\ Parent(l.folder) # NoFolder
          THEN StartLoad(d, Parent(l.folder), l.action, TRUE)
          ELSE d
  BY DEF Fail, emptied, WithRows
<1> HIDE DEF c
<1>6. Sound(c, M) /\ Queued(c) = Queued(b) /\ Busy(c) = Busy(b) /\ c \in Window
  BY <1>0, <1>4, RedrawnKeeps DEF Redrawn
<1>7. /\ d.location = c.location /\ d.rows = c.rows /\ d.doubt = c.doubt
      /\ \A D : QueriesOK(c, D) => QueriesOK(d, D)
      /\ \A f : /\ Loading(c, f) /\ ~ (c.loads[i].folder = f /\ c.loads[i].action # "list")
                     => Loading(d, f)
  BY <1>6, DoneShows
<1>8. Sound(d, M) /\ Busy(d) = Busy(b) - 1
  BY <1>6, DoneFacts
<1> HIDE DEF d
<1>9. \A D : QueriesOK(b, D) => QueriesOK(d, D)
  BY <1>4, <1>7, SameLoads
<1>10. Harmless(b, d)
  <2>1. CASE l.action = "list"
    <3>1. Loading(b, b.location) => Loading(d, b.location)
      BY <1>4, <1>7, <2>1, SameLoads
    <3>2. Shows(b, d)
      BY <1>4, <1>7, <2>1, <3>1 DEF Shows
    <3> QED  BY <1>9, <3>2, ShowsHarmless
  <2>2. CASE l.action # "list"
    <3>1. /\ d.rows = {} /\ Files \subseteq d.doubt /\ b.doubt \subseteq d.doubt
          /\ d.location = b.location /\ (l.folder = b.location => b.location \in d.doubt)
      BY <1>4, <1>7, <2>2
    <3>2. l.folder # b.location /\ Loading(b, b.location) => Loading(d, b.location)
      BY <1>4, <1>7, SameLoads
    <3>3. ASSUME NEW D, NEW q, NEW e, NEW r, AllAccounted(b, D, q, e, r)
          PROVE  AllAccounted(d, D, q, e, r)
      <4> SUFFICES ASSUME Open(d), NEW x \in Items \ d.doubt
                   PROVE  Accounted(d, D, q, e, r, x)
        BY DEF AllAccounted
      <4>1. x \notin Files /\ x \notin b.doubt
        BY <3>1
      <4>2. ASSUME x = b.location  PROVE Accounted(b, D, q, e, r, x)
        <5>1. Open(b)
          BY <3>1, <3>2, <4>2 DEF Open
        <5> QED  BY <3>3, <4>1, <5>1 DEF AllAccounted
      <4> QED  BY <3>1, <4>1, <4>2 DEF Accounted
    <3> QED  BY <1>9, <3>3 DEF Harmless
  <2> QED  BY <2>1, <2>2
<1>11. CASE ~ (~ cancelled /\ l.automatic /\ Parent(l.folder) # NoFolder)
  <2>1. Fail(b, i, cancelled) = d
    BY <1>5, <1>11, Zenon
  <2> QED  BY <1>10, <2>1
<1>12. CASE ~ cancelled /\ l.automatic /\ Parent(l.folder) # NoFolder
  <2> DEFINE f == Parent(l.folder)
             automatic == TRUE
             action == "go"
             e == StartLoad(d, f, action, automatic)
  <2>1. f \in Folders /\ Reach(f, M)
    BY <1>1, <1>12, ParentFacts DEF Reach
  <2>2. Fail(b, i, cancelled) = e
    BY <1>1, <1>5, <1>12
  <2>3. action \in Actions /\ action = "go" /\ automatic \in BOOLEAN /\ action # "list"
    BY DEF Actions
  <2>4. Busy(d) < MaxInputs
    BY <1>8, BusyFacts, LoadAssumption DEF LoadAssumption
  <2> HIDE DEF f, automatic, action
  <2>5. (\A D : QueriesOK(d, D) => QueriesOK(e, D)) /\ ~ Open(e)
    BY <1>8, <2>1, <2>3, <2>4, StartLoadShows
  <2> HIDE DEF e
  <2> QED  BY <1>9, <2>2, <2>5, ShowsHarmless
<1> QED  BY <1>11, <1>12

\* the files of the location are shown
LEMMA ShowAccounts ==
    ASSUME NEW M, NEW b, Fine(b, M), NEW i \in Queued(b), NEW d, QueriesOK(b, d),
           b.loads[i].at = "query", b.loads[i].folder = b.location, NEW r
    PROVE  LET c == Show(b, i)
           IN  QueriesOK(c, d) /\ AllAccounted(c, d, NoEvents, <<>>, r)
<1> DEFINE l == b.loads[i]
           s == SetChildren(b, l.folder, l.found)
           n == Done(s, i)
           c == Show(b, i)
<1>0. b \in Window /\ Sound(b, M) /\ i \in Slots
  BY DEF Fine, Sound, Queued
<1>1. l.folder \in Folders /\ l.found \in SUBSET Items /\ l.missed \in SUBSET Items
  BY LoadFacts, LoadFields DEF Fine
<1>2. s.location = b.location /\ s.loads = b.loads
  BY <1>0, SetChildrenShows
<1>3. s \in Window /\ Queued(s) = Queued(b) /\ Sound(s, M)
  BY <1>0, <1>1, SetChildrenFacts, RedrawnKeeps DEF Redrawn
<1>4. c = [n EXCEPT !.rows = l.found \intersect Files, !.monitor = b.location, !.doubt = l.missed]
  BY DEF Show
<1> HIDE DEF s, c
<1>5. /\ n.location = s.location
      /\ \A D : QueriesOK(s, D) => QueriesOK(n, D)
  BY <1>3, DoneShows
<1>6. n \in Window
  BY <1>3, DoneFacts DEF Sound
<1> HIDE DEF n
<1>7. /\ c.location = b.location /\ c.loads = n.loads
      /\ c.rows = l.found \intersect Files /\ c.doubt = l.missed
  BY <1>2, <1>4, <1>5, <1>6 DEF Window
<1>8. QueriesOK(c, d)
  BY <1>2, <1>5, <1>7, SameLoads
<1>9. /\ l.folder \in d \union l.missed
      /\ \A x \in Files \ l.missed : x \in l.found <=> x \in d /\ FolderOf[x] = l.folder
  BY <1>0 DEF QueriesOK, QueryOK
<1>10. ASSUME NEW x \in Items \ c.doubt  PROVE Accounted(c, d, NoEvents, <<>>, r, x)
  <2>1. ~ Has(NoEvents.deleted, x) /\ ~ Delivering(<<>>, "deleted", x)
    BY DEF NoEvents, Has, Delivering
  <2>2. x \in c.rows => x \in Files /\ x \in d /\ FolderOf[x] = b.location
    BY <1>7, <1>9, <1>10
  <2>3. x \in Files \ c.rows /\ x \in d => FolderOf[x] # b.location
    BY <1>7, <1>9, <1>10
  <2>4. x = b.location => x \in d
    BY <1>7, <1>9, <1>10
  <2> QED  BY <1>7, <2>1, <2>2, <2>3, <2>4 DEF Accounted
<1> QED  BY <1>8, <1>10 DEF c, AllAccounted

\* The list is not disturbed by a step of the window that is harmless.
LEMMA HarmlessStep ==
    ASSUME Accounting, UNCHANGED <<disk, queue, flushing, reads>>, Harmless(browser, browser')
    PROVE  Accounting'
<1>1. /\ QueriesOK(browser', disk)
      /\ AllAccounted(browser', disk, queue, flushing, reads)
  BY DEF Accounting, Harmless
<1> QED  BY <1>1 DEF Accounting

\* A load that goes on in its slot.
LEMMA NextStageShows ==
    ASSUME NEW b \in Window, NEW i \in Queued(b), NEW l \in Load,
           l.at # "free", l.folder = b.loads[i].folder, l.action = b.loads[i].action
    PROVE  LET c == NextStage(b, i, l)
           IN  /\ Shows(b, c)
               /\ \A d : QueriesOK(b, d) /\ QueryOK(l, d) => QueriesOK(c, d)
<1> DEFINE c == NextStage(b, i, l)
           L == [b.loads EXCEPT ![i] = l]
<1>1. i \in Slots /\ b.loads \in [Slots -> Load]
  BY WindowFields DEF Queued
<1>2. L \in [Slots -> Load] /\ L[i] = l /\ \A j \in Slots \ {i} : L[j] = b.loads[j]
  BY <1>1
<1>3. c = [b EXCEPT !.loads = L]
  BY DEF NextStage
<1> HIDE DEF L, c
<1>4. c.loads = L /\ c.location = b.location /\ c.rows = b.rows /\ c.doubt = b.doubt
  BY <1>3 DEF Window
<1>5. ASSUME Loading(b, b.location)  PROVE Loading(c, b.location)
  <2>1. PICK j \in Queued(b) : b.loads[j].folder = b.location /\ b.loads[j].action # "list"
    BY <1>5 DEF Loading
  <2>2. /\ j \in Slots /\ c.loads[j].at # "free"
        /\ c.loads[j].folder = b.location /\ c.loads[j].action # "list"
    BY <1>2, <1>4, <2>1 DEF Queued
  <2> QED  BY <2>2 DEF Loading, Queued
<1>6. ASSUME NEW d, QueriesOK(b, d), QueryOK(l, d)  PROVE QueriesOK(c, d)
  BY <1>2, <1>4, <1>6 DEF QueriesOK
<1> QED  BY <1>4, <1>5, <1>6 DEF c, Shows

\* What the end of an operation does: it goes on, or the files are shown.
LEMMA ContinueHarmless ==
    ASSUME BInv, NEW i \in Queued(browser), NEW children, Continue(i, children),
           LET l == browser.loads[i]
           IN  l.at = "query" \/ l.action = "list" \/ Current(l) # l.folder
    PROVE  \/ Harmless(browser, browser') /\ queue' = queue
           \/ /\ browser' = Show(browser, i) /\ queue' = NoEvents
              /\ browser.loads[i].at = "query"
              /\ browser.loads[i].folder = browser.location
<1> DEFINE l == browser.loads[i]
<1>0. browser \in Window /\ Sound(browser, mounted)
  BY BInvFacts
<1>1. CASE l.action # "list" /\ l.folder # browser.location
  <2>1. browser' = Done(browser, i) /\ queue' = queue
    BY <1>1 DEF Continue
  <2> QED  BY <1>0, <1>1, <2>1, DoneHarmless
<1>2. CASE /\ ~ (l.action # "list" /\ l.folder # browser.location)
           /\ Current(l) # l.folder
  <2> DEFINE c == SetChildren(browser, Current(l), children)
             next == NextFolder(c, l)
             e == NextStage(c, i, next)
  <2>1. /\ Current(l) \in Folders /\ l \in Load /\ l.folder \in Folders
        /\ (l.action # "list" => Reach(l.folder, mounted))
        /\ l.current \in 0..Len(Path[l.folder]) - 1
        /\ (l.automatic => l.action = "go")
    BY <1>0, <1>2, LoadFacts
  <2>2. browser' = e /\ queue' = queue
    BY <1>2 DEF Continue, NextStage
  <2>3. Redrawn(browser, c)
    BY <1>0, <2>1, SetChildrenFacts
  <2>4. /\ c.location = browser.location /\ c.rows = browser.rows /\ c.doubt = browser.doubt
        /\ c.loads = browser.loads
    BY <1>0, SetChildrenShows
  <2> HIDE DEF c
  <2>5. c \in Window /\ Queued(c) = Queued(browser)
    BY <1>0, <2>3, RedrawnKeeps DEF Redrawn
  <2>6. next \in Load /\ next.at # "free"
    <3> HIDE DEF l
    <3> QED  BY <2>1, NextFolderFacts
  <2>7. next.folder = l.folder /\ next.action = l.action /\ next.at \in {"attributes", "listing"}
    <3> HIDE DEF l
    <3> QED  BY <2>1, NextFolderKeeps
  <2> HIDE DEF next
  <2>8. \A d : QueryOK(next, d)
    BY <2>7 DEF QueryOK
  <2>9. Shows(c, e) /\ \A d : QueriesOK(c, d) /\ QueryOK(next, d) => QueriesOK(e, d)
    BY <2>4, <2>5, <2>6, <2>7, NextStageShows
  <2> HIDE DEF e
  <2>10. \A d : QueriesOK(browser, d) => QueriesOK(e, d)
    BY <2>4, <2>8, <2>9, SameLoads
  <2>11. Shows(browser, e)
    BY <2>4, <2>9, SameLoads DEF Shows
  <2> QED  BY <2>2, <2>10, <2>11, ShowsHarmless
<1>3. CASE l.action = "list" /\ Current(l) = l.folder
  <2> DEFINE s == SetChildren(browser, l.folder, children)
             e == Done(s, i)
  <2>1. browser' = e /\ queue' = queue
    BY <1>3 DEF Continue
  <2>2. Redrawn(browser, s)
    BY <1>0, LoadFacts, SetChildrenFacts
  <2>3. /\ s.location = browser.location /\ s.rows = browser.rows /\ s.doubt = browser.doubt
        /\ s.loads = browser.loads
    BY <1>0, SetChildrenShows
  <2> HIDE DEF s
  <2>4. s \in Window /\ Queued(s) = Queued(browser)
    BY <1>0, <2>2, RedrawnKeeps DEF Redrawn
  <2>5. /\ e.location = s.location /\ e.rows = s.rows /\ e.doubt = s.doubt
        /\ \A d : QueriesOK(s, d) => QueriesOK(e, d)
        /\ \A f : /\ Loading(s, f) /\ ~ (s.loads[i].folder = f /\ s.loads[i].action # "list")
                       => Loading(e, f)
    BY <2>4, DoneShows
  <2> HIDE DEF e
  <2>6. \A d : QueriesOK(browser, d) => QueriesOK(e, d)
    BY <2>3, <2>5, SameLoads
  <2>7. Shows(browser, e)
    BY <1>3, <2>3, <2>5, SameLoads DEF Shows
  <2> QED  BY <2>1, <2>6, <2>7, ShowsHarmless
<1>4. CASE /\ l.action # "list" /\ l.folder = browser.location /\ Current(l) = l.folder
  BY <1>4 DEF Continue
<1> QED  BY <1>1, <1>2, <1>3, <1>4

LEMMA LoadStepsAccount == BInv /\ Accounting /\ (\E i \in Slots : LoadStep(i)) => Accounting'
<1> SUFFICES ASSUME BInv, Accounting, NEW i \in Slots, LoadStep(i)  PROVE Accounting'
  OBVIOUS
<1> DEFINE l == browser.loads[i]
<1>1. UNCHANGED <<disk, mounted, mounts, flushing, reads, inputs>> /\ i \in Queued(browser)
      /\ flushing = <<>>
  BY DEF LoadStep, AttributesReady, ListReady, QueryReady, Callback, Queued, Quiet
<1>2. browser \in Window /\ browser.loads \in [Slots -> Load] /\ l \in Load /\ LoadOK(l, mounted)
      /\ Fine(browser, mounted) /\ l.at # "free"
  BY <1>1, BInvFacts, WindowFields, LoadFacts
<1>3. ASSUME LoadFails(i, TRUE) \/ LoadFails(i, FALSE)  PROVE Accounting'
  <2> DEFINE yes == TRUE
             no == FALSE
  <2>1. LoadFails(i, yes) \/ LoadFails(i, no)
    BY <1>3
  <2>2. yes \in BOOLEAN /\ no \in BOOLEAN
    OBVIOUS
  <2> HIDE DEF yes, no
  <2>3. PICK cancelled \in BOOLEAN : LoadFails(i, cancelled)
    BY <2>1, <2>2
  <2>4. Harmless(browser, browser') /\ queue' = queue
    BY <1>1, <1>2, <2>3, FailHarmless DEF LoadFails
  <2> QED  BY <1>1, <2>4, HarmlessStep
<1>4. ASSUME NEW children, Continue(i, children),
             l.at = "query" \/ l.action = "list" \/ Current(l) # l.folder
      PROVE  Accounting'
  <2>1. CASE Harmless(browser, browser') /\ queue' = queue
    BY <1>1, <2>1, HarmlessStep
  <2>2. CASE /\ browser' = Show(browser, i) /\ queue' = NoEvents /\ l.at = "query"
             /\ l.folder = browser.location
    <3> DEFINE c == Show(browser, i)
    <3>1. QueriesOK(browser, disk)
      BY DEF Accounting
    <3>2. QueriesOK(c, disk) /\ AllAccounted(c, disk, NoEvents, <<>>, reads)
      BY <1>1, <1>2, <2>2, <3>1, ShowAccounts
    <3>3. browser' = c
      BY <2>2
    <3> HIDE DEF c
    <3> QED  BY <1>1, <2>2, <3>2, <3>3 DEF Accounting
  <2> QED  BY <1>1, <1>4, <2>1, <2>2, ContinueHarmless
<1>5. ASSUME NEW next \in Load, next.at # "free", next.folder = l.folder,
             next.action = l.action, QueryOK(next, disk),
             browser' = NextStage(browser, i, next), queue' = queue
      PROVE  Accounting'
  <2> DEFINE c == NextStage(browser, i, next)
  <2>1. Shows(browser, c) /\ (QueriesOK(browser, disk) => QueriesOK(c, disk))
    BY <1>1, <1>2, <1>5, NextStageShows
  <2>2. browser' = c
    BY <1>5
  <2> HIDE DEF c
  <2>3. ASSUME Open(c)  PROVE Open(browser)
    BY <2>1, <2>3 DEF Open, Shows
  <2>4. AllAccounted(c, disk, queue, flushing, reads)
    <3> SUFFICES ASSUME Open(c), NEW x \in Items \ c.doubt
                 PROVE  Accounted(c, disk, queue, flushing, reads, x)
      BY DEF AllAccounted
    <3>1. Accounted(browser, disk, queue, flushing, reads, x)
      BY <2>1, <2>3 DEF Accounting, AllAccounted, Shows
    <3> QED  BY <2>1, <3>1 DEF Accounted, Shows
  <2> QED  BY <1>1, <1>5, <2>1, <2>2, <2>4 DEF Accounting
<1>6. CASE AttributesReady(i)
  <2>1. CASE /\ browser' = [browser EXCEPT !.loads[i].at = "listing", !.loads[i].op = FALSE]
             /\ queue' = queue
    <3> DEFINE next == [l EXCEPT !.at = "listing", !.op = FALSE]
    <3>1. /\ next \in Load /\ next.at = "listing" /\ next.folder = l.folder
          /\ next.action = l.action
      BY <1>2 DEF Load
    <3>2. browser' = NextStage(browser, i, next)
      BY <2>1, <1>2 DEF NextStage, Window
    <3> HIDE DEF next
    <3>3. next.at # "free" /\ QueryOK(next, disk)
      BY <3>1 DEF QueryOK
    <3> QED  BY <1>5, <2>1, <3>1, <3>2, <3>3
  <2> QED  BY <1>3, <1>6, <2>1 DEF AttributesReady
<1>7. CASE ListReady(i)
  <2> DEFINE children == {x \in disk : Parent(x) = Current(l)}
  <2>1. CASE /\ l.action # "list" /\ Current(l) = l.folder /\ queue' = queue
             /\ Current(l) \in disk
             /\ browser' = [browser EXCEPT !.loads[i].at = "query", !.loads[i].op = FALSE,
                                           !.loads[i].found = children]
    <3> DEFINE next == [l EXCEPT !.at = "query", !.op = FALSE, !.found = children]
    <3>1. children \in SUBSET Items
      BY DEF BInv
    <3>2. \A x \in Files : x \in children <=> x \in disk /\ FolderOf[x] = l.folder
      BY <2>1 DEF Parent
    <3> HIDE DEF children
    <3>3. /\ next \in Load /\ next.at = "query" /\ next.folder = l.folder
          /\ next.action = l.action /\ next.found = children
      BY <1>2, <3>1 DEF Load
    <3>4. browser' = NextStage(browser, i, next)
      BY <2>1, <1>2 DEF NextStage, Window
    <3> HIDE DEF next
    <3>5. next.at # "free" /\ QueryOK(next, disk)
      BY <2>1, <3>2, <3>3 DEF QueryOK
    <3> QED  BY <1>5, <2>1, <3>3, <3>4, <3>5
  <2> HIDE DEF children
  <2>2. CASE Continue(i, children) /\ ~ (l.action # "list" /\ Current(l) = l.folder)
    BY <1>4, <2>2
  <2> QED  BY <1>3, <1>7, <2>1, <2>2 DEF ListReady, children
<1>8. CASE QueryReady(i)
  <2>1. LoadFails(i, TRUE) \/ Continue(i, l.found)
    BY <1>8 DEF QueryReady
  <2>2. l.at = "query"
    BY <1>8 DEF QueryReady, Callback
  <2> HIDE DEF l
  <2> QED  BY <1>3, <1>4, <2>1, <2>2
<1> QED  BY <1>6, <1>7, <1>8 DEF LoadStep

LEMMA FolderUnreadableAccounts ==
    BInv /\ Accounting /\ (\E i \in Slots : FolderUnreadable(i)) => Accounting'
<1> SUFFICES ASSUME BInv, Accounting, NEW i \in Slots, FolderUnreadable(i)  PROVE Accounting'
  OBVIOUS
<1> DEFINE cancelled == FALSE
           c == Fail(browser, i, cancelled)
<1>1. /\ i \in Queued(browser) /\ browser' = c
      /\ UNCHANGED <<disk, queue, flushing, reads>>
  BY DEF FolderUnreadable, LoadFails, Queued
<1>2. cancelled \in BOOLEAN /\ Fine(browser, mounted)
  BY BInvFacts
<1> HIDE DEF cancelled
<1>3. Harmless(browser, c)
  BY <1>1, <1>2, FailHarmless
<1> HIDE DEF c
<1> QED  BY <1>1, <1>3, HarmlessStep

\* The window is the same but for what the list does not depend on.
LEMMA SameHarmless ==
    ASSUME NEW b, NEW c, c.loads = b.loads, c.location = b.location, c.rows = b.rows,
           c.doubt = b.doubt
    PROVE  Harmless(b, c)
BY SameLoads, ShowsHarmless DEF Shows

\* The list may lag behind a window that goes to a folder or waits for its volume.
LEMMA LoadLocationHarmless ==
    ASSUME NEW b, Sound(b, mounted), Busy(b) < MaxInputs, NEW f \in Folders,
           NEW action \in {"go", "travel"}, LoadLocation(b, f, action)
    PROVE  Harmless(b, browser')
<1>1. CASE Mounted(f)
  <2> DEFINE automatic == FALSE
  <2>1. browser' = StartLoad(b, f, action, automatic)
    BY <1>1 DEF LoadLocation
  <2>2. Reach(f, mounted) /\ action \in Actions /\ automatic \in BOOLEAN /\ ~ automatic
    BY <1>1 DEF Mounted, Reach, Actions
  <2> HIDE DEF automatic
  <2> QED  BY <2>1, <2>2, StartLoadShows
<1>2. CASE ~ Mounted(f)
  <2> DEFINE s == StopMonitor(b)
             a == IF action = "travel" THEN f ELSE s.astray
             c == WithAstray(s, a)
  <2>1. browser' = c
    BY <1>2 DEF LoadLocation, WithAstray
  <2>2. b \in Window
    BY DEF Sound
  <2>3. s.loads = b.loads /\ s.location = b.location /\ s.rows = b.rows /\ s.doubt = b.doubt
    BY <2>2 DEF StopMonitor, Window
  <2>4. s \in Window
    BY StopMonitorFacts DEF Sound
  <2> HIDE DEF s, a
  <2>5. c.loads = s.loads /\ c.location = s.location /\ c.rows = s.rows /\ c.doubt = s.doubt
    BY <2>4 DEF WithAstray, Window
  <2> HIDE DEF c
  <2> QED  BY <2>1, <2>3, <2>5, SameHarmless
<1> QED  BY <1>1, <1>2

LEMMA GoToAccounts == BInv /\ Accounting /\ (\E f \in Folders : GoTo(f)) => Accounting'
<1> SUFFICES ASSUME BInv, Accounting, NEW f \in Folders, GoTo(f)  PROVE Accounting'
  OBVIOUS
<1> DEFINE action == "go"
<1>1. /\ inputs < MaxInputs /\ UNCHANGED <<disk, mounted, queue, flushing, reads>>
      /\ LoadLocation(browser, f, action)
  BY DEF GoTo, Request
<1>2. action \in {"go", "travel"}
  OBVIOUS
<1> HIDE DEF action
<1>3. Busy(browser) < MaxInputs /\ Sound(browser, mounted)
  BY <1>1, BInvFacts
<1>4. Harmless(browser, browser')
  BY <1>1, <1>2, <1>3, LoadLocationHarmless
<1> QED  BY <1>1, <1>4, HarmlessStep

LEMMA TravelAccounts ==
    BInv /\ Accounting /\ (\E k \in DOMAIN browser.history : Travel(k)) => Accounting'
<1> SUFFICES ASSUME BInv, Accounting, NEW k \in DOMAIN browser.history, Travel(k)
             PROVE  Accounting'
  OBVIOUS
<1> DEFINE b == MovedTo(browser, k)
           f == browser.history[k]
           action == "travel"
<1>1. /\ inputs < MaxInputs /\ UNCHANGED <<disk, mounted, queue, flushing, reads>>
      /\ LoadLocation(b, f, action)
  BY DEF Travel, Request, MovedTo
<1>2. /\ f \in Folders /\ k \in Nat /\ k # 0 /\ k \in 0..Len(browser.history)
      /\ browser \in Window
  <2>1. browser.history \in Seq(Folders) /\ browser \in Window
    BY BInvFacts, WindowFields
  <2> QED  BY <2>1
<1>4. /\ b \in Window /\ b.pos = k /\ b.history = browser.history
      /\ b.location = browser.location /\ b.activity = browser.activity
      /\ b.loads = browser.loads /\ b.monitor = browser.monitor
      /\ b.listed = browser.listed /\ b.shown = browser.shown
      /\ b.rows = browser.rows /\ b.doubt = browser.doubt
  BY <1>2 DEF MovedTo, Window
<1> HIDE DEF b
<1>5. Queued(b) = Queued(browser) /\ Busy(b) = Busy(browser)
  BY <1>4 DEF Queued, Busy
<1>6. Sound(b, mounted)
  BY <1>2, <1>4, <1>5, BInvFacts DEF Sound
<1>7. Busy(b) < MaxInputs
  BY <1>1, <1>5, BInvFacts
<1>8. action \in {"go", "travel"}
  OBVIOUS
<1> HIDE DEF f, action
<1>9. Harmless(b, browser')
  BY <1>1, <1>2, <1>6, <1>7, <1>8, LoadLocationHarmless
<1>10. Harmless(browser, b)
  BY <1>4, SameHarmless
<1>11. Harmless(browser, browser')
  BY <1>9, <1>10 DEF Harmless
<1> QED  BY <1>1, <1>11, HarmlessStep

LEMMA ListChildrenAccounts ==
    BInv /\ Accounting /\ (\E f \in Folders : ListChildren(f)) => Accounting'
<1> SUFFICES ASSUME BInv, Accounting, NEW f \in Folders, ListChildren(f)  PROVE Accounting'
  OBVIOUS
<1> DEFINE action == "list"
           automatic == FALSE
<1>1. /\ inputs < MaxInputs /\ browser' = StartLoad(browser, f, action, automatic)
      /\ UNCHANGED <<disk, queue, flushing, reads>>
  BY DEF ListChildren, Request
<1>2. action \in Actions /\ action = "list" /\ automatic \in BOOLEAN /\ ~ automatic
  BY DEF Actions
<1>3. Busy(browser) < MaxInputs /\ Sound(browser, mounted)
  BY <1>1, BInvFacts
<1> HIDE DEF action, automatic
<1>4. Harmless(browser, browser')
  BY <1>1, <1>2, <1>3, StartLoadShows
<1> QED  BY <1>1, <1>4, HarmlessStep

LEMMA ClearHistoryAccounts == BInv /\ Accounting /\ ClearHistory => Accounting'
<1> SUFFICES ASSUME BInv, Accounting, ClearHistory  PROVE Accounting'
  OBVIOUS
<1> DEFINE b == Cleared(browser)
           f == browser.location
           c == AddToHistory(b, f)
           h == c.history
           p == c.pos
<1>1. /\ browser' = IF f # NoFolder THEN c ELSE Crashed(browser)
      /\ UNCHANGED <<disk, queue, flushing, reads>>
  BY DEF ClearHistory, Request, Cleared, Crashed
<1>2. browser \in Window /\ Sound(browser, mounted) /\ f \in Places
  BY BInvFacts, WindowFields
<1>3. /\ b.location = browser.location /\ b.loads = browser.loads
      /\ b.rows = browser.rows /\ b.doubt = browser.doubt
  BY <1>2 DEF Cleared, Window
<1>4. CASE f = NoFolder
  <2>1. browser' = [b EXCEPT !.crashed = TRUE, !.astray = NoFolder]
    BY <1>1, <1>4 DEF Crashed
  <2>2. b \in Window
    BY <1>2, ClearedFacts DEF Sound
  <2> HIDE DEF b, f
  <2>3. /\ browser'.loads = b.loads /\ browser'.location = b.location
        /\ browser'.rows = b.rows /\ browser'.doubt = b.doubt
    BY <2>1, <2>2 DEF Window
  <2>4. Harmless(browser, browser')
    BY <1>3, <2>3, SameHarmless
  <2> QED  BY <1>1, <2>4, HarmlessStep
<1>5. CASE f # NoFolder
  <2>1. browser' = c /\ f \in Folders
    BY <1>1, <1>2, <1>5 DEF Places
  <2>2. Sound(b, mounted)
    BY <1>2, ClearedFacts
  <2> HIDE DEF b, f
  <2>3. b \in Window /\ IsInjective(b.history) /\ b.pos \in 0..Len(b.history)
    BY <2>2 DEF Sound
  <2>4. c = WithHistory(b, h, p) /\ h \in Seq(Folders) /\ p \in DOMAIN h
    BY <2>1, <2>3, AddToHistoryFacts
  <2> HIDE DEF c, h, p
  <2>5. c.loads = b.loads /\ c.location = b.location /\ c.rows = b.rows /\ c.doubt = b.doubt
    BY <2>3, <2>4 DEF WithHistory, Window
  <2>6. Harmless(browser, browser')
    BY <1>3, <2>1, <2>5, SameHarmless
  <2> QED  BY <1>1, <2>6, HarmlessStep
<1> QED  BY <1>4, <1>5

LEMMA StopAccounts == BInv /\ Accounting /\ Stop => Accounting'
<1> SUFFICES ASSUME BInv, Accounting, Stop  PROVE Accounting'
  OBVIOUS
<1> DEFINE mark(l) == [l EXCEPT !.op = l.at # "free",
                                !.stopped = IF l.at = "free" \/ @ # "no" THEN @
                                            ELSE IF l.at = "query" THEN "late" ELSE "early"]
           L == [i \in Slots |-> mark(browser.loads[i])]
           c == Marked(browser, L)
<1>1. browser' = c /\ UNCHANGED <<disk, queue, flushing, reads>>
  BY DEF Stop, Request, Marked
<1>2. \A l \in Load : /\ mark(l).at = l.at /\ mark(l).folder = l.folder
                      /\ mark(l).action = l.action /\ mark(l).found = l.found
                      /\ mark(l).missed = l.missed
  <2> TAKE l \in Load
  <2> DEFINE op == l.at # "free"
             stopped == IF l.at = "free" \/ l.stopped # "no" THEN l.stopped
                        ELSE IF l.at = "query" THEN "late" ELSE "early"
  <2>1. mark(l) = [l EXCEPT !.op = op, !.stopped = stopped]
    OBVIOUS
  <2> HIDE DEF op, stopped, mark
  <2> QED  BY <2>1 DEF Load
<1> HIDE DEF mark
<1>3. browser.loads \in [Slots -> Load] /\ browser \in Window
  BY BInvFacts, WindowFields
<1>4. \A j \in Slots : /\ L[j].at = browser.loads[j].at
                       /\ L[j].folder = browser.loads[j].folder
                       /\ L[j].action = browser.loads[j].action
                       /\ L[j].found = browser.loads[j].found
                       /\ L[j].missed = browser.loads[j].missed
  BY <1>2, <1>3
<1> HIDE DEF L
<1>5. /\ c.loads = L /\ c.location = browser.location /\ c.rows = browser.rows
      /\ c.doubt = browser.doubt
  BY <1>3 DEF Marked, Window
<1> HIDE DEF c
<1>6. \A f : Loading(browser, f) => Loading(c, f)
  BY <1>4, <1>5 DEF Loading, Queued
<1>7. \A d : QueriesOK(browser, d) => QueriesOK(c, d)
  BY <1>4, <1>5 DEF QueriesOK, QueryOK
<1>8. Harmless(browser, browser')
  BY <1>1, <1>5, <1>6, <1>7, ShowsHarmless DEF Shows
<1> QED  BY <1>1, <1>8, HarmlessStep

LEMMA MountReadyAccounts ==
    BInv /\ Accounting /\ (\E m \in mounts : MountReady(m)) => Accounting'
<1> SUFFICES ASSUME BInv, Accounting, NEW m \in mounts, MountReady(m)  PROVE Accounting'
  OBVIOUS
<1> DEFINE f == m.folder
           root == Path[f][1]
           M == mounted \union {root}
<1>1. UNCHANGED <<disk, queue, flushing, reads>>
  BY DEF MountReady
<1>2. /\ f \in Folders /\ root \in Volumes /\ m.action \in {"go", "travel"}
      /\ root \in Folders
  <2>1. m \in [folder : Folders, action : {"go", "travel"}] /\ root \in Volumes
    BY DEF BInv
  <2> QED  BY <2>1, PathFacts
<1>3. CASE browser' = browser
  BY <1>1, <1>3 DEF Accounting
<1>4. CASE browser' = StartLoad([browser EXCEPT !.shown = @ \union {root}], f, m.action, FALSE)
  <2> DEFINE b == [browser EXCEPT !.shown = @ \union {root}]
             action == m.action
             automatic == FALSE
             c == StartLoad(b, f, action, automatic)
  <2>1. browser \in Window /\ browser.listed \subseteq browser.shown
    BY BInvFacts DEF Sound
  <2>2. /\ Redrawn(browser, b) /\ b.loads = browser.loads /\ b.location = browser.location
        /\ b.rows = browser.rows /\ b.doubt = browser.doubt
    <3> DEFINE S == browser.shown \union {root}
    <3>1. S \in SUBSET Folders /\ browser.listed \subseteq S
      BY <1>2, <2>1, WindowFields
    <3> HIDE DEF S
    <3> QED  BY <2>1, <3>1 DEF Redrawn, Window, S
  <2>3. browser' = c
    BY <1>4
  <2> HIDE DEF b
  <2>4. Fine(browser, M)
    BY BInvFacts, MountKeeps
  <2>5. Reach(f, M)
    BY DEF Reach
  <2>6. Busy(browser) < MaxInputs
    <3>1. Cardinality(mounts) # 0
      BY FS_EmptySet DEF BInv
    <3> QED  BY <3>1, BInvFacts DEF Pending
  <2> HIDE DEF M, f
  <2>7. Sound(b, M) /\ Busy(b) < MaxInputs
    BY <2>2, <2>4, <2>6, RedrawnKeeps DEF Fine
  <2>8. action \in Actions /\ automatic \in BOOLEAN /\ ~ automatic
    BY <1>2 DEF Actions
  <2> HIDE DEF action, automatic
  <2>9. Harmless(b, c)
    BY <1>2, <2>5, <2>7, <2>8, StartLoadShows DEF f
  <2>10. Harmless(browser, b)
    BY <2>2, SameHarmless
  <2> HIDE DEF c
  <2>11. Harmless(browser, browser')
    BY <2>3, <2>9, <2>10 DEF Harmless
  <2> QED  BY <1>1, <2>11, HarmlessStep
<1> QED  BY <1>3, <1>4 DEF MountReady

-----------------------------------------------------------------------------
(* The disk and the monitor *)

LEMMA HasFacts ==
    ASSUME NEW s \in Seq(Reportable), NEW x \in Reportable, NEW y
    PROVE  /\ Has(<<x>> \o s, y) <=> y = x \/ Has(s, y)
           /\ Has(Without(s, x), y) <=> y # x /\ Has(s, y)
<1> DEFINE one == <<x>>
           w == one \o s
           v == Without(s, x)
<1>1. \A q : \A z : Has(q, z) <=> z \in Range(q)
  BY DEF Has, Range
<1>2. one \in Seq(Reportable) /\ Range(one) = {x}
  BY DEF Range
<1> HIDE DEF one
<1>3. Range(w) = Range(one) \union Range(s)
  BY <1>2, ConcatFacts
<1>4. Range(v) = Range(s) \intersect (Items \ {x})
  BY KeepFacts DEF Without
<1>5. Range(s) \subseteq Items
  BY PlacesOf DEF Reportable
<1> HIDE DEF w, v
<1>6. Has(w, y) <=> y = x \/ Has(s, y)
  BY <1>1, <1>2, <1>3
<1>7. Has(v, y) <=> y # x /\ Has(s, y)
  BY <1>1, <1>4, <1>5
<1> QED  BY <1>6, <1>7 DEF w, v, one

\* what the monitor's queue says after it was told of x
LEMMA DeletedTold ==
    ASSUME NEW q \in MonitorQueue, NEW x \in Reportable, NEW y
    PROVE  /\ Has(Deleted(q, x).deleted, y) <=> y = x \/ Has(q.deleted, y)
           /\ Back(Deleted(q, x), y) <=> y # x /\ Back(q, y)
<1>1. /\ q.created \in Seq(Reportable) /\ q.deleted \in Seq(Reportable)
      /\ q.changed \in Seq(Reportable)
  BY QueueFacts
<1> DEFINE r == Deleted(q, x)
<1>2. /\ r.created = Without(q.created, x) /\ r.deleted = <<x>> \o q.deleted
      /\ r.changed = Without(q.changed, x)
  BY DEF Deleted
<1> HIDE DEF r
<1> QED  BY <1>1, <1>2, HasFacts DEF r, Back

LEMMA CreatedTold ==
    ASSUME NEW q \in MonitorQueue, NEW x \in Reportable, NEW y
    PROVE  /\ Has(Created(q, x).deleted, y) <=> y # x /\ Has(q.deleted, y)
           /\ Back(Created(q, x), y) <=> y = x \/ Back(q, y)
<1>1. /\ q.created \in Seq(Reportable) /\ q.deleted \in Seq(Reportable)
      /\ q.changed \in Seq(Reportable)
  BY QueueFacts
<1> DEFINE r == Created(q, x)
<1>2. CASE Has(q.deleted, x)
  <2> DEFINE d == Without(q.deleted, x)
             g == <<x>> \o q.changed
  <2>1. r = [q EXCEPT !.deleted = d, !.changed = g]
    BY <1>2 DEF Created
  <2> HIDE DEF d, g, r
  <2>2. r.created = q.created /\ r.deleted = d /\ r.changed = g
    BY <2>1 DEF MonitorQueue
  <2> QED  BY <1>1, <2>2, HasFacts DEF r, Back, d, g
<1>3. CASE ~ Has(q.deleted, x)
  <2> DEFINE c == <<x>> \o q.created
  <2>1. r = [q EXCEPT !.created = c]
    BY <1>3 DEF Created
  <2> HIDE DEF c, r
  <2>2. r.created = c /\ r.deleted = q.deleted /\ r.changed = q.changed
    BY <2>1 DEF MonitorQueue
  <2> QED  BY <1>1, <1>3, <2>2, HasFacts DEF r, Back, c
<1> QED  BY <1>2, <1>3

LEMMA ChangedTold ==
    ASSUME NEW q \in MonitorQueue, NEW x \in Reportable, NEW y
    PROVE  /\ Changed(q, x).deleted = q.deleted
           /\ Back(q, y) => Back(Changed(q, x), y)
<1>1. q.changed \in Seq(Reportable)
  BY QueueFacts
<1> DEFINE r == Changed(q, x)
           w == Without(q.changed, x)
           g == <<x>> \o w
<1>2. CASE Has(q.created, x)
  BY <1>2 DEF Changed
<1>3. CASE ~ Has(q.created, x)
  <2>1. r = [q EXCEPT !.changed = g]
    BY <1>3 DEF Changed
  <2>2. w \in Seq(Reportable) /\ (Has(w, y) <=> y # x /\ Has(q.changed, y))
    BY <1>1, HasFacts, FrontFacts
  <2> HIDE DEF w
  <2>3. Has(g, y) <=> y = x \/ Has(w, y)
    BY <2>2, HasFacts
  <2> HIDE DEF g, r
  <2>4. r.created = q.created /\ r.deleted = q.deleted /\ r.changed = g
    BY <2>1 DEF MonitorQueue
  <2> QED  BY <2>2, <2>3, <2>4 DEF Back, r
<1> QED  BY <1>2, <1>3

LEMMA ContentChangeAccounts ==
    BInv /\ Accounting /\ (\E x \in Items : ContentChange(x)) => Accounting'
<1> SUFFICES ASSUME BInv, Accounting, NEW x \in Items, ContentChange(x)  PROVE Accounting'
  OBVIOUS
<1>1. /\ x \in Reportable /\ queue' = Changed(queue, x)
      /\ UNCHANGED <<browser, disk, flushing, reads>>
  BY DEF ContentChange, Reportable
<1>2. queue'.deleted = queue.deleted /\ \A y : Back(queue, y) => Back(queue', y)
  <2>1. queue \in MonitorQueue
    BY DEF BInv
  <2> QED  BY <1>1, <2>1, ChangedTold
<1>3. AllAccounted(browser, disk, queue', flushing, reads)
  <2> SUFFICES ASSUME Open(browser), NEW y \in Items \ browser.doubt
               PROVE  Accounted(browser, disk, queue', flushing, reads, y)
    BY DEF AllAccounted
  <2>1. Accounted(browser, disk, queue, flushing, reads, y)
    BY DEF Accounting, AllAccounted
  <2>2. Going(queue', flushing, y) <=> Going(queue, flushing, y)
    BY <1>2 DEF Going
  <2>3. Coming(queue, flushing, reads, y) => Coming(queue', flushing, reads, y)
    BY <1>2 DEF Coming
  <2> QED  BY <1>2, <2>1, <2>2, <2>3 DEF Accounted
<1> QED  BY <1>1, <1>3 DEF Accounting

LEMMA DiskChangeAccounts ==
    BInv /\ Accounting /\ (\E x \in Items : DiskChange(x)) => Accounting'
<1> SUFFICES ASSUME BInv, Accounting, NEW x \in Items, DiskChange(x)  PROVE Accounting'
  OBVIOUS
<1> DEFINE mark(l) == [l EXCEPT !.missed = IF l.at = "query" /\ l.folder \in {x, Parent(x)}
                                           THEN @ \union {x} ELSE @]
           L == [i \in Slots |-> mark(browser.loads[i])]
           D == IF Watched(x) \/ Loading(browser, browser.location) THEN browser.doubt
                ELSE browser.doubt \union {x}
           c == [browser EXCEPT !.loads = L, !.doubt = D]
<1>1. /\ x \in Reportable /\ UNCHANGED <<flushing, reads>> /\ browser' = c
      /\ queue' = IF ~ Watched(x) THEN queue
                  ELSE IF x \in disk THEN Deleted(queue, x) ELSE Created(queue, x)
      /\ \/ x \notin disk /\ disk' = disk \union {x}
         \/ x \in disk /\ disk' = disk \ {x}
  BY DEF DiskChange, Reportable
<1>2. \A l \in Load : /\ mark(l).at = l.at /\ mark(l).folder = l.folder
                      /\ mark(l).action = l.action /\ mark(l).found = l.found
                      /\ l.missed \subseteq mark(l).missed
                      /\ l.at = "query" /\ l.folder \in {x, Parent(x)} => x \in mark(l).missed
  <2> TAKE l \in Load
  <2> DEFINE missed == IF l.at = "query" /\ l.folder \in {x, Parent(x)}
                       THEN l.missed \union {x} ELSE l.missed
  <2>1. mark(l) = [l EXCEPT !.missed = missed]
    OBVIOUS
  <2>2. l.missed \subseteq missed
        /\ (l.at = "query" /\ l.folder \in {x, Parent(x)} => x \in missed)
    OBVIOUS
  <2> HIDE DEF missed, mark
  <2> QED  BY <2>1, <2>2 DEF Load
<1> HIDE DEF mark
<1>3. browser \in Window /\ browser.loads \in [Slots -> Load] /\ queue \in MonitorQueue
  BY BInvFacts, WindowFields DEF BInv
<1>4. \A j \in Slots : L[j] = mark(browser.loads[j]) /\ browser.loads[j] \in Load
  BY <1>3
<1> HIDE DEF L
<1>5. /\ c.loads = L /\ c.location = browser.location /\ c.rows = browser.rows
      /\ c.doubt = D
  BY <1>3 DEF Window
<1> HIDE DEF c
<1>6. \A f : Loading(browser, f) <=> Loading(c, f)
  BY <1>2, <1>4, <1>5 DEF Loading, Queued
<1>7. QueriesOK(c, disk')
  <2> SUFFICES ASSUME NEW j \in Slots, c.loads[j].at = "query"
               PROVE  QueryOK(c.loads[j], disk')
    BY DEF QueriesOK, QueryOK
  <2> DEFINE l == browser.loads[j]
             m == c.loads[j]
  <2>1. l \in Load /\ m = mark(l)
    BY <1>4, <1>5
  <2>2. /\ m.at = l.at /\ m.folder = l.folder /\ m.found = l.found /\ l.missed \subseteq m.missed
        /\ l.at = "query" /\ l.folder \in {x, Parent(x)} => x \in m.missed
    BY <1>2, <2>1
  <2>3. QueryOK(l, disk)
    BY DEF Accounting, QueriesOK
  <2> HIDE DEF l, m
  <2>4. m.at = "query"
    BY DEF m
  <2>5. /\ l.folder \in disk \union l.missed
        /\ \A y \in Files \ l.missed : y \in l.found <=> y \in disk /\ FolderOf[y] = l.folder
    BY <2>2, <2>3, <2>4 DEF QueryOK
  <2>6. m.folder \in disk' \union m.missed
    BY <1>1, <2>2, <2>4, <2>5
  <2>7. ASSUME NEW y \in Files \ m.missed
        PROVE  y \in m.found <=> y \in disk' /\ FolderOf[y] = m.folder
    <3>1. y = x => Parent(y) # l.folder
      BY <2>2, <2>4, <2>7
    <3>2. y = x => FolderOf[y] # l.folder
      BY <2>7, <3>1 DEF Parent
    <3>3. y # x => (y \in disk' <=> y \in disk)
      BY <1>1
    <3> QED  BY <2>2, <2>5, <2>7, <3>2, <3>3
  <2> QED  BY <2>6, <2>7 DEF QueryOK, m
<1>8. AllAccounted(c, disk', queue', flushing, reads)
  <2> SUFFICES ASSUME Open(c), NEW y \in Items \ c.doubt
               PROVE  Accounted(c, disk', queue', flushing, reads, y)
    BY DEF AllAccounted
  <2>1. Open(browser) /\ browser.doubt \subseteq D
    BY <1>5, <1>6 DEF Open
  <2>2. Accounted(browser, disk, queue, flushing, reads, y)
    BY <1>5, <2>1 DEF Accounting, AllAccounted
  <2>3. y = x => Watched(x)
    BY <1>5, <2>1 DEF Open
  <2> HIDE DEF D
  <2>4. CASE y # x
    <3>1. y \in disk' <=> y \in disk
      BY <1>1, <2>4
    <3>2. (Has(queue'.deleted, y) <=> Has(queue.deleted, y)) /\ (Back(queue', y) <=> Back(queue, y))
      BY <1>1, <1>3, <2>4, DeletedTold, CreatedTold
    <3> QED  BY <1>5, <2>2, <3>1, <3>2 DEF Accounted, Going, Coming
  <2>5. CASE y = x /\ x \in disk
    <3>1. x \notin disk' /\ Has(queue'.deleted, x)
      BY <1>1, <1>3, <2>3, <2>5, DeletedTold
    <3> QED  BY <1>5, <2>2, <2>5, <3>1 DEF Accounted, Going
  <2>6. CASE y = x /\ x \notin disk
    <3>1. x \in disk' /\ ~ Has(queue'.deleted, x) /\ Back(queue', x)
      BY <1>1, <1>3, <2>3, <2>6, CreatedTold
    <3> QED  BY <1>5, <2>2, <2>6, <3>1 DEF Accounted, Coming
  <2> QED  BY <2>4, <2>5, <2>6
<1> QED  BY <1>1, <1>7, <1>8 DEF Accounting

LEMMA DeliveringFacts ==
    ASSUME NEW e \in Seq(MonitorEvent), NEW f \in Seq(MonitorEvent), NEW kind, NEW y
    PROVE  Delivering(e \o f, kind, y) <=> Delivering(e, kind, y) \/ Delivering(f, kind, y)
<1> DEFINE w == e \o f
<1>1. \A q : Delivering(q, kind, y) <=> [kind |-> kind, item |-> y] \in Range(q)
  BY DEF Delivering, Range
<1>2. Range(w) = Range(e) \union Range(f)
  BY ConcatFacts
<1> HIDE DEF w
<1> QED  BY <1>1, <1>2 DEF w

LEMMA EventsTold ==
    ASSUME NEW s \in Seq(Reportable), NEW kind, NEW k, NEW y
    PROVE  Delivering(Events(kind, s), k, y) <=> k = kind /\ Has(s, y)
<1>1. \A n \in DOMAIN s : [kind |-> kind, item |-> s[n]] = [kind |-> k, item |-> y]
                             <=> k = kind /\ s[n] = y
  OBVIOUS
<1> QED  BY <1>1 DEF Delivering, Events, Has

LEMMA FlushAccounts == BInv /\ Accounting /\ Flush => Accounting'
<1> SUFFICES ASSUME BInv, Accounting, Flush  PROVE Accounting'
  OBVIOUS
<1> DEFINE c == Events("created", queue.created)
           d == Events("deleted", queue.deleted)
           g == Events("changed", queue.changed)
           cd == c \o d
           cdg == cd \o g
<1>1. /\ flushing = <<>> /\ flushing' = cdg /\ queue' = NoEvents
      /\ UNCHANGED <<browser, disk, reads>>
  BY DEF Flush, Quiet
<1>2. /\ queue.created \in Seq(Reportable) /\ queue.deleted \in Seq(Reportable)
      /\ queue.changed \in Seq(Reportable)
  BY QueueFacts DEF BInv
<1>3. c \in Seq(MonitorEvent) /\ d \in Seq(MonitorEvent) /\ g \in Seq(MonitorEvent)
  BY <1>2, EventsFacts
<1>4. \A k, y : /\ Delivering(c, k, y) <=> k = "created" /\ Has(queue.created, y)
                /\ Delivering(d, k, y) <=> k = "deleted" /\ Has(queue.deleted, y)
                /\ Delivering(g, k, y) <=> k = "changed" /\ Has(queue.changed, y)
  BY <1>2, EventsTold
<1> HIDE DEF c, d, g
<1>5. cd \in Seq(MonitorEvent)
  BY <1>3, ConcatProperties
<1>6. \A k, y : Delivering(cd, k, y) <=> Delivering(c, k, y) \/ Delivering(d, k, y)
  BY <1>3, DeliveringFacts
<1> HIDE DEF cd
<1>7. \A k, y : Delivering(cdg, k, y) <=> Delivering(cd, k, y) \/ Delivering(g, k, y)
  BY <1>3, <1>5, DeliveringFacts
<1> HIDE DEF cdg
<1>8. \A y : /\ Delivering(flushing', "deleted", y) <=> Has(queue.deleted, y)
             /\ Delivering(flushing', "created", y) <=> Has(queue.created, y)
             /\ Delivering(flushing', "changed", y) <=> Has(queue.changed, y)
  BY <1>1, <1>4, <1>6, <1>7
<1>9. \A k, y : ~ Delivering(flushing, k, y)
  BY <1>1 DEF Delivering
<1>10. \A y : ~ Has(queue'.deleted, y) /\ ~ Has(queue'.created, y) /\ ~ Has(queue'.changed, y)
  BY <1>1 DEF NoEvents, Has
<1>11. AllAccounted(browser, disk, queue', flushing', reads)
  <2> SUFFICES ASSUME Open(browser), NEW x \in Items \ browser.doubt
               PROVE  Accounted(browser, disk, queue', flushing', reads, x)
    BY DEF AllAccounted
  <2>1. Accounted(browser, disk, queue, flushing, reads, x)
    BY DEF Accounting, AllAccounted
  <2>2. Going(queue', flushing', x) <=> Going(queue, flushing, x)
    BY <1>8, <1>9, <1>10 DEF Going
  <2>3. Coming(queue', flushing', reads, x) <=> Coming(queue, flushing, reads, x)
    BY <1>8, <1>9, <1>10 DEF Coming, Back
  <2>4. /\ ~ Has(queue'.deleted, x)
        /\ Delivering(flushing', "deleted", x) <=> Has(queue.deleted, x)
    BY <1>8, <1>10
  <2> QED  BY <2>1, <2>2, <2>3, <2>4 DEF Accounted
<1> QED  BY <1>1, <1>11 DEF Accounting

\* One event of those that are delivered; the others, in rest, still come.
LEMMA FolderChangedAccounts ==
    ASSUME BInv, Accounting, NEW x \in Reportable, NEW kind \in {"created", "deleted", "changed"},
           NEW rest, FolderChanged(x, kind), Busy(browser) < MaxInputs,
           \A k, y : Delivering(flushing, k, y) <=> (k = kind /\ y = x) \/ Delivering(rest, k, y)
    PROVE  /\ QueriesOK(browser', disk)
           /\ AllAccounted(browser', disk, queue, rest, reads')
<1> DEFINE loc == browser.location
           hit == x \in Folders /\ x \in Above(loc)
           b == IF kind = "deleted" /\ hit THEN StartLoad(browser, Parent(x), "go", TRUE)
                ELSE browser
           updateTree == Parent(x) \in b.listed
           updateList == Parent(x) = b.location \/ (kind # "created" /\ x \in b.rows)
           r == [item |-> x, kind |-> kind, list |-> updateList, tree |-> updateTree,
                 found |-> FALSE]
<1>1. /\ browser \in Window /\ Sound(browser, mounted) /\ loc \in Places
      /\ browser.rows \in SUBSET Files
  BY BInvFacts, WindowFields
<1>2. QueriesOK(browser, disk)
  BY DEF Accounting
<1>3. Files \intersect Folders = {} /\ NoFolder \notin Items
  BY LoadAssumption DEF LoadAssumption
<1>4. ASSUME NEW f \in Folders, Reach(f, mounted)
      PROVE  LET c == StartLoad(browser, f, "go", TRUE)
             IN  QueriesOK(c, disk) /\ ~ Open(c) /\ c \in Window
  <2> DEFINE action == "go"
             automatic == TRUE
             c == StartLoad(browser, f, action, automatic)
  <2>1. action \in Actions /\ action = "go" /\ action # "list" /\ automatic \in BOOLEAN
    BY DEF Actions
  <2> SUFFICES QueriesOK(c, disk) /\ ~ Open(c) /\ c \in Window
    OBVIOUS
  <2> HIDE DEF action, automatic
  <2>2. QueriesOK(c, disk) /\ ~ Open(c)
    BY <1>1, <1>2, <1>4, <2>1, StartLoadShows
  <2>3. Sound(c, mounted)
    BY <1>1, <1>4, <2>1, BInvFacts, StartLoadFacts
  <2> QED  BY <2>2, <2>3 DEF Sound
<1>5. ASSUME loc # NoFolder  PROVE loc \in Folders /\ Reach(loc, mounted) /\ loc \in Above(loc)
  <2>1. loc \in Folders /\ Reach(loc, mounted)
    BY <1>1, <1>5 DEF Sound, Places
  <2>2. Len(Path[loc]) \in DOMAIN Path[loc] /\ Path[loc][Len(Path[loc])] = loc
    <3> HIDE DEF loc
    <3>1. /\ Len(Path[loc]) \in Nat \ {0} /\ DOMAIN Path[loc] = 1..Len(Path[loc])
          /\ Path[loc][Len(Path[loc])] = loc
      BY <2>1, PathFacts
    <3> QED  BY <3>1
  <2> QED  BY <2>1, <2>2 DEF Above
<1>6. CASE loc = NoFolder
  <2>1. browser' = browser
    BY <1>6 DEF FolderChanged
  <2> QED  BY <1>2, <1>6, <2>1 DEF AllAccounted, Open
<1>7. CASE loc # NoFolder /\ kind = "changed" /\ hit
  <2> DEFINE f == loc
             c == StartLoad(browser, f, "go", TRUE)
  <2>1. browser' = c
    BY <1>7 DEF FolderChanged
  <2>2. f \in Folders /\ Reach(f, mounted)
    BY <1>5, <1>7
  <2> HIDE DEF f
  <2>3. QueriesOK(c, disk) /\ ~ Open(c)
    BY <1>4, <2>2
  <2> HIDE DEF c
  <2> QED  BY <2>1, <2>3 DEF AllAccounted
<1>8. CASE loc # NoFolder /\ kind = "deleted" /\ hit
  <2> DEFINE f == Parent(x)
             c == StartLoad(browser, f, "go", TRUE)
  <2>1. x \notin Files /\ x \notin EntryPoints /\ x \in Above(loc) /\ x \in Folders
    BY <1>3, <1>8 DEF Reportable
  <2>2. f \in Folders /\ Path[f][1] = Path[loc][1]
    BY <1>5, <1>8, <2>1, ParentFacts, AboveFacts
  <2>3. Reach(f, mounted)
    BY <1>5, <1>8, <2>2 DEF Reach
  <2>4. browser' \in {c, RemoveRows(c, Below(x))}
    BY <1>8 DEF FolderChanged
  <2> HIDE DEF f
  <2>5. QueriesOK(c, disk) /\ ~ Open(c) /\ c \in Window
    BY <1>4, <2>2, <2>3
  <2> HIDE DEF c
  <2>6. browser'.loads = c.loads /\ browser'.location = c.location
    BY <2>4, <2>5, RemoveRowsShows
  <2>7. QueriesOK(browser', disk) /\ ~ Open(browser')
    BY <2>5, <2>6, SameLoads DEF Open
  <2> QED  BY <2>7 DEF AllAccounted
<1>9. ASSUME Open(browser'), browser'.loads = browser.loads, browser'.location = loc
      PROVE  \A y \in Items \ browser.doubt :
                 Accounted(browser, disk, queue, flushing, reads, y)
  <2>1. Open(browser)
    BY <1>9, SameLoads DEF Open
  <2> QED  BY <2>1 DEF Accounting, AllAccounted
<1>10. CASE loc # NoFolder /\ kind = "deleted" /\ ~ hit
  <2>1. b = browser
    BY <1>10
  <2>2. /\ browser'.loads = browser.loads /\ browser'.location = loc
        /\ browser'.doubt = browser.doubt /\ reads' = reads
        /\ browser'.rows \in {browser.rows, browser.rows \ {x}}
        /\ x \in Files /\ (FolderOf[x] = loc \/ x \in browser.rows)
               => browser'.rows = browser.rows \ {x}
        /\ x \in Folders => browser'.rows = browser.rows
    <3>1. CASE x \in Folders
      <4>1. browser' \in {browser, RemoveRows(browser, Below(x))} /\ reads' = reads
        BY <1>10, <2>1, <3>1 DEF FolderChanged
      <4> QED  BY <1>1, <1>3, <3>1, <4>1, RemoveRowsShows
    <3>2. CASE x \notin Folders
      <4>1. x \in Files /\ Parent(x) = FolderOf[x]
        BY <3>2 DEF Reportable, Items, Parent
      <4>2. /\ browser' = IF FolderOf[x] = loc \/ x \in browser.rows
                          THEN [browser EXCEPT !.rows = @ \ {x}] ELSE browser
            /\ reads' = reads
        BY <1>10, <2>1, <3>2, <4>1 DEF FolderChanged
      <4> QED  BY <1>1, <3>2, <4>1, <4>2 DEF Window
    <3> QED  BY <3>1, <3>2
  <2>3. QueriesOK(browser', disk)
    BY <1>2, <2>2, SameLoads
  <2>4. ASSUME Open(browser'), NEW y \in Items \ browser.doubt
        PROVE  Accounted(browser', disk, queue, rest, reads', y)
    <3>1. Accounted(browser, disk, queue, flushing, reads, y)
      BY <1>9, <2>2, <2>4
    <3>2. Coming(queue, flushing, reads, y) <=> Coming(queue, rest, reads, y)
      BY <1>10 DEF Coming
    <3>3. y # x => (Going(queue, flushing, y) <=> Going(queue, rest, y))
      BY DEF Going
    <3>4. Delivering(rest, "deleted", y) => Delivering(flushing, "deleted", y)
      OBVIOUS
    <3>5. x # loc
      BY <1>5, <1>10
    <3>6. CASE y # x
      BY <2>2, <3>1, <3>2, <3>3, <3>4, <3>6 DEF Accounted
    <3>7. CASE y = x /\ x \in Folders
      <4>1. x \notin browser.rows /\ x \notin Files
        BY <1>1, <1>3, <3>7
      <4> QED  BY <2>2, <3>5, <3>7, <4>1 DEF Accounted
    <3>8. CASE y = x /\ x \notin Folders
      <4>1. x \in Files
        BY <3>8 DEF Reportable, Items
      <4>2. Delivering(flushing, "deleted", x)
        BY <1>10
      <4>3. x \in disk => Coming(queue, rest, reads, x)
        BY <3>1, <3>8, <4>1, <4>2 DEF Accounted, Coming
      <4>4. x \notin browser'.rows
        BY <2>2, <4>1
      <4> QED  BY <2>2, <3>1, <3>4, <3>5, <3>8, <4>1, <4>3, <4>4 DEF Accounted
    <3> QED  BY <3>6, <3>7, <3>8
  <2> QED  BY <2>2, <2>3, <2>4 DEF AllAccounted
<1>11. CASE loc # NoFolder /\ kind # "deleted" /\ ~ (kind = "changed" /\ hit)
  <2>1. b = browser
    BY <1>11
  <2>2. /\ browser' = browser
        /\ reads' = IF ~ updateTree /\ ~ updateList THEN reads ELSE reads \union {r}
    BY <1>11 DEF FolderChanged
  <2>3. r.item = x /\ r.list = updateList
    OBVIOUS
  <2>4. x \in Files /\ FolderOf[x] = loc => updateList
    BY <2>1 DEF Parent
  <2> HIDE DEF r, updateList, updateTree, b
  <2>5. ASSUME Open(browser'), NEW y \in Items \ browser.doubt
        PROVE  Accounted(browser', disk, queue, rest, reads', y)
    <3>1. Accounted(browser, disk, queue, flushing, reads, y)
      BY <1>9, <2>2, <2>5
    <3>2. Going(queue, flushing, y) <=> Going(queue, rest, y)
      BY <1>11 DEF Going
    <3>3. Delivering(rest, "deleted", y) <=> Delivering(flushing, "deleted", y)
      BY <1>11
    <3>4. y \in Files /\ FolderOf[y] = loc /\ Coming(queue, flushing, reads, y)
              => Coming(queue, rest, reads', y)
      <4>1. y = x /\ y \in Files /\ FolderOf[y] = loc => Coming(queue, rest, reads', y)
        BY <2>2, <2>3, <2>4 DEF Coming
      <4>2. y # x /\ Coming(queue, flushing, reads, y) => Coming(queue, rest, reads', y)
        BY <2>2 DEF Coming
      <4> QED  BY <4>1, <4>2
    <3> QED  BY <2>2, <3>1, <3>2, <3>3, <3>4 DEF Accounted
  <2> QED  BY <1>2, <2>2, <2>5 DEF AllAccounted
<1> QED  BY <1>6, <1>7, <1>8, <1>10, <1>11

LEMMA DeliverAccounts == BInv /\ Accounting /\ Deliver => Accounting'
<1> SUFFICES ASSUME BInv, Accounting, Deliver  PROVE Accounting'
  OBVIOUS
<1> DEFINE event == Head(flushing)
           rest == Tail(flushing)
           x == event.item
           kind == event.kind
<1>1. /\ flushing # <<>> /\ FolderChanged(x, kind) /\ flushing' = rest
      /\ UNCHANGED <<disk, queue>>
  BY DEF Deliver
<1>2. flushing \in Seq(MonitorEvent)
  BY DEF BInv
<1>3. /\ event \in MonitorEvent /\ rest \in Seq(MonitorEvent) /\ Len(flushing) > 0
      /\ Len(rest) = Len(flushing) - 1 /\ Len(flushing) \in Nat
      /\ event = flushing[1] /\ \A n \in 1..Len(rest) : rest[n] = flushing[n + 1]
  BY <1>1, <1>2
<1> HIDE DEF rest, event
<1>4. /\ x \in Reportable /\ kind \in {"created", "deleted", "changed"}
      /\ event = [kind |-> kind, item |-> x]
  BY <1>3 DEF MonitorEvent
<1>5. ASSUME NEW k, NEW y
      PROVE  Delivering(flushing, k, y) <=> (k = kind /\ y = x) \/ Delivering(rest, k, y)
  <2> DEFINE e == [kind |-> k, item |-> y]
  <2>1. event = e <=> k = kind /\ y = x
    BY <1>4
  <2> HIDE DEF e, x, kind
  <2>2. (\E n \in 1..Len(flushing) : flushing[n] = e)
            <=> event = e \/ \E n \in 1..Len(rest) : rest[n] = e
    <3>1. ASSUME NEW n \in 1..Len(flushing), flushing[n] = e, event # e
          PROVE  \E m \in 1..Len(rest) : rest[m] = e
      <4>1. n # 1 /\ n - 1 \in 1..Len(rest)
        BY <1>3, <3>1
      <4>2. rest[n - 1] = flushing[n]
        BY <1>3, <4>1
      <4> QED  BY <3>1, <4>1, <4>2
    <3>2. ASSUME NEW n \in 1..Len(rest), rest[n] = e
          PROVE  \E m \in 1..Len(flushing) : flushing[m] = e
      <4>1. n + 1 \in 1..Len(flushing) /\ flushing[n + 1] = e
        BY <1>3, <3>2
      <4> QED  BY <4>1
    <3>3. 1 \in 1..Len(flushing)
      BY <1>3
    <3> QED  BY <1>3, <3>1, <3>2, <3>3
  <2>3. DOMAIN flushing = 1..Len(flushing) /\ DOMAIN rest = 1..Len(rest)
    BY <1>2, <1>3
  <2> QED  BY <2>1, <2>2, <2>3 DEF Delivering, e
<1> HIDE DEF x, kind
<1>6. Busy(browser) < MaxInputs
  <2>1. Pending > 0
    BY <1>3, BInvFacts DEF Pending
  <2> QED  BY <2>1, BInvFacts
<1>7. /\ QueriesOK(browser', disk)
      /\ AllAccounted(browser', disk, queue, rest, reads')
  BY <1>1, <1>4, <1>5, <1>6, FolderChangedAccounts
<1> QED  BY <1>1, <1>7 DEF Accounting

-----------------------------------------------------------------------------
(* The queries of changed files *)

LEMMA ReadAttributesAccounts ==
    BInv /\ Accounting /\ (\E r \in reads : ReadAttributes(r)) => Accounting'
<1> SUFFICES ASSUME BInv, Accounting, NEW r \in reads, ReadAttributes(r)  PROVE Accounting'
  OBVIOUS
<1> DEFINE s == [r EXCEPT !.found = TRUE]
<1>1. UNCHANGED <<browser, disk, queue, flushing>>
  BY DEF ReadAttributes
<1>2. reads' = IF r.item \in disk THEN (reads \ {r}) \union {s} ELSE reads \ {r}
  BY DEF ReadAttributes
<1>3. s.item = r.item /\ s.list = r.list
  BY DEF BInv, Read
<1> HIDE DEF s
<1>4. \A y \in disk : Coming(queue, flushing, reads, y) => Coming(queue, flushing, reads', y)
  BY <1>2, <1>3 DEF Coming
<1>5. AllAccounted(browser, disk, queue, flushing, reads')
  BY <1>4 DEF Accounting, AllAccounted, Accounted
<1> QED  BY <1>1, <1>5 DEF Accounting

LEMMA FileAttributesReadyAccounts ==
    BInv /\ Accounting /\ (\E r \in reads : FileAttributesReady(r)) => Accounting'
<1> SUFFICES ASSUME BInv, Accounting, NEW r \in reads, FileAttributesReady(r)
             PROVE  Accounting'
  OBVIOUS
<1> DEFINE x == r.item
           lost == FolderOf[x] # browser.location
                   \/ (x \notin disk /\ ~ Reported(x, "deleted"))
           R == browser.rows \union {x}
           D == IF lost THEN browser.doubt \union {x} ELSE browser.doubt
           missed == browser.doubt \union ({x} \ browser.rows)
           S == browser.shown \union {x}
<1>1. UNCHANGED <<disk, queue, flushing>> /\ reads' = reads \ {r}
  BY DEF FileAttributesReady
<1>2. x \in Items /\ r.list \in BOOLEAN /\ r.kind \in {"created", "changed"}
  BY DEF BInv, Read
<1>3. browser \in Window /\ Files \intersect Folders = {}
  BY BInvFacts, LoadAssumption DEF LoadAssumption
<1>4. \/ browser' = browser /\ (r.list => x \in Folders)
      \/ browser' = [browser EXCEPT !.shown = S] /\ x \in Folders
      \/ browser' = WithRows(browser, R, D) /\ x \notin Folders
      \/ browser' = [browser EXCEPT !.doubt = missed]
  BY <1>2, <1>3 DEF FileAttributesReady, WithRows, Window
<1>5. ASSUME Open(browser), NEW y \in Items \ browser.doubt
      PROVE  /\ Accounted(browser, disk, queue, flushing, reads, y)
             /\ Coming(queue, flushing, reads, y) /\ ~ (y = x /\ r.list)
                    => Coming(queue, flushing, reads', y)
  <2>1. Accounted(browser, disk, queue, flushing, reads, y)
    BY <1>5 DEF Accounting, AllAccounted
  <2> QED  BY <1>1, <2>1 DEF Coming
<1>6. QueriesOK(browser, disk)
  BY DEF Accounting
<1>7. ASSUME browser'.loads = browser.loads, browser'.location = browser.location
      PROVE  QueriesOK(browser', disk) /\ (Open(browser') => Open(browser))
  BY <1>6, <1>7, SameLoads DEF Open
<1>8. ASSUME browser'.loads = browser.loads, browser'.location = browser.location,
             browser'.rows = browser.rows, browser'.doubt = browser.doubt,
             r.list => x \in Folders
      PROVE  Accounting'
  <2>1. ASSUME Open(browser'), NEW y \in Items \ browser'.doubt
        PROVE  Accounted(browser', disk, queue, flushing, reads', y)
    <3>1. y \in Files => ~ (y = x /\ r.list)
      BY <1>3, <1>8
    <3> QED  BY <1>5, <1>7, <1>8, <2>1, <3>1 DEF Accounted
  <2> QED  BY <1>1, <1>7, <1>8, <2>1 DEF Accounting, AllAccounted
<1>9. CASE browser' = browser /\ (r.list => x \in Folders)
  BY <1>8, <1>9
<1>10. CASE browser' = [browser EXCEPT !.shown = S] /\ x \in Folders
  <2> HIDE DEF S, x
  <2>1. /\ browser'.loads = browser.loads /\ browser'.location = browser.location
        /\ browser'.rows = browser.rows /\ browser'.doubt = browser.doubt
    BY <1>3, <1>10 DEF Window
  <2> QED  BY <1>8, <1>10, <2>1
<1>11. CASE browser' = WithRows(browser, R, D) /\ x \notin Folders
  <2>1. x \in Files
    BY <1>2, <1>11 DEF Items
  <2>2. /\ browser.doubt \subseteq D
        /\ x \notin D => FolderOf[x] = browser.location
                         /\ (x \notin disk => Going(queue, flushing, x))
    BY ReportedIs
  <2> HIDE DEF D
  <2>3. /\ browser'.loads = browser.loads /\ browser'.location = browser.location
        /\ browser'.rows = R /\ browser'.doubt = D
    <3> HIDE DEF R, x
    <3> QED  BY <1>3, <1>11 DEF WithRows, Window
  <2>4. ASSUME Open(browser'), NEW y \in Items \ D
        PROVE  Accounted(browser', disk, queue, flushing, reads', y)
    <3>1. Accounted(browser, disk, queue, flushing, reads, y)
          /\ (y # x /\ Coming(queue, flushing, reads, y) => Coming(queue, flushing, reads', y))
      BY <1>5, <1>7, <2>2, <2>3, <2>4
    <3>2. CASE y = x
      BY <2>1, <2>2, <2>3, <2>4, <3>1, <3>2 DEF Accounted
    <3>3. CASE y # x
      BY <2>3, <3>1, <3>3 DEF Accounted
    <3> QED  BY <3>2, <3>3
  <2> QED  BY <1>1, <1>7, <2>3, <2>4 DEF Accounting, AllAccounted
<1>12. CASE browser' = [browser EXCEPT !.doubt = missed]
  <2>1. browser.doubt \subseteq missed /\ (x \notin missed => x \in browser.rows)
    OBVIOUS
  <2> HIDE DEF missed
  <2>2. /\ browser'.loads = browser.loads /\ browser'.location = browser.location
        /\ browser'.rows = browser.rows /\ browser'.doubt = missed
    BY <1>3, <1>12 DEF Window
  <2>3. ASSUME Open(browser'), NEW y \in Items \ missed
        PROVE  Accounted(browser', disk, queue, flushing, reads', y)
    <3>1. Accounted(browser, disk, queue, flushing, reads, y)
          /\ (y # x /\ Coming(queue, flushing, reads, y) => Coming(queue, flushing, reads', y))
      BY <1>5, <1>7, <2>1, <2>2, <2>3
    <3>2. CASE y = x
      BY <2>1, <2>2, <2>3, <3>1, <3>2 DEF Accounted
    <3>3. CASE y # x
      BY <2>2, <3>1, <3>3 DEF Accounted
    <3> QED  BY <3>2, <3>3
  <2> QED  BY <1>1, <1>7, <2>2, <2>3 DEF Accounting, AllAccounted
<1> QED  BY <1>4, <1>9, <1>10, <1>11, <1>12

LEMMA InitAccounting == Init => Accounting
<1> SUFFICES ASSUME Init  PROVE Accounting
  OBVIOUS
<1>1. browser.location = NoFolder /\ \A i \in Slots : browser.loads[i].at = "free"
  BY DEF Init, FreeLoad
<1> QED  BY <1>1 DEF Accounting, QueriesOK, QueryOK, AllAccounted, Open

LEMMA NextAccounts == BInv /\ Accounting /\ [Next]_lvars => Accounting'
<1>1. BInv /\ Accounting /\ User => Accounting'
  BY GoToAccounts, ListChildrenAccounts, TravelAccounts, ClearHistoryAccounts, StopAccounts
     DEF User
<1>2. ASSUME Accounting, UNCHANGED lvars  PROVE Accounting'
  BY <1>2 DEF lvars, Accounting
<1> QED  BY <1>1, <1>2, MountReadyAccounts, LoadStepsAccount, FolderUnreadableAccounts,
            DiskChangeAccounts, ContentChangeAccounts, FlushAccounts, DeliverAccounts,
            ReadAttributesAccounts, FileAttributesReadyAccounts DEF Next

\* Whatever the order of loads, stops, disk changes, events and queries, what the list
\* shows of the location and what is on disk differ only in items that an event or a
\* query will put right, or that are in doubt (gth-browser.c).
THEOREM AccountingInvariant == Spec => [](BInv /\ Accounting)
<1>1. Init => BInv /\ Accounting
  BY InitBInv, InitAccounting
<1>2. BInv /\ Accounting /\ [Next]_lvars => (BInv /\ Accounting)'
  BY NextStep, NextAccounts
<1> QED  BY <1>1, <1>2, PTL DEF Spec

\* The list shows the files of the location, and the location exists, unless it is being
\* loaded, or an event or a query that is on its way will put it right (gth-browser.c).
THEOREM WindowFollowsDiskHolds == Spec => []WindowFollowsDisk
<1>1. BInv /\ Accounting => WindowFollowsDisk
  BY AccountingShows
<1> QED  BY <1>1, AccountingInvariant, PTL
=============================================================================
