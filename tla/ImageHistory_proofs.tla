------------------------ MODULE ImageHistory_proofs ------------------------
(***************************************************************************)
(* Theorems about ImageHistory, for every length of the history and every  *)
(* number of images.                                                       *)
(***************************************************************************)
EXTENDS ImageHistory, TLAPS

\* An entry that counts as saved holds the image that is in the file, unless the
\* file is yet to be loaded again.
SavedEntries ==
    ~ stale => \A k \in DOMAIN undo : ~ undo[k].unsaved => undo[k].image = saved

HInv ==
    /\ HistoryTypeOK
    /\ HistoryFits
    /\ OldestIsSaved
    /\ SavedEntries
    /\ UnchangedIsSaved
    /\ redo # <<>> => undo # <<>>

(* Adding an image to a list: the new one comes first, the others keep their *)
(* places, and only a list that exceeds the bound is cut.                    *)
LEMMA AddToListSound ==
    ASSUME NEW l \in Seq(ImageData), NEW e \in ImageData
    PROVE  /\ AddToList(l, e) \in Seq(ImageData)
           /\ AddToList(l, e) # <<>>
           /\ Head(AddToList(l, e)) = e
           /\ AddToList(l, e)[1] = e
           /\ Len(AddToList(l, e)) =
                IF Len(l) > MAX_UNDO_HISTORY_LEN THEN MAX_UNDO_HISTORY_LEN
                                                 ELSE Len(l) + 1
           /\ \A k \in 2..Len(AddToList(l, e)) : AddToList(l, e)[k] = l[k - 1]
<1> DEFINE kept == IF Len(l) > MAX_UNDO_HISTORY_LEN
                   THEN SubSeq(l, 1, MAX_UNDO_HISTORY_LEN - 1) ELSE l
<1>1. MAX_UNDO_HISTORY_LEN \in Nat /\ MAX_UNDO_HISTORY_LEN >= 2
  BY HistoryAssumption
<1>2. kept \in Seq(ImageData)
  BY <1>1
<1>3. Len(kept) = IF Len(l) > MAX_UNDO_HISTORY_LEN THEN MAX_UNDO_HISTORY_LEN - 1
                                                   ELSE Len(l)
  BY <1>1
<1>4. \A k \in 1..Len(kept) : kept[k] = l[k]
  BY <1>1, <1>3
<1>5. AddToList(l, e) = <<e>> \o kept
  BY DEF AddToList
<1> HIDE DEF kept
<1> QED  BY <1>1, <1>2, <1>3, <1>4, <1>5

(* The initial state satisfies the invariant. *)
LEMMA InitSound == HInit => HInv
<1> SUFFICES ASSUME HInit PROVE HInv
  OBVIOUS
<1>1. HistoryTypeOK
  <2>1. undo \in Seq(ImageData) /\ redo \in Seq(ImageData)
    BY DEF HInit
  <2>2. 0 \in 0..MaxImages /\ 1 \in 0..MaxImages
    BY HistoryAssumption
  <2> QED  BY <2>1, <2>2 DEF HInit, HistoryTypeOK, Images, NoImage
<1>2. Len(undo) = 0 /\ Len(redo) = 0 /\ DOMAIN undo = {} /\ DOMAIN redo = {}
  BY DEF HInit
<1>3. HistoryFits /\ OldestIsSaved /\ SavedEntries
  BY <1>2, HistoryAssumption DEF HistoryFits, OldestIsSaved, SavedEntries
<1>4. UnchangedIsSaved /\ redo = <<>>
  BY DEF HInit, UnchangedIsSaved
<1> QED  BY <1>1, <1>3, <1>4 DEF HInv

(* Undo moves the current image to a redo list that has room for it. *)
LEMMA UndoSound ==
    ASSUME HInv, Undo
    PROVE  /\ redo' = <<Head(undo)>> \o redo
           /\ HInv'
<1>1. MAX_UNDO_HISTORY_LEN \in Nat /\ MAX_UNDO_HISTORY_LEN >= 2
  BY HistoryAssumption
<1>2. undo \in Seq(ImageData) /\ redo \in Seq(ImageData) /\ Len(undo) >= 2
  BY DEF HInv, HistoryTypeOK, Undo, CanUndo
<1>3. Len(redo) <= MAX_UNDO_HISTORY_LEN
  BY <1>1, <1>2 DEF HInv, HistoryFits
<1>4. redo' = <<Head(undo)>> \o redo
  BY <1>3, <1>2, <1>1 DEF Undo, AddToList
<1>5. undo' = Tail(undo)
  BY DEF Undo
<1>6. /\ undo' \in Seq(ImageData) /\ redo' \in Seq(ImageData)
      /\ Len(undo') = Len(undo) - 1 /\ Len(redo') = Len(redo) + 1
      /\ \A k \in 1..Len(undo') : undo'[k] = undo[k + 1]
      /\ redo'[1] = undo[1]
      /\ \A k \in 2..Len(redo') : redo'[k] = redo[k - 1]
  BY <1>2, <1>4, <1>5
<1>7. undo' # <<>> /\ Head(undo') = undo[2] /\ undo[2] \in ImageData /\ undo[1] \in ImageData
  BY <1>2, <1>6
<1>8. shown' = undo[2].image /\ changed' = undo[2].unsaved
      /\ UNCHANGED <<saved, stale, made>>
  BY <1>7 DEF Undo, SetImage
<1>9. HistoryTypeOK'
  BY <1>6, <1>7, <1>8 DEF HInv, HistoryTypeOK, ImageData
<1>10. HistoryFits'
  BY <1>2, <1>6, <1>1 DEF HInv, HistoryFits
<1>11. undo[1].unsaved
  BY <1>2 DEF HInv, OldestIsSaved
<1>12. \A k \in DOMAIN undo' : k + 1 \in DOMAIN undo /\ undo'[k] = undo[k + 1]
  <2>1. ASSUME NEW k \in DOMAIN undo'
        PROVE  k + 1 \in DOMAIN undo /\ undo'[k] = undo[k + 1]
    <3>1. k \in 1..Len(undo')
      BY <2>1, <1>6
    <3> QED  BY <3>1, <1>2, <1>6
  <2> QED  BY <2>1
<1>13. \A k \in DOMAIN redo' :
          \/ redo'[k] = undo[1]
          \/ k - 1 \in DOMAIN redo /\ redo'[k] = redo[k - 1]
  <2>1. ASSUME NEW k \in DOMAIN redo', k # 1
        PROVE  k - 1 \in DOMAIN redo /\ redo'[k] = redo[k - 1]
    <3>1. k \in 2..Len(redo')
      BY <2>1, <1>6
    <3> QED  BY <3>1, <1>2, <1>6
  <2> QED  BY <2>1, <1>6
<1>14. OldestIsSaved'
  <2>1. ASSUME NEW k \in DOMAIN undo', ~ undo'[k].unsaved  PROVE k = Len(undo')
    <3>1. k + 1 = Len(undo)
      BY <2>1, <1>12 DEF HInv, OldestIsSaved
    <3> QED  BY <3>1, <1>2, <1>6
  <2>2. ASSUME NEW k \in DOMAIN redo'  PROVE redo'[k].unsaved
    BY <2>2, <1>11, <1>13 DEF HInv, OldestIsSaved
  <2> QED  BY <2>1, <2>2 DEF OldestIsSaved
<1>15. SavedEntries'
  BY <1>8, <1>12 DEF HInv, SavedEntries
<1>16. UnchangedIsSaved'
  BY <1>2, <1>8 DEF HInv, SavedEntries, UnchangedIsSaved
<1> QED  BY <1>4, <1>7, <1>9, <1>10, <1>14, <1>15, <1>16 DEF HInv

(* Redo gives it back to an undo list that has room for it. *)
LEMMA RedoSound ==
    ASSUME HInv, Redo
    PROVE  /\ undo' = <<Head(redo)>> \o undo
           /\ HInv'
<1>1. MAX_UNDO_HISTORY_LEN \in Nat /\ MAX_UNDO_HISTORY_LEN >= 2
  BY HistoryAssumption
<1>2. undo \in Seq(ImageData) /\ redo \in Seq(ImageData) /\ Len(redo) >= 1 /\ Len(undo) >= 1
  BY DEF HInv, HistoryTypeOK, Redo, CanRedo
<1>3. Len(undo) <= MAX_UNDO_HISTORY_LEN
  BY <1>1, <1>2 DEF HInv, HistoryFits
<1>4. undo' = <<Head(redo)>> \o undo
  BY <1>3, <1>2, <1>1 DEF Redo, AddToList
<1>5. redo' = Tail(redo)
  BY DEF Redo
<1>6. /\ undo' \in Seq(ImageData) /\ redo' \in Seq(ImageData)
      /\ Len(redo') = Len(redo) - 1 /\ Len(undo') = Len(undo) + 1
      /\ \A k \in 1..Len(redo') : redo'[k] = redo[k + 1]
      /\ undo'[1] = redo[1]
      /\ \A k \in 2..Len(undo') : undo'[k] = undo[k - 1]
  BY <1>2, <1>4, <1>5
<1>7. redo[1] \in ImageData /\ Head(redo) = redo[1] /\ undo' # <<>>
  BY <1>2, <1>6
<1>8. shown' = redo[1].image /\ changed' = redo[1].unsaved
      /\ UNCHANGED <<saved, stale, made>>
  BY <1>7 DEF Redo, SetImage
<1>9. HistoryTypeOK'
  BY <1>6, <1>7, <1>8 DEF HInv, HistoryTypeOK, ImageData
<1>10. HistoryFits'
  BY <1>2, <1>6, <1>1 DEF HInv, HistoryFits
<1>11. redo[1].unsaved
  BY <1>2 DEF HInv, OldestIsSaved
<1>12. \A k \in DOMAIN redo' : k + 1 \in DOMAIN redo /\ redo'[k] = redo[k + 1]
  <2>1. ASSUME NEW k \in DOMAIN redo'
        PROVE  k + 1 \in DOMAIN redo /\ redo'[k] = redo[k + 1]
    <3>1. k \in 1..Len(redo')
      BY <2>1, <1>6
    <3> QED  BY <3>1, <1>2, <1>6
  <2> QED  BY <2>1
<1>13. \A k \in DOMAIN undo' :
          \/ undo'[k] = redo[1]
          \/ k - 1 \in DOMAIN undo /\ undo'[k] = undo[k - 1]
  <2>1. ASSUME NEW k \in DOMAIN undo', k # 1
        PROVE  k - 1 \in DOMAIN undo /\ undo'[k] = undo[k - 1]
    <3>1. k \in 2..Len(undo')
      BY <2>1, <1>6
    <3> QED  BY <3>1, <1>2, <1>6
  <2> QED  BY <2>1, <1>6
<1>14. OldestIsSaved'
  <2>1. ASSUME NEW k \in DOMAIN undo', ~ undo'[k].unsaved  PROVE k = Len(undo')
    <3>1. k - 1 = Len(undo)
      BY <2>1, <1>11, <1>13 DEF HInv, OldestIsSaved
    <3> QED  BY <3>1, <1>2, <1>6
  <2>2. ASSUME NEW k \in DOMAIN redo'  PROVE redo'[k].unsaved
    BY <2>2, <1>12 DEF HInv, OldestIsSaved
  <2> QED  BY <2>1, <2>2 DEF OldestIsSaved
<1>15. SavedEntries'
  BY <1>8, <1>11, <1>13 DEF HInv, SavedEntries
<1>16. UnchangedIsSaved'
  BY <1>8, <1>11 DEF UnchangedIsSaved
<1> QED  BY <1>4, <1>7, <1>9, <1>10, <1>14, <1>15, <1>16 DEF HInv

(* Adding an image to the history forgets what was undone. *)
LEMMA AddImageSound ==
    ASSUME HInv, NEW i \in Images, AddImage(i, TRUE)
    PROVE  /\ undo' \in Seq(ImageData) /\ undo' # <<>>
           /\ redo' = <<>>
           /\ HistoryFits' /\ OldestIsSaved'
           /\ saved' = saved /\ stale' = stale => SavedEntries'
<1> DEFINE d == [image |-> i, unsaved |-> TRUE]
<1>1. d \in ImageData /\ d.unsaved = TRUE
  BY DEF ImageData
<1>2. undo \in Seq(ImageData)
  BY DEF HInv, HistoryTypeOK
<1>3. undo' = AddToList(undo, d) /\ redo' = <<>>
  BY DEF AddImage
<1>4. MAX_UNDO_HISTORY_LEN \in Nat /\ MAX_UNDO_HISTORY_LEN >= 2
  BY HistoryAssumption
<1> HIDE DEF d
<1>5. /\ undo' \in Seq(ImageData) /\ undo' # <<>>
      /\ undo'[1] = d
      /\ Len(undo') = IF Len(undo) > MAX_UNDO_HISTORY_LEN THEN MAX_UNDO_HISTORY_LEN
                                                          ELSE Len(undo) + 1
      /\ \A k \in 2..Len(undo') : undo'[k] = undo[k - 1]
  BY <1>1, <1>2, <1>3, AddToListSound
<1>6. Len(redo') = 0 /\ DOMAIN redo' = {}
  BY <1>3
<1>7. Len(undo) \in Nat /\ Len(undo') \in Nat
  BY <1>2, <1>5
<1>8. HistoryFits'
  BY <1>4, <1>5, <1>6, <1>7 DEF HistoryFits
<1>9. ASSUME NEW k \in DOMAIN undo', ~ undo'[k].unsaved
      PROVE  k = Len(undo') /\ k - 1 = Len(undo) /\ k - 1 \in DOMAIN undo
             /\ undo'[k] = undo[k - 1]
  <2>1. k \in 1..Len(undo') /\ k # 1
    BY <1>9, <1>5, <1>1
  <2>2. k - 1 \in DOMAIN undo /\ undo'[k] = undo[k - 1]
    BY <2>1, <1>5, <1>7, <1>2, <1>4
  <2>3. k - 1 = Len(undo)
    BY <2>2, <1>9 DEF HInv, OldestIsSaved
  <2> QED  BY <2>1, <2>2, <2>3, <1>5, <1>7
<1>10. OldestIsSaved'
  BY <1>9, <1>6 DEF OldestIsSaved
<1>11. saved' = saved /\ stale' = stale => SavedEntries'
  BY <1>9 DEF HInv, SavedEntries
<1> QED  BY <1>3, <1>5, <1>8, <1>10, <1>11

(* Every step preserves the invariant. *)
LEMMA StepSound == HInv /\ [HNext]_hvars => HInv'
<1> SUFFICES ASSUME HInv, [HNext]_hvars  PROVE HInv'
  OBVIOUS
<1> USE DEF HInv
<1>0. MAX_UNDO_HISTORY_LEN \in Nat /\ MAX_UNDO_HISTORY_LEN >= 2 /\ MaxImages \in Nat
  BY HistoryAssumption
<1>1. CASE Load
  <2>1. undo' = <<[image |-> saved, unsaved |-> FALSE]>> /\ redo' = <<>>
        /\ shown' = saved /\ saved' = saved /\ made' = made
        /\ changed' = FALSE /\ stale' = FALSE
    BY <1>1 DEF Load, ClearAndAdd
  <2>2. saved \in Images
    BY DEF HistoryTypeOK
  <2>3. /\ undo' \in Seq(ImageData) /\ Len(undo') = 1 /\ Len(redo') = 0
        /\ DOMAIN undo' = {1} /\ DOMAIN redo' = {} /\ redo' \in Seq(ImageData)
        /\ undo'[1].image = saved
    BY <2>1, <2>2 DEF ImageData
  <2>4. HistoryTypeOK'
    BY <2>1, <2>2, <2>3 DEF HistoryTypeOK
  <2>5. HistoryFits' /\ OldestIsSaved' /\ SavedEntries' /\ UnchangedIsSaved'
    BY <2>1, <2>3, <1>0 DEF HistoryFits, OldestIsSaved, SavedEntries, UnchangedIsSaved
  <2> QED  BY <2>1, <2>4, <2>5
<1>2. CASE Edit
  <2>1. made + 1 \in Images /\ made + 1 \in 0..MaxImages
    BY <1>2, <1>0 DEF Edit, HistoryTypeOK, Images
  <2>2. AddImage(made + 1, TRUE) /\ shown' = made + 1 /\ changed' = TRUE
        /\ made' = made + 1 /\ saved' = saved /\ stale' = stale
    BY <1>2 DEF Edit, SetImage
  <2>3. /\ undo' \in Seq(ImageData) /\ undo' # <<>> /\ redo' = <<>>
        /\ HistoryFits' /\ OldestIsSaved' /\ SavedEntries'
    BY <2>1, <2>2, AddImageSound
  <2>4. HistoryTypeOK' /\ UnchangedIsSaved'
    BY <2>1, <2>2, <2>3 DEF HistoryTypeOK, UnchangedIsSaved
  <2> QED  BY <2>3, <2>4
<1>3. CASE Preview
  <2>1. made + 1 \in Images /\ made + 1 \in 0..MaxImages
    BY <1>3, <1>0 DEF Preview, HistoryTypeOK, Images
  <2>2. shown' = made + 1 /\ changed' = TRUE /\ made' = made + 1
        /\ UNCHANGED <<undo, redo, saved, stale>>
    BY <1>3 DEF Preview, SetImage
  <2> QED  BY <2>1, <2>2 DEF HistoryTypeOK, HistoryFits, OldestIsSaved, SavedEntries,
                              UnchangedIsSaved
<1>4. CASE Reset
  <2>1. undo[1] \in ImageData /\ Head(undo) = undo[1] /\ 1 \in DOMAIN undo
    BY <1>4 DEF Reset, HistoryTypeOK
  <2>2. shown' = undo[1].image /\ changed' = undo[1].unsaved
        /\ UNCHANGED <<undo, redo, saved, stale, made>>
    BY <1>4, <2>1 DEF Reset, SetImage
  <2>3. HistoryTypeOK'
    BY <2>1, <2>2 DEF HistoryTypeOK, ImageData
  <2>4. UnchangedIsSaved'
    BY <2>1, <2>2 DEF SavedEntries, UnchangedIsSaved
  <2> QED  BY <2>2, <2>3, <2>4 DEF HistoryFits, OldestIsSaved, SavedEntries
<1>5. CASE Undo
  BY <1>5, UndoSound
<1>6. CASE Redo
  BY <1>6, RedoSound
<1>7. CASE Revert
  <2>1. undo' = <<>> /\ redo' = <<>> /\ UNCHANGED <<saved, stale, made>>
    BY <1>7 DEF Revert
  <2>2. /\ undo' \in Seq(ImageData) /\ redo' \in Seq(ImageData)
        /\ Len(undo') = 0 /\ Len(redo') = 0
        /\ DOMAIN undo' = {} /\ DOMAIN redo' = {}
    BY <2>1
  <2>3. HistoryFits' /\ OldestIsSaved' /\ SavedEntries'
    BY <2>2, <1>0 DEF HistoryFits, OldestIsSaved, SavedEntries
  <2>4. CASE LastSaved = {} /\ UNCHANGED <<shown, changed>>
    BY <2>1, <2>2, <2>3, <2>4 DEF HistoryTypeOK, UnchangedIsSaved
  <2>5. CASE \E d \in LastSaved : SetImage(d)
    <3>1. PICK k \in DOMAIN undo : ~ undo[k].unsaved /\ SetImage(undo[k])
      BY <2>5 DEF LastSaved
    <3>2. shown' = undo[k].image /\ changed' = undo[k].unsaved /\ undo[k] \in ImageData
      BY <3>1 DEF SetImage, HistoryTypeOK
    <3>3. HistoryTypeOK'
      BY <2>1, <2>2, <3>2 DEF HistoryTypeOK, ImageData
    <3>4. UnchangedIsSaved'
      BY <2>1, <3>1, <3>2 DEF SavedEntries, UnchangedIsSaved
    <3> QED  BY <2>1, <2>3, <3>3, <3>4
  <2> QED  BY <1>7, <2>4, <2>5 DEF Revert
<1>8. CASE Save
  BY <1>8 DEF Save, HistoryTypeOK, HistoryFits, OldestIsSaved, SavedEntries,
              UnchangedIsSaved
<1>9. CASE FileChanged
  <2>1. made + 1 \in Images /\ made + 1 \in 0..MaxImages
    BY <1>9, <1>0 DEF FileChanged, HistoryTypeOK, Images
  <2> QED  BY <1>9, <2>1 DEF FileChanged, HistoryTypeOK, HistoryFits, OldestIsSaved,
                              SavedEntries, UnchangedIsSaved
<1>10. CASE UNCHANGED hvars
  BY <1>10 DEF hvars, HistoryTypeOK, HistoryFits, OldestIsSaved, SavedEntries,
               UnchangedIsSaved
<1> QED  BY <1>1, <1>2, <1>3, <1>4, <1>5, <1>6, <1>7, <1>8, <1>9, <1>10 DEF HNext

\* The inductive invariant of the editing of an image.
THEOREM HistoryInvariant == HSpec => []HInv
BY InitSound, StepSound, PTL DEF HSpec

\* Undo and redo never lose an image to the bound of the lists.
THEOREM HistoryFitsHolds == HSpec => []HistoryFits
<1>1. HInv => HistoryFits
  BY DEF HInv
<1> QED  BY <1>1, HistoryInvariant, PTL

\* An image that the page calls unchanged is the one in the file.
THEOREM UnchangedIsSavedHolds == HSpec => []UnchangedIsSaved
<1>1. HInv => UnchangedIsSaved
  BY DEF HInv
<1> QED  BY <1>1, HistoryInvariant, PTL

-----------------------------------------------------------------------------
(* The refinement *)

(* The line is a sequence of images. *)
LEMMA LineType ==
    ASSUME NEW u \in Seq(ImageData), NEW r \in Seq(ImageData)
    PROVE  /\ LineOf(u, r) \in Seq(Images)
           /\ Len(LineOf(u, r)) = Len(u) + Len(r)
           /\ \A k \in 1..Len(u) : LineOf(u, r)[k] = u[Len(u) + 1 - k].image
           /\ \A k \in 1..Len(r) : LineOf(u, r)[Len(u) + k] = r[k].image
<1> DEFINE n == Len(u)
           m == Len(r)
<1>1. n \in Nat /\ m \in Nat
  OBVIOUS
<1>2. ASSUME NEW k \in 1..(n + m)
      PROVE  (IF k <= n THEN u[n + 1 - k].image ELSE r[k - n].image) \in Images
  <2>1. CASE k <= n
    <3>1. u[n + 1 - k] \in ImageData
      BY <1>1, <2>1
    <3> QED  BY <2>1, <3>1 DEF ImageData
  <2>2. CASE ~ (k <= n)
    <3>1. r[k - n] \in ImageData
      BY <1>1, <2>2
    <3> QED  BY <2>2, <3>1 DEF ImageData
  <2> QED  BY <2>1, <2>2
<1>3. LineOf(u, r) = [k \in 1..(n + m) |-> IF k <= n THEN u[n + 1 - k].image
                                                     ELSE r[k - n].image]
  BY DEF LineOf
<1> HIDE DEF n, m
<1>4. LineOf(u, r) \in [1..(n + m) -> Images]
  BY <1>2, <1>3
<1>5. LineOf(u, r) \in Seq(Images) /\ Len(LineOf(u, r)) = n + m
  BY <1>1, <1>4
<1>6. \A k \in 1..n : LineOf(u, r)[k] = u[n + 1 - k].image
  BY <1>1, <1>3
<1>7. ASSUME NEW k \in 1..m  PROVE LineOf(u, r)[n + k] = r[k].image
  <2>1. n + k \in 1..(n + m) /\ ~ (n + k <= n) /\ (n + k) - n = k
    BY <1>1
  <2> QED  BY <2>1, <1>3
<1> QED  BY <1>5, <1>6, <1>7 DEF n, m

(* Two sequences of one length that agree everywhere are equal. *)
LEMMA SameSequence ==
    ASSUME NEW S, NEW s \in Seq(S), NEW t \in Seq(S), Len(s) = Len(t),
           \A k \in 1..Len(s) : s[k] = t[k]
    PROVE  s = t
OBVIOUS

(* Moving the first image of one list to the other leaves the line alone. *)
LEMMA MoveKeepsLine ==
    ASSUME NEW u \in Seq(ImageData), NEW r \in Seq(ImageData), Len(u) >= 1
    PROVE  LineOf(Tail(u), <<Head(u)>> \o r) = LineOf(u, r)
<1> DEFINE v == Tail(u)
           w == <<Head(u)>> \o r
<1>1. /\ v \in Seq(ImageData) /\ w \in Seq(ImageData)
      /\ Len(v) = Len(u) - 1 /\ Len(w) = Len(r) + 1
      /\ \A k \in 1..Len(v) : v[k] = u[k + 1]
      /\ w[1] = u[1]
      /\ \A k \in 1..Len(r) : w[k + 1] = r[k]
  OBVIOUS
<1> HIDE DEF v, w
<1>2. Len(u) \in Nat /\ Len(r) \in Nat
  OBVIOUS
<1>3. LineOf(u, r) \in Seq(Images) /\ Len(LineOf(u, r)) = Len(u) + Len(r)
  BY LineType
<1>4. LineOf(v, w) \in Seq(Images) /\ Len(LineOf(v, w)) = Len(u) + Len(r)
  <2>1. LineOf(v, w) \in Seq(Images) /\ Len(LineOf(v, w)) = Len(v) + Len(w)
    BY <1>1, LineType
  <2> QED  BY <2>1, <1>1, <1>2
<1>5. ASSUME NEW k \in 1..(Len(u) + Len(r))  PROVE LineOf(v, w)[k] = LineOf(u, r)[k]
  <2>1. CASE k < Len(u)
    <3>1. k \in 1..Len(v) /\ Len(v) + 1 - k \in 1..Len(v)
          /\ (Len(v) + 1 - k) + 1 = Len(u) + 1 - k /\ k \in 1..Len(u)
      BY <1>1, <1>2, <2>1
    <3>2. LineOf(v, w)[k] = v[Len(v) + 1 - k].image
      BY <3>1, <1>1, LineType
    <3>3. LineOf(u, r)[k] = u[Len(u) + 1 - k].image
      BY <3>1, LineType
    <3> QED  BY <3>1, <3>2, <3>3, <1>1
  <2>2. CASE k = Len(u)
    <3>1. k = Len(v) + 1 /\ 1 \in 1..Len(w) /\ k \in 1..Len(u) /\ Len(u) + 1 - k = 1
      BY <1>1, <1>2, <2>2
    <3>2. LineOf(v, w)[k] = w[1].image
      BY <3>1, <1>1, LineType
    <3>3. LineOf(u, r)[k] = u[1].image
      <4>1. LineOf(u, r)[k] = u[Len(u) + 1 - k].image
        BY <3>1, LineType
      <4> QED  BY <3>1, <4>1
    <3> QED  BY <3>2, <3>3, <1>1
  <2>3. CASE k > Len(u)
    <3>1. PICK j \in 1..Len(r) : k = Len(u) + j
      <4>1. k - Len(u) \in 1..Len(r) /\ k = Len(u) + (k - Len(u))
        BY <1>2, <2>3
      <4> QED  BY <4>1
    <3>2. j + 1 \in 1..Len(w) /\ k = Len(v) + (j + 1)
      BY <3>1, <1>1, <1>2
    <3>3. LineOf(v, w)[k] = w[j + 1].image
      BY <3>2, <1>1, LineType
    <3>4. LineOf(u, r)[k] = r[j].image
      BY <3>1, LineType
    <3> QED  BY <3>1, <3>3, <3>4, <1>1
  <2> QED  BY <2>1, <2>2, <2>3, <1>2
<1>6. LineOf(v, w) = LineOf(u, r)
  BY <1>2, <1>3, <1>4, <1>5, SameSequence
<1> QED  BY <1>6 DEF v, w

(* How much a list of length l forgets when it is cut to m - 1 images. *)
LEMMA Forgotten ==
    ASSUME NEW l \in Nat, NEW m \in Nat, m >= 2
    PROVE  LET f == IF l > m THEN l - (m - 1) ELSE 0
           IN  /\ f \in 0..l /\ l - f \in Nat
               /\ l - f >= IF l < m - 1 THEN l ELSE m - 1
<1>1. CASE l > m
  <2>1. l - (m - 1) \in 0..l /\ l - (l - (m - 1)) = m - 1 /\ m - 1 \in Nat
    BY <1>1
  <2> QED  BY <1>1, <2>1
<1>2. CASE ~ (l > m)
  BY <1>2
<1> QED  BY <1>1, <1>2

(* An edit cuts the line at the cursor, may forget its beginning, and appends *)
(* the new image.                                                            *)
LEMMA EditLine ==
    ASSUME NEW u \in Seq(ImageData), NEW r \in Seq(ImageData), NEW e \in ImageData
    PROVE  \E f \in 0..Len(u) :
              /\ Len(u) - f >= IF Len(u) < MAX_UNDO_HISTORY_LEN - 1
                               THEN Len(u) ELSE MAX_UNDO_HISTORY_LEN - 1
              /\ Len(AddToList(u, e)) = Len(u) - f + 1
              /\ LineOf(AddToList(u, e), <<>>) =
                   Append(SubSeq(LineOf(u, r), f + 1, Len(u)), e.image)
<1> DEFINE f == IF Len(u) > MAX_UNDO_HISTORY_LEN
                THEN Len(u) - (MAX_UNDO_HISTORY_LEN - 1) ELSE 0
           v == AddToList(u, e)
           n == Len(u) - f
           cut == Append(SubSeq(LineOf(u, r), f + 1, Len(u)), e.image)
<1>1. MAX_UNDO_HISTORY_LEN \in Nat /\ MAX_UNDO_HISTORY_LEN >= 2 /\ Len(u) \in Nat
      /\ Len(r) \in Nat
  BY HistoryAssumption
<1>2. /\ f \in 0..Len(u) /\ n \in Nat
      /\ n >= IF Len(u) < MAX_UNDO_HISTORY_LEN - 1 THEN Len(u) ELSE MAX_UNDO_HISTORY_LEN - 1
  BY <1>1, Forgotten
<1>3. /\ v \in Seq(ImageData) /\ v[1] = e
      /\ Len(v) = IF Len(u) > MAX_UNDO_HISTORY_LEN THEN MAX_UNDO_HISTORY_LEN ELSE Len(u) + 1
      /\ \A k \in 2..Len(v) : v[k] = u[k - 1]
  BY AddToListSound
<1>4. Len(v) = n + 1
  BY <1>1, <1>3
<1>5. LineOf(u, r) \in Seq(Images) /\ Len(LineOf(u, r)) = Len(u) + Len(r)
  BY LineType
<1>6. e.image \in Images
  BY DEF ImageData
<1>7. n = Len(u) - f
  OBVIOUS
<1> HIDE DEF f, v, n
<1>8. /\ cut \in Seq(Images) /\ Len(cut) = n + 1
      /\ \A k \in 1..n : cut[k] = LineOf(u, r)[f + k]
      /\ cut[n + 1] = e.image
  <2> DEFINE part == SubSeq(LineOf(u, r), f + 1, Len(u))
  <2>1. part \in Seq(Images) /\ Len(part) = n
    BY <1>1, <1>2, <1>5, <1>7
  <2>2. \A k \in 1..n : part[k] = LineOf(u, r)[f + k]
    BY <1>1, <1>2, <1>5, <1>7
  <2> HIDE DEF part
  <2>3. Append(part, e.image) \in Seq(Images) /\ Len(Append(part, e.image)) = n + 1
        /\ (\A k \in 1..n : Append(part, e.image)[k] = part[k])
        /\ Append(part, e.image)[n + 1] = e.image
    BY <2>1, <1>6, <1>2
  <2> QED  BY <2>2, <2>3 DEF part
<1> HIDE DEF cut
<1>9. LineOf(v, <<>>) \in Seq(Images) /\ Len(LineOf(v, <<>>)) = n + 1
  <2>1. <<>> \in Seq(ImageData) /\ Len(<<>>) = 0
    OBVIOUS
  <2>2. LineOf(v, <<>>) \in Seq(Images) /\ Len(LineOf(v, <<>>)) = Len(v) + Len(<<>>)
    BY <2>1, <1>3, LineType
  <2> QED  BY <2>1, <2>2, <1>4, <1>2
<1>10. \A k \in 1..Len(v) : LineOf(v, <<>>)[k] = v[Len(v) + 1 - k].image
  <2>1. <<>> \in Seq(ImageData)
    OBVIOUS
  <2> QED  BY <2>1, <1>3, LineType
<1>11. ASSUME NEW k \in 1..(n + 1)  PROVE LineOf(v, <<>>)[k] = cut[k]
  <2>1. CASE k = n + 1
    <3>1. k \in 1..Len(v) /\ Len(v) + 1 - k = 1
      BY <2>1, <1>4, <1>2
    <3>2. LineOf(v, <<>>)[k] = v[1].image
      <4>1. LineOf(v, <<>>)[k] = v[Len(v) + 1 - k].image
        BY <3>1, <1>10
      <4> QED  BY <3>1, <4>1
    <3> QED  BY <2>1, <3>2, <1>3, <1>8
  <2>2. CASE k # n + 1
    <3>1. k \in 1..n /\ k \in 1..Len(v) /\ Len(v) + 1 - k \in 2..Len(v)
          /\ f + k \in 1..Len(u)
          /\ (Len(v) + 1 - k) - 1 = Len(u) + 1 - (f + k)
      BY <2>2, <1>1, <1>2, <1>4, <1>7
    <3>2. LineOf(v, <<>>)[k] = v[Len(v) + 1 - k].image
      BY <3>1, <1>10
    <3>3. v[Len(v) + 1 - k] = u[(Len(v) + 1 - k) - 1]
      BY <3>1, <1>3
    <3>4. LineOf(u, r)[f + k] = u[Len(u) + 1 - (f + k)].image
      BY <3>1, LineType
    <3>5. cut[k] = LineOf(u, r)[f + k]
      BY <3>1, <1>8
    <3> QED  BY <3>1, <3>2, <3>3, <3>4, <3>5
  <2> QED  BY <2>1, <2>2
<1>12. LineOf(v, <<>>) = cut
  BY <1>8, <1>9, <1>11, SameSequence
<1> QED  BY <1>2, <1>4, <1>7, <1>12 DEF v, cut

(* Every step is a step of the timeline, or leaves it alone. *)
LEMMA StepRefines == HInv /\ HInv' /\ [HNext]_hvars => [Timeline!TimelineNext]_(Timeline!tvars)
<1> SUFFICES ASSUME HInv, HInv', [HNext]_hvars
             PROVE  [Timeline!TimelineNext]_(Timeline!tvars)
  OBVIOUS
<1>0. /\ undo \in Seq(ImageData) /\ redo \in Seq(ImageData)
      /\ undo' \in Seq(ImageData) /\ redo' \in Seq(ImageData)
      /\ shown' \in Images /\ saved \in Images
  BY DEF HInv, HistoryTypeOK
<1>1. CASE Load
  <2> DEFINE d == [image |-> saved, unsaved |-> FALSE]
  <2>1. undo' = <<d>> /\ redo' = <<>> /\ shown' = saved
    BY <1>1 DEF Load, ClearAndAdd
  <2>2. Len(<<d>>) = 1 /\ Len(<<>>) = 0 /\ <<d>>[1].image = saved
    OBVIOUS
  <2>3. LineOf(<<d>>, <<>>) = [k \in 1..1 |-> saved]
    BY <2>2 DEF LineOf
  <2>4. LineOf(undo', redo') = <<saved>> /\ Len(undo') = 1
    BY <2>1, <2>2, <2>3
  <2>5. Timeline!Start
    BY <2>1, <2>4, <1>0 DEF Timeline!Start
  <2> QED  BY <2>5 DEF Timeline!TimelineNext
<1>2. CASE Edit
  <2> DEFINE d == [image |-> made + 1, unsaved |-> TRUE]
  <2>1. undo' = AddToList(undo, d) /\ redo' = <<>> /\ shown' = made + 1
    BY <1>2 DEF Edit, AddImage, SetImage
  <2>2. made + 1 \in Images
    BY <2>1, <1>0
  <2>3. d \in ImageData /\ d.image = made + 1
    BY <2>2 DEF ImageData
  <2> HIDE DEF d
  <2>4. PICK f \in 0..Len(undo) :
              /\ Len(undo) - f >= IF Len(undo) < MAX_UNDO_HISTORY_LEN - 1
                                  THEN Len(undo) ELSE MAX_UNDO_HISTORY_LEN - 1
              /\ Len(AddToList(undo, d)) = Len(undo) - f + 1
              /\ LineOf(AddToList(undo, d), <<>>) =
                   Append(SubSeq(LineOf(undo, redo), f + 1, Len(undo)), d.image)
    BY <1>0, <2>3, EditLine
  <2>5. Timeline!Edit
    BY <2>1, <2>2, <2>3, <2>4 DEF Timeline!Edit
  <2> QED  BY <2>5 DEF Timeline!TimelineNext
<1>3. CASE Preview
  BY <1>3, <1>0 DEF Preview, Timeline!TimelineNext, Timeline!Show
<1>4. CASE Reset
  BY <1>4, <1>0 DEF Reset, Timeline!TimelineNext, Timeline!Show
<1>5. CASE Undo
  <2>1. undo' = Tail(undo) /\ redo' = <<Head(undo)>> \o redo /\ Len(undo) >= 2
        /\ shown' = Head(undo').image
    BY <1>5, UndoSound DEF Undo, CanUndo, SetImage
  <2>2. LineOf(undo', redo') = LineOf(undo, redo)
    BY <2>1, <1>0, MoveKeepsLine
  <2>3. Len(undo') = Len(undo) - 1 /\ Head(undo') = undo[2]
    BY <2>1, <1>0
  <2>4. LineOf(undo, redo)[Len(undo) - 1] = undo[2].image
    <3>1. Len(undo) - 1 \in 1..Len(undo) /\ Len(undo) + 1 - (Len(undo) - 1) = 2
      BY <2>1, <1>0
    <3>2. LineOf(undo, redo)[Len(undo) - 1] = undo[Len(undo) + 1 - (Len(undo) - 1)].image
      BY <3>1, <1>0, LineType
    <3> QED  BY <3>1, <3>2
  <2>5. Timeline!Back
    BY <2>1, <2>2, <2>3, <2>4, <1>0 DEF Timeline!Back
  <2> QED  BY <2>5 DEF Timeline!TimelineNext
<1>6. CASE Redo
  <2>1. redo' = Tail(redo) /\ undo' = <<Head(redo)>> \o undo /\ Len(redo) >= 1
        /\ shown' = redo[1].image
    BY <1>6, <1>0, RedoSound DEF Redo, CanRedo, SetImage
  <2>2. Tail(undo') = undo /\ <<Head(undo')>> \o redo' = redo /\ Len(undo') >= 1
        /\ Len(undo') = Len(undo) + 1
    BY <2>1, <1>0
  <2>3. LineOf(undo', redo') = LineOf(undo, redo)
    BY <2>2, <1>0, MoveKeepsLine
  <2>4. Len(LineOf(undo, redo)) = Len(undo) + Len(redo)
        /\ LineOf(undo, redo)[Len(undo) + 1] = redo[1].image
    BY <2>1, <1>0, LineType
  <2>5. Timeline!Forth
    BY <2>1, <2>2, <2>3, <2>4, <1>0 DEF Timeline!Forth
  <2> QED  BY <2>5 DEF Timeline!TimelineNext
<1>7. CASE Revert
  <2>1. undo' = <<>> /\ redo' = <<>>
    BY <1>7 DEF Revert
  <2>2. LineOf(undo', redo') = <<>> /\ Len(undo') = 0
    <3>1. LineOf(undo', redo') \in Seq(Images)
          /\ Len(LineOf(undo', redo')) = Len(undo') + Len(redo')
      BY <1>0, LineType
    <3>2. Len(undo') = 0 /\ Len(redo') = 0
      BY <2>1
    <3> QED  BY <3>1, <3>2
  <2>3. shown' \in {shown} \union {LineOf(undo, redo)[k] : k \in 1..Len(undo)}
    <3>1. CASE LastSaved = {} /\ UNCHANGED <<shown, changed>>
      BY <3>1
    <3>2. CASE \E d \in LastSaved : SetImage(d)
      <4>1. PICK k \in DOMAIN undo : SetImage(undo[k])
        BY <3>2 DEF LastSaved
      <4>2. k \in 1..Len(undo) /\ Len(undo) + 1 - k \in 1..Len(undo)
            /\ Len(undo) + 1 - (Len(undo) + 1 - k) = k
        BY <1>0
      <4>3. LineOf(undo, redo)[Len(undo) + 1 - k] = undo[k].image
        <5>1. LineOf(undo, redo)[Len(undo) + 1 - k]
                = undo[Len(undo) + 1 - (Len(undo) + 1 - k)].image
          BY <4>2, <1>0, LineType
        <5> QED  BY <4>2, <5>1
      <4> QED  BY <4>1, <4>2, <4>3 DEF SetImage
    <3> QED  BY <1>7, <3>1, <3>2 DEF Revert
  <2>4. Timeline!GoBackToSaved
    BY <2>2, <2>3 DEF Timeline!GoBackToSaved
  <2> QED  BY <2>4 DEF Timeline!TimelineNext
<1>8. CASE Save
  BY <1>8 DEF Save, Timeline!tvars
<1>9. CASE FileChanged
  BY <1>9 DEF FileChanged, Timeline!tvars
<1>10. CASE UNCHANGED hvars
  BY <1>10 DEF hvars, Timeline!tvars
<1> QED  BY <1>1, <1>2, <1>3, <1>4, <1>5, <1>6, <1>7, <1>8, <1>9, <1>10 DEF HNext

\* The history implements the timeline, whatever the length of its lists.
THEOREM HistoryRefinesTimeline == HSpec => ImplementsTimeline
<1>1. HInit => Timeline!TimelineInit
  <2> SUFFICES ASSUME HInit PROVE Timeline!TimelineInit
    OBVIOUS
  <2>1. undo = <<>> /\ redo = <<>> /\ shown \in Images /\ Len(undo) = 0 /\ Len(redo) = 0
    BY HistoryAssumption DEF HInit, NoImage, Images
  <2>0. undo \in Seq(ImageData) /\ redo \in Seq(ImageData)
    BY InitSound DEF HInv, HistoryTypeOK
  <2>2. LineOf(undo, redo) \in Seq(Images) /\ Len(LineOf(undo, redo)) = Len(undo) + Len(redo)
    BY <2>0, LineType
  <2>3. LineOf(undo, redo) = <<>>
    BY <2>1, <2>2
  <2> QED  BY <2>1, <2>3 DEF Timeline!TimelineInit
<1> QED
  BY <1>1, StepRefines, HistoryInvariant, PTL DEF HSpec, ImplementsTimeline, Timeline!TimelineSpec

\* The types of the two lists and of the shown image, whatever the length of the lists.
THEOREM HistoryTypes == HSpec => []HistoryTypeOK
<1>1. HInv => HistoryTypeOK
  BY DEF HInv
<1>2. QED
  BY <1>1, HistoryInvariant, PTL

\* At most one image of the two lists is a saved one, and it is the oldest: an image
\* is marked as saved only when a file is loaded and the history starts again with it.
THEOREM OldestIsSavedHolds == HSpec => []OldestIsSaved
<1>1. HInv => OldestIsSaved
  BY DEF HInv
<1>2. QED
  BY <1>1, HistoryInvariant, PTL
=============================================================================
