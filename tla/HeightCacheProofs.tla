-------------------------- MODULE HeightCacheProofs --------------------------
(***************************************************************************)
(* The height cache for any contents, tables and updates: the two caches    *)
(* have the same shape, and every height they hold is that of the row it is *)
(* indexed by, as long as the updates are those the library follows and the *)
(* device is never laid flat.                                               *)
(***************************************************************************)
EXTENDS HeightCacheLemmas

-----------------------------------------------------------------------------
(* Tables, index paths and sections of an update.                           *)

LEMMA Bounds == MaxSections \in Nat /\ MaxRows \in Nat
BY HeightAssumption

LEMMA PlacesAre == (1..MaxSections) \X (1..MaxRows) \subseteq Positions
<1>1. (1..MaxSections) \subseteq Numbers /\ (1..MaxRows) \subseteq Numbers
  BY Bounds DEF Numbers
<1> QED
  BY <1>1 DEF Positions

LEMMA TablesAre ==
    ASSUME NEW t \in Tables
    PROVE  t \in Seq(Seq(Contents))
<1>1. t \in BoundedSeq(RowLists, MaxSections)
  BY DEF Tables
<1>2. PICK m \in 0..MaxSections : t \in [1..m -> RowLists]
  BY <1>1 DEF BoundedSeq, SeqOf
<1>3. \A w \in RowLists : w \in Seq(Contents)
  <2> SUFFICES ASSUME NEW w \in RowLists PROVE w \in Seq(Contents)
    OBVIOUS
  <2>1. PICK n \in 0..MaxRows : w \in [1..n -> Contents]
    BY DEF RowLists, BoundedSeq, SeqOf
  <2>2. n \in Nat
    BY Bounds
  <2> QED
    BY <2>1, <2>2
<1>5. m \in Nat
  BY Bounds
<1>4. t \in [1..m -> Seq(Contents)] /\ m \in Nat
  BY <1>2, <1>3, <1>5
<1> QED
  BY <1>4

LEMMA PathsAre ==
    ASSUME NEW t \in Seq(Seq(Contents)), NEW p \in Paths(t)
    PROVE  /\ p \in Positions /\ p = <<p[1], p[2]>>
           /\ p[1] \in DOMAIN t /\ p[2] \in DOMAIN t[p[1]]
<1>1. PICK s \in DOMAIN t : p \in {s} \X DOMAIN t[s]
  BY DEF Paths
<1>2. p = <<s, p[2]>> /\ p[1] = s /\ p[2] \in DOMAIN t[s]
  BY <1>1
<1>3. t[s] \in Seq(Contents)
  OBVIOUS
<1>4. s \in Numbers /\ p[2] \in Numbers
  BY <1>2, <1>3 DEF Numbers
<1> QED
  BY <1>2, <1>4 DEF Positions

LEMMA PathSetsAre ==
    ASSUME NEW P \in PathSets
    PROVE  P \in SUBSET Positions /\ IsFiniteSet(P)
<1>1. P \in SUBSET ((1..MaxSections) \X (1..MaxRows))
  BY DEF PathSets
<1>2. MaxSections \in Int /\ MaxRows \in Int /\ 1 \in Int
  BY Bounds
<1>3. IsFiniteSet(1..MaxSections) /\ IsFiniteSet(1..MaxRows)
  BY <1>2, FS_Interval
<1>4. IsFiniteSet(P)
  BY <1>1, <1>3, FS_Product, FS_Subset
<1>5. (1..MaxSections) \subseteq Numbers /\ (1..MaxRows) \subseteq Numbers
  BY <1>2 DEF Numbers
<1> QED
  BY <1>1, <1>4, <1>5 DEF Positions

LEMMA SectionSetsAre ==
    ASSUME NEW S \in SectionSets
    PROVE  S \in SUBSET (1..MaxSections) /\ MaxSections \in Nat
BY HeightAssumption DEF SectionSets

LEMMA PathOrdersAre ==
    ASSUME NEW P \in PathSets, NEW paths \in PathOrders(P)
    PROVE  paths \in Seq(Positions) /\ paths \in SetToSeqs(P)
<1>1. paths \in SetToSeqs(P)
  BY DEF PathOrders
<1>2. P \in SUBSET Positions /\ IsFiniteSet(P)
  BY PathSetsAre
<1>3. paths \in Seq(P)
  BY <1>1, <1>2, SetToSeqsIs
<1> QED
  BY <1>1, <1>2, <1>3

\* A cache for each orientation, of the same shape.
Shaped(h) == h \in [Orientations -> Caches] /\ Alike(h["portrait"], h["landscape"])

LEMMA ShapedIs ==
    ASSUME NEW h, h = [o \in Orientations |-> h[o]],
           h["portrait"] \in Caches, h["landscape"] \in Caches,
           Alike(h["portrait"], h["landscape"])
    PROVE  Shaped(h)
BY DEF Shaped, Orientations

LEMMA ShapedHas ==
    ASSUME NEW h, Shaped(h)
    PROVE  /\ h["portrait"] \in Caches /\ h["landscape"] \in Caches
           /\ Alike(h["portrait"], h["landscape"]) /\ Alike(h["landscape"], h["portrait"])
BY DEF Shaped, Orientations, Alike

\* The edits of the library, of both caches.
LEMMA EmptyShaped == Shaped([o \in Orientations |-> <<>>])
BY EmptyRows DEF Shaped, Orientations, Alike

LEMMA BuildCacheShaped ==
    ASSUME NEW h, Shaped(h), NEW p \in Positions
    PROVE  Shaped([o \in Orientations |-> BuildCache(h[o], p)])
<1> DEFINE a == h["portrait"]  b == h["landscape"]
           g == [o \in Orientations |-> BuildCache(h[o], p)]
<1>1. a \in Caches /\ b \in Caches /\ Alike(a, b) /\ Alike(b, a)
  BY ShapedHas
<1>2. g["portrait"] = BuildCache(a, p) /\ g["landscape"] = BuildCache(b, p)
  BY DEF Orientations
<1>3. g = [o \in Orientations |-> g[o]]
  OBVIOUS
<1> HIDE DEF a, b, g
<1>4. BuildCache(a, p) \in Caches /\ BuildCache(b, p) \in Caches
  BY <1>1, BuildCacheIs
<1>5. Alike(BuildCache(a, p), BuildCache(b, p))
  BY <1>1, BuildCacheAlike
<1>6. Shaped(g)
  BY <1>2, <1>3, <1>4, <1>5, ShapedIs
<1> QED
  BY <1>6 DEF g

LEMMA InsertSectionsShaped ==
    ASSUME NEW h, Shaped(h), NEW m \in Nat, NEW S \in SUBSET (1..m)
    PROVE  Shaped([o \in Orientations |-> InsertSections(h[o], S)])
<1> DEFINE a == h["portrait"]  b == h["landscape"]
           g == [o \in Orientations |-> InsertSections(h[o], S)]
<1>1. a \in Caches /\ b \in Caches /\ Alike(a, b) /\ Alike(b, a)
  BY ShapedHas
<1>2. g["portrait"] = InsertSections(a, S) /\ g["landscape"] = InsertSections(b, S)
  BY DEF Orientations
<1>3. g = [o \in Orientations |-> g[o]]
  OBVIOUS
<1> HIDE DEF a, b, g
<1>4. InsertSections(a, S) \in Caches /\ InsertSections(b, S) \in Caches
  BY <1>1, InsertSectionsAlike
<1>5. Alike(InsertSections(a, S), InsertSections(b, S))
  BY <1>1, InsertSectionsAlike
<1>6. Shaped(g)
  BY <1>2, <1>3, <1>4, <1>5, ShapedIs
<1> QED
  BY <1>6 DEF g

LEMMA DeleteSectionsShaped ==
    ASSUME NEW h, Shaped(h), NEW m \in Nat, NEW S \in SUBSET (1..m)
    PROVE  Shaped([o \in Orientations |-> DeleteSections(h[o], S)])
<1> DEFINE a == h["portrait"]  b == h["landscape"]
           g == [o \in Orientations |-> DeleteSections(h[o], S)]
<1>1. a \in Caches /\ b \in Caches /\ Alike(a, b) /\ Alike(b, a)
  BY ShapedHas
<1>2. g["portrait"] = DeleteSections(a, S) /\ g["landscape"] = DeleteSections(b, S)
  BY DEF Orientations
<1>3. g = [o \in Orientations |-> g[o]]
  OBVIOUS
<1> HIDE DEF a, b, g
<1>4. DeleteSections(a, S) \in Caches /\ DeleteSections(b, S) \in Caches
  BY <1>1, DeleteSectionsAlike
<1>5. Alike(DeleteSections(a, S), DeleteSections(b, S))
  BY <1>1, DeleteSectionsAlike
<1>6. Shaped(g)
  BY <1>2, <1>3, <1>4, <1>5, ShapedIs
<1> QED
  BY <1>6 DEF g

LEMMA ReloadSectionsShaped ==
    ASSUME NEW h, Shaped(h), NEW m \in Nat, NEW S \in SUBSET (1..m)
    PROVE  Shaped([o \in Orientations |-> ReloadSections(h[o], S)])
<1> DEFINE a == h["portrait"]  b == h["landscape"]
           g == [o \in Orientations |-> ReloadSections(h[o], S)]
<1>1. a \in Caches /\ b \in Caches /\ Alike(a, b) /\ Alike(b, a)
  BY ShapedHas
<1>2. g["portrait"] = ReloadSections(a, S) /\ g["landscape"] = ReloadSections(b, S)
  BY DEF Orientations
<1>3. g = [o \in Orientations |-> g[o]]
  OBVIOUS
<1> HIDE DEF a, b, g
<1>4. ReloadSections(a, S) \in Caches /\ ReloadSections(b, S) \in Caches
  BY <1>1, ReloadSectionsAlike
<1>5. Alike(ReloadSections(a, S), ReloadSections(b, S))
  BY <1>1, ReloadSectionsAlike
<1>6. Shaped(g)
  BY <1>2, <1>3, <1>4, <1>5, ShapedIs
<1> QED
  BY <1>6 DEF g

LEMMA InsertRowsShaped ==
    ASSUME NEW h, Shaped(h), NEW paths \in Seq(Positions)
    PROVE  Shaped([o \in Orientations |-> InsertRows(h[o], paths)])
<1> DEFINE a == h["portrait"]  b == h["landscape"]
           g == [o \in Orientations |-> InsertRows(h[o], paths)]
<1>1. a \in Caches /\ b \in Caches /\ Alike(a, b) /\ Alike(b, a)
  BY ShapedHas
<1>2. g["portrait"] = InsertRows(a, paths) /\ g["landscape"] = InsertRows(b, paths)
  BY DEF Orientations
<1>3. g = [o \in Orientations |-> g[o]]
  OBVIOUS
<1> HIDE DEF a, b, g
<1>4. InsertRows(a, paths) \in Caches /\ InsertRows(b, paths) \in Caches
  BY <1>1, InsertRowsAlike
<1>5. Alike(InsertRows(a, paths), InsertRows(b, paths))
  BY <1>1, InsertRowsAlike
<1>6. Shaped(g)
  BY <1>2, <1>3, <1>4, <1>5, ShapedIs
<1> QED
  BY <1>6 DEF g

LEMMA DeleteRowsShaped ==
    ASSUME NEW h, Shaped(h), NEW P \in SUBSET Positions, IsFiniteSet(P)
    PROVE  Shaped([o \in Orientations |-> DeleteRows(h[o], P)])
<1> DEFINE a == h["portrait"]  b == h["landscape"]
           g == [o \in Orientations |-> DeleteRows(h[o], P)]
<1>1. a \in Caches /\ b \in Caches /\ Alike(a, b) /\ Alike(b, a)
  BY ShapedHas
<1>2. g["portrait"] = DeleteRows(a, P) /\ g["landscape"] = DeleteRows(b, P)
  BY DEF Orientations
<1>3. g = [o \in Orientations |-> g[o]]
  OBVIOUS
<1> HIDE DEF a, b, g
<1>4. DeleteRows(a, P) \in Caches /\ DeleteRows(b, P) \in Caches
  BY <1>1, DeleteRowsAlike
<1>5. Alike(DeleteRows(a, P), DeleteRows(b, P))
  BY <1>1, DeleteRowsAlike
<1>6. Shaped(g)
  BY <1>2, <1>3, <1>4, <1>5, ShapedIs
<1> QED
  BY <1>6 DEF g

LEMMA ForgetRowsShaped ==
    ASSUME NEW h, Shaped(h), NEW P \in SUBSET Positions, IsFiniteSet(P)
    PROVE  Shaped([o \in Orientations |-> ForgetRows(h[o], P)])
<1> DEFINE a == h["portrait"]  b == h["landscape"]
           g == [o \in Orientations |-> ForgetRows(h[o], P)]
<1>1. a \in Caches /\ b \in Caches /\ Alike(a, b) /\ Alike(b, a)
  BY ShapedHas
<1>2. g["portrait"] = ForgetRows(a, P) /\ g["landscape"] = ForgetRows(b, P)
  BY DEF Orientations
<1>3. g = [o \in Orientations |-> g[o]]
  OBVIOUS
<1> HIDE DEF a, b, g
<1>4. ForgetRows(a, P) \in Caches /\ ForgetRows(b, P) \in Caches
  BY <1>1, ForgetRowsAlike
<1>5. Alike(ForgetRows(a, P), ForgetRows(b, P))
  BY <1>1, ForgetRowsAlike
<1>6. Shaped(g)
  BY <1>2, <1>3, <1>4, <1>5, ShapedIs
<1> QED
  BY <1>6 DEF g

LEMMA ExchangeSectionsShaped ==
    ASSUME NEW h, Shaped(h), NEW s \in Numbers, NEW t \in Numbers, s # t
    PROVE  Shaped([o \in Orientations |-> ExchangeSections(h[o], s, t)])
<1> DEFINE a == h["portrait"]  b == h["landscape"]
           g == [o \in Orientations |-> ExchangeSections(h[o], s, t)]
<1>1. a \in Caches /\ b \in Caches /\ Alike(a, b) /\ Alike(b, a)
  BY ShapedHas
<1>2. g["portrait"] = ExchangeSections(a, s, t) /\ g["landscape"] = ExchangeSections(b, s, t)
  BY DEF Orientations
<1>3. g = [o \in Orientations |-> g[o]]
  OBVIOUS
<1> HIDE DEF a, b, g
<1>4. ExchangeSections(a, s, t) \in Caches /\ ExchangeSections(b, s, t) \in Caches
  BY <1>1, ExchangeSectionsIs
<1>5. Alike(ExchangeSections(a, s, t), ExchangeSections(b, s, t))
  BY <1>1, ExchangeSectionsAlike
<1>6. Shaped(g)
  BY <1>2, <1>3, <1>4, <1>5, ShapedIs
<1> QED
  BY <1>6 DEF g

LEMMA ExchangeRowsShaped ==
    ASSUME NEW h, Shaped(h), NEW p \in Positions, NEW q \in Positions
    PROVE  Shaped([o \in Orientations |-> ExchangeRows(h[o], p, q)])
<1> DEFINE a == h["portrait"]  b == h["landscape"]
           g == [o \in Orientations |-> ExchangeRows(h[o], p, q)]
<1>1. a \in Caches /\ b \in Caches /\ Alike(a, b) /\ Alike(b, a)
  BY ShapedHas
<1>2. g["portrait"] = ExchangeRows(a, p, q) /\ g["landscape"] = ExchangeRows(b, p, q)
  BY DEF Orientations
<1>3. g = [o \in Orientations |-> g[o]]
  OBVIOUS
<1> HIDE DEF a, b, g
<1>4. ExchangeRows(a, p, q) \in Caches /\ ExchangeRows(b, p, q) \in Caches
  BY <1>1, ExchangeRowsIs
<1>5. Alike(ExchangeRows(a, p, q), ExchangeRows(b, p, q))
  BY <1>1, ExchangeRowsAlike
<1>6. Shaped(g)
  BY <1>2, <1>3, <1>4, <1>5, ShapedIs
<1> QED
  BY <1>6 DEF g

-----------------------------------------------------------------------------
(* The type of the state and the shape of the caches.                       *)

ShapeInv ==
    /\ table \in Tables
    /\ device \in Devices
    /\ interface \in Orientations
    /\ automaticallyInvalidateEnabled \in BOOLEAN
    /\ Shaped(heights)

LEMMA ShapeInvIs ==
    ShapeInv <=> TypeOK /\ SameShape
BY DEF ShapeInv, TypeOK, SameShape, Shaped, Alike, Caches, Rows

LEMMA EditShape ==
    ASSUME ShapeInv, NEW new, Shaped(new), table' \in Tables, Invalidate(new)
    PROVE  ShapeInv'
BY DEF ShapeInv, Invalidate

LEMMA MissShape ==
    ASSUME ShapeInv, NEW p \in Paths(table), CacheMiss(p)
    PROVE  ShapeInv'
<1>1. table \in Seq(Seq(Contents)) /\ Shaped(heights) /\ interface \in Orientations
  BY TablesAre DEF ShapeInv
<1>2. p \in Positions /\ p[1] \in DOMAIN table /\ p[2] \in DOMAIN table[p[1]]
  BY <1>1, PathsAre
<1> DEFINE c == [o \in Orientations |-> BuildCache(heights[o], p)]
           y == LayoutHeight(p)  d == Current
<1>3. Shaped(c)
  BY <1>1, <1>2, BuildCacheShaped
<1>4. y \in Heights \cup {NoHeight}
  <2>1. table[p[1]] \in Seq(Contents)
    BY <1>1, <1>2
  <2>2. table[p[1]][p[2]] \in Contents
    BY <1>2, <2>1
  <2> QED
    BY <1>1, <2>2 DEF LayoutHeight, Heights
<1>5. d \in Orientations
  BY DEF Current, CurrentOrientation, Orientations
<1>6. \A o \in Orientations : Covers(c[o], p)
  <2> TAKE o \in Orientations
  <2>1. heights[o] \in Caches
    BY <1>1 DEF Shaped
  <2> QED
    BY <1>2, <2>1, BuildCacheCovers
<1>7. heights' = [c EXCEPT ![d][p[1]][p[2]] = y]
  BY DEF CacheMiss
<1> HIDE DEF c, y, d
<1>8. c[d] \in Caches /\ Covers(c[d], p)
  BY <1>3, <1>5, <1>6 DEF Shaped
<1>9. heights' = [c EXCEPT ![d] = RowSet(c[d], p, y)]
  BY <1>7 DEF RowSet
<1>10. RowSet(c[d], p, y) \in Caches /\ Alike(RowSet(c[d], p, y), c[d])
  BY <1>2, <1>4, <1>8, RowSetIs
<1>11. heights' \in [Orientations -> Caches]
  BY <1>3, <1>5, <1>9, <1>10 DEF Shaped
<1>12. \A o \in Orientations : Alike(heights'[o], c[o])
  <2>1. \A o \in Orientations : Alike(c[o], c[o])
    BY DEF Alike
  <2> QED
    BY <1>3, <1>5, <1>9, <1>10, <2>1 DEF Shaped
<1>13. Alike(heights'["portrait"], heights'["landscape"])
  BY <1>3, <1>12 DEF Shaped, Orientations, Alike
<1> QED
  BY <1>11, <1>13 DEF ShapeInv, CacheMiss, Shaped

LEMMA MovesShape ==
    ASSUME ShapeInv, Moves
    PROVE  ShapeInv'
<1>1. table \in Seq(Seq(Contents)) /\ Shaped(heights)
  BY TablesAre DEF ShapeInv
<1>2. ASSUME NEW s \in 1..MaxSections, NEW t \in 1..MaxSections, s # t, MoveSectionUpdate(s, t)
      PROVE  ShapeInv'
  <2>1. s \in Numbers /\ t \in Numbers
    BY Bounds DEF Numbers
  <2>2. Shaped([o \in Orientations |-> ExchangeSections(heights[o], s, t)])
    BY <1>1, <1>2, <2>1, ExchangeSectionsShaped
  <2> QED
    BY <1>2, <2>2, EditShape DEF MoveSectionUpdate, Show
<1>3. ASSUME NEW p \in Paths(table), NEW q \in (1..MaxSections) \X (1..MaxRows), p # q,
             MoveRowUpdate(p, q)
      PROVE  ShapeInv'
  <2>1. p \in Positions
    BY <1>1, PathsAre
  <2>2. q \in Positions
    BY PlacesAre
  <2>3. Shaped([o \in Orientations |-> ExchangeRows(heights[o], p, q)])
    BY <1>1, <2>1, <2>2, ExchangeRowsShaped
  <2> QED
    BY <1>3, <2>3, EditShape DEF MoveRowUpdate, Show
<1> QED
  BY <1>2, <1>3 DEF Moves

LEMMA ReloadsShape ==
    ASSUME ShapeInv, Reloads
    PROVE  ShapeInv'
<1>1. table \in Seq(Seq(Contents)) /\ Shaped(heights)
  BY TablesAre DEF ShapeInv
<1>2. CASE ReloadData
  BY <1>2, EmptyShaped, EditShape DEF ReloadData, Show
<1>3. CASE ReloadDataWithoutInvalidate
  BY <1>3 DEF ReloadDataWithoutInvalidate, Show, ShapeInv
<1>4. CASE InvalidateAllHeightCache
  BY <1>4, EmptyShaped DEF InvalidateAllHeightCache, ShapeInv
<1>5. ASSUME NEW p \in Paths(table), InvalidateHeight(p) PROVE ShapeInv'
  <2> DEFINE P == {p}
  <2>1. P \in SUBSET Positions /\ IsFiniteSet(P)
    BY <1>1, PathsAre, FS_Singleton
  <2>2. Shaped([o \in Orientations |-> ForgetRows(heights[o], P)])
    <3> HIDE DEF P
    <3> QED
      BY <1>1, <2>1, ForgetRowsShaped
  <2> QED
    BY <1>5, <2>2 DEF InvalidateHeight, Show, ShapeInv
<1>6. ASSUME NEW S \in SectionSets, ReloadSectionsUpdate(S) PROVE ShapeInv'
  <2>1. Shaped([o \in Orientations |-> ReloadSections(heights[o], S)])
    BY <1>1, SectionSetsAre, ReloadSectionsShaped
  <2> QED
    BY <1>6, <2>1, EditShape DEF ReloadSectionsUpdate, Show
<1>7. ASSUME NEW P \in PathSets, ReloadRowsUpdate(P) PROVE ShapeInv'
  <2>1. Shaped([o \in Orientations |-> ForgetRows(heights[o], P)])
    BY <1>1, PathSetsAre, ForgetRowsShaped
  <2> QED
    BY <1>7, <2>1, EditShape DEF ReloadRowsUpdate, Show
<1> QED
  BY <1>2, <1>3, <1>4, <1>5, <1>6, <1>7 DEF Reloads

LEMMA ShapeStep ==
    ASSUME ShapeInv, [Next]_vars
    PROVE  ShapeInv'
<1>1. table \in Seq(Seq(Contents)) /\ Shaped(heights)
  BY TablesAre DEF ShapeInv
<1>2. ASSUME NEW p \in Paths(table), CacheHit(p) PROVE ShapeInv'
  <2>1. Shaped([o \in Orientations |-> BuildCache(heights[o], p)])
    BY <1>1, PathsAre, BuildCacheShaped
  <2> QED
    BY <1>2, <2>1 DEF CacheHit, ShapeInv
<1>3. ASSUME NEW p \in Paths(table), CacheMiss(p) PROVE ShapeInv'
  BY <1>3, MissShape
<1>4. ASSUME NEW d \in Devices, Rotate(d) PROVE ShapeInv'
  <2>1. d = "flat" \/ d \in Orientations
    BY HeightAssumption DEF Orientations
  <2> QED
    BY <1>4, <2>1 DEF Rotate, ShapeInv
<1>5. ASSUME NEW S \in SectionSets, InsertSectionsUpdate(S) PROVE ShapeInv'
  <2>1. Shaped([o \in Orientations |-> InsertSections(heights[o], S)])
    BY <1>1, SectionSetsAre, InsertSectionsShaped
  <2> QED
    BY <1>5, <2>1, EditShape DEF InsertSectionsUpdate, Show
<1>6. ASSUME NEW P \in PathSets, InsertRowsUpdate(P) PROVE ShapeInv'
  <2>1. PICK paths \in PathOrders(P) :
          Invalidate([o \in Orientations |-> InsertRows(heights[o], paths)])
    BY <1>6 DEF InsertRowsUpdate
  <2>2. Shaped([o \in Orientations |-> InsertRows(heights[o], paths)])
    BY <1>1, PathOrdersAre, InsertRowsShaped
  <2>3. table' \in Tables
    BY <1>6 DEF InsertRowsUpdate, Show
  <2> QED
    BY <2>1, <2>2, <2>3, EditShape
<1>7. ASSUME NEW S \in SectionSets, DeleteSectionsUpdate(S) PROVE ShapeInv'
  <2>1. Shaped([o \in Orientations |-> DeleteSections(heights[o], S)])
    BY <1>1, SectionSetsAre, DeleteSectionsShaped
  <2> QED
    BY <1>7, <2>1, EditShape DEF DeleteSectionsUpdate, Show
<1>8. ASSUME NEW P \in PathSets, DeleteRowsUpdate(P) PROVE ShapeInv'
  <2>1. Shaped([o \in Orientations |-> DeleteRows(heights[o], P)])
    BY <1>1, PathSetsAre, DeleteRowsShaped
  <2> QED
    BY <1>8, <2>1, EditShape DEF DeleteRowsUpdate, Show
<1>9. CASE Reloads
  BY <1>9, ReloadsShape
<1>10. CASE Moves
  BY <1>10, MovesShape
<1>11. CASE UNCHANGED vars
  BY <1>11 DEF vars, ShapeInv
<1> QED
  BY <1>2, <1>3, <1>4, <1>5, <1>6, <1>7, <1>8, <1>9, <1>10, <1>11 DEF Next, Deletions

LEMMA ShapeInit == Init => ShapeInv
<1>1. <<>> \in Tables
  <2>1. <<>> \in BoundedSeq(RowLists, MaxSections)
    <3>1. <<>> \in [1..0 -> RowLists] /\ 0 \in 0..MaxSections
      BY Bounds
    <3> QED
      BY <3>1 DEF BoundedSeq, SeqOf
  <2>2. Paths(<<>>) = {}
    BY DEF Paths
  <2>3. Cardinality(Paths(<<>>)) <= MaxRows
    BY <2>2, FS_EmptySet, Bounds
  <2> QED
    BY <2>1, <2>3 DEF Tables
<1>2. "portrait" \in Devices /\ "portrait" \in Orientations
  BY HeightAssumption DEF Orientations
<1> QED
  BY <1>1, <1>2, EmptyShaped DEF Init, ShapeInv

LEMMA ShapeInvariant == Spec => []ShapeInv
<1>1. Init => ShapeInv
  BY ShapeInit
<1>2. ShapeInv /\ [Next]_vars => ShapeInv'
  BY ShapeStep
<1> QED
  BY <1>1, <1>2, PTL DEF Spec

\* Whatever the updates and the orientations, the table is one the app shows and
\* the caches are lists of lists of heights, those of cells or -1.
THEOREM TypeCorrect == Spec => []TypeOK
<1>1. ShapeInv => TypeOK
  BY ShapeInvIs
<1> QED
  BY <1>1, ShapeInvariant, PTL

\* Whatever the updates and the orientations, the two caches have the same
\* sections and rows: every edit builds and changes both, and a height that is
\* computed for one orientation makes room for itself in the other one.
THEOREM SameShapes == Spec => []SameShape
<1>1. ShapeInv => SameShape
  BY ShapeInvIs
<1> QED
  BY <1>1, ShapeInvariant, PTL

-----------------------------------------------------------------------------
(* Fresh heights.  CacheInv is stated with the index paths of the caches and *)
(* of the table; the proof is about the height at every position, which is   *)
(* NoHeight where a cache has no row.                                        *)

\* Every height of both caches is that of the row of t it is indexed by.
Sound(h, t) == \A o \in Orientations : Fresh(o, h[o], t)

\* No height at all.
Blank(h) == \A o \in Orientations : \A s, r \in Numbers : HeightAt(h[o], s, r) = NoHeight

FreshInv ==
    /\ Sound(heights, table)
    /\ ~automaticallyInvalidateEnabled => Blank(heights)
    /\ Current = interface

LEMMA EmptyBlank == Blank([o \in Orientations |-> <<>>])
BY EmptyRows DEF Blank, HeightAt, At

LEMMA BlankSound ==
    ASSUME NEW h, NEW t, Blank(h)
    PROVE  Sound(h, t)
<1> SUFFICES ASSUME NEW o \in Orientations PROVE Fresh(o, h[o], t)
  BY DEF Sound
<1>1. \A s, r \in Numbers : HeightAt(h[o], s, r) = NoHeight
  BY DEF Blank
<1> QED
  BY <1>1, FreshIs

LEMMA SameSound ==
    ASSUME NEW g, NEW h, NEW t, \A o \in Orientations : SameHeights(g[o], h[o]), Sound(h, t)
    PROVE  Sound(g, t)
BY SameFresh DEF Sound

LEMMA SameBlank ==
    ASSUME NEW g, NEW h, \A o \in Orientations : SameHeights(g[o], h[o]), Blank(h)
    PROVE  Blank(g)
BY DEF Blank, SameHeights

\* An edit of the table view and of the caches, the latter once it is enabled.
LEMMA EditFresh ==
    ASSUME FreshInv, NEW new, Sound(new, table'), Invalidate(new)
    PROVE  FreshInv'
<1>1. Current' = interface'
  BY DEF FreshInv, Invalidate, Current
<1>2. CASE automaticallyInvalidateEnabled
  BY <1>1, <1>2 DEF FreshInv, Invalidate
<1>3. CASE ~automaticallyInvalidateEnabled
  <2>1. heights' = heights /\ Blank(heights)
    BY <1>3 DEF FreshInv, Invalidate
  <2>2. Sound(heights', table')
    BY <2>1, BlankSound
  <2> QED
    BY <1>1, <2>1, <2>2 DEF FreshInv
<1> QED
  BY <1>2, <1>3

LEMMA InvalidateAllFresh ==
    ASSUME FreshInv, heights' = [o \in Orientations |-> <<>>],
           device' = device, interface' = interface
    PROVE  FreshInv'
<1>1. Current' = interface'
  BY DEF FreshInv, Current
<1>2. Blank(heights')
  BY EmptyBlank
<1>3. Sound(heights', table')
  BY <1>2, BlankSound
<1> QED
  BY <1>1, <1>2, <1>3 DEF FreshInv

LEMMA HitFresh ==
    ASSUME ShapeInv, FreshInv, NEW p \in Paths(table), CacheHit(p)
    PROVE  FreshInv'
<1> DEFINE g == [o \in Orientations |-> BuildCache(heights[o], p)]
<1>1. table \in Seq(Seq(Contents)) /\ heights \in [Orientations -> Caches]
  BY TablesAre DEF ShapeInv, Shaped
<1>2. p \in Positions
  BY <1>1, PathsAre
<1>3. \A o \in Orientations : SameHeights(BuildCache(heights[o], p), heights[o])
  BY <1>1, <1>2, BuildCacheIs
<1>4. \A o \in Orientations : SameHeights(g[o], heights[o])
  BY <1>3
<1> HIDE DEF g
<1>5. Sound(g, table)
  BY <1>4, SameSound DEF FreshInv
<1>6. ~automaticallyInvalidateEnabled => Blank(g)
  BY <1>4, SameBlank DEF FreshInv
<1>7. heights' = g /\ UNCHANGED <<table, device, interface, automaticallyInvalidateEnabled>>
  BY DEF CacheHit, g
<1> QED
  BY <1>5, <1>6, <1>7 DEF FreshInv, Current

LEMMA MissFresh ==
    ASSUME ShapeInv, FreshInv, NEW p \in Paths(table), CacheMiss(p)
    PROVE  FreshInv'
<1> DEFINE g == [o \in Orientations |-> BuildCache(heights[o], p)]
           y == [content |-> table[p[1]][p[2]], width |-> interface]
           d == interface
<1>1. table \in Seq(Seq(Contents)) /\ heights \in [Orientations -> Caches] /\ d \in Orientations
  BY TablesAre DEF ShapeInv, Shaped
<1>2. p \in Positions /\ p[1] \in DOMAIN table /\ p[2] \in DOMAIN table[p[1]]
  BY <1>1, PathsAre
<1>3. heights' = [g EXCEPT ![d][p[1]][p[2]] = y]
  BY DEF CacheMiss, LayoutHeight, FreshInv
<1>4. heights' = [g EXCEPT ![d] = RowSet(g[d], p, y)]
  <2> HIDE DEF g, y, d
  <2> QED
    BY <1>3 DEF RowSet
<1>5. heights'[d] = RowSet(BuildCache(heights[d], p), p, y)
  <2> HIDE DEF y, d
  <2>1. g[d] = BuildCache(heights[d], p)
    BY <1>1
  <2>2. d \in DOMAIN g
    BY <1>1
  <2> HIDE DEF g
  <2> QED
    BY <1>4, <2>1, <2>2
<1>6. \A o \in Orientations : o # d => heights'[o] = BuildCache(heights[o], p)
  <2> HIDE DEF y, d
  <2>1. \A o \in Orientations : g[o] = BuildCache(heights[o], p) /\ o \in DOMAIN g
    OBVIOUS
  <2> HIDE DEF g
  <2> QED
    BY <1>4, <2>1
<1>7. \A o \in Orientations : Fresh(o, heights[o], table)
  BY DEF FreshInv, Sound
<1>8. Fresh(d, heights'[d], table)
  <2>1. heights[d] \in Caches /\ Fresh(d, heights[d], table)
    BY <1>1, <1>7
  <2>2. Fresh(d, RowSet(BuildCache(heights[d], p), p, y), table)
    <3> HIDE DEF d
    <3> QED
      BY <1>1, <1>2, <2>1, CachedFresh DEF d
  <2> QED
    BY <1>5, <2>2
<1>9. \A o \in Orientations : o # d => Fresh(o, heights'[o], table)
  <2> SUFFICES ASSUME NEW o \in Orientations, o # d PROVE Fresh(o, heights'[o], table)
    OBVIOUS
  <2>1. SameHeights(BuildCache(heights[o], p), heights[o])
    BY <1>1, <1>2, BuildCacheIs
  <2>2. Fresh(o, BuildCache(heights[o], p), table)
    BY <1>7, <2>1, SameFresh
  <2> QED
    BY <1>6, <2>2
<1>10. Sound(heights', table)
  BY <1>8, <1>9 DEF Sound
<1> QED
  BY <1>10 DEF FreshInv, CacheMiss, Current

LEMMA RotateFresh ==
    ASSUME "flat" \notin Devices, ShapeInv, FreshInv, NEW d \in Devices, Rotate(d)
    PROVE  FreshInv'
<1>1. d \in {"portrait", "landscape"}
  BY HeightAssumption
<1>2. Current' = interface'
  BY <1>1 DEF Rotate, Current, CurrentOrientation
<1> QED
  BY <1>2 DEF FreshInv, Rotate

\* Rows that are added after the last one leave the others where they are.
LEMMA GrownFresh ==
    ASSUME NEW o, NEW h, NEW t, Fresh(o, h, t), NEW u,
           \A s \in DOMAIN t : s \in DOMAIN u,
           \A s \in DOMAIN t : \A r \in DOMAIN t[s] : r \in DOMAIN u[s] /\ u[s][r] = t[s][r]
    PROVE  Fresh(o, h, u)
<1>1. \A s, r \in Numbers : HeightAt(h, s, r) # NoHeight =>
        /\ s \in DOMAIN t /\ r \in DOMAIN t[s]
        /\ HeightAt(h, s, r) = [content |-> t[s][r], width |-> o]
  BY FreshIs
<1>2. \A s, r \in Numbers : HeightAt(h, s, r) # NoHeight =>
        /\ s \in DOMAIN u /\ r \in DOMAIN u[s]
        /\ HeightAt(h, s, r) = [content |-> u[s][r], width |-> o]
  BY <1>1
<1> QED
  BY <1>2, FreshIs

LEMMA MoreDataFresh ==
    ASSUME ShapeInv, FreshInv, ReloadDataWithoutInvalidate
    PROVE  FreshInv'
<1>1. table \in Seq(Seq(Contents))
  BY TablesAre DEF ShapeInv
<1>2. PICK c \in Contents : table' = [table EXCEPT ![Len(table)] = Append(@, c)]
  BY DEF ReloadDataWithoutInvalidate, Show
<1>3. \A s \in DOMAIN table : s \in DOMAIN table'
  BY <1>2
<1>4. \A s \in DOMAIN table : \A r \in DOMAIN table[s] :
        r \in DOMAIN table'[s] /\ table'[s][r] = table[s][r]
  <2> TAKE s \in DOMAIN table
  <2>1. table[s] \in Seq(Contents)
    BY <1>1
  <2>2. table'[s] = table[s] \/ table'[s] = Append(table[s], c)
    BY <1>2
  <2>3. \A r \in DOMAIN table[s] : r \in DOMAIN Append(table[s], c) /\ Append(table[s], c)[r] = table[s][r]
    BY <2>1
  <2> QED
    BY <2>2, <2>3
<1>5. Sound(heights, table')
  <2> SUFFICES ASSUME NEW o \in Orientations PROVE Fresh(o, heights[o], table')
    BY DEF Sound
  <2>1. Fresh(o, heights[o], table)
    BY DEF FreshInv, Sound
  <2> QED
    BY <1>3, <1>4, <2>1, GrownFresh
<1> QED
  BY <1>5 DEF FreshInv, ReloadDataWithoutInvalidate, Current

LEMMA ForgetHeightFresh ==
    ASSUME ShapeInv, FreshInv, NEW p \in Paths(table), InvalidateHeight(p)
    PROVE  FreshInv'
<1> DEFINE P == {p}
<1>1. table \in Seq(Seq(Contents)) /\ heights \in [Orientations -> Caches]
  BY TablesAre DEF ShapeInv, Shaped
<1>2. p \in Positions /\ p = <<p[1], p[2]>> /\ p[1] \in DOMAIN table /\ p[2] \in DOMAIN table[p[1]]
  BY <1>1, PathsAre
<1>3. PICK c \in Contents : table' = [table EXCEPT ![p[1]][p[2]] = c]
  BY DEF InvalidateHeight, Show
<1>4. P \in SUBSET Positions /\ IsFiniteSet(P)
  BY <1>2, FS_Singleton
<1>5. DOMAIN table' = DOMAIN table /\ \A s \in DOMAIN table : DOMAIN table'[s] = DOMAIN table[s]
  BY <1>3
<1>6. \A s \in DOMAIN table : \A r \in DOMAIN table[s] :
        <<s, r>> \notin P => table'[s][r] = table[s][r]
  <2> SUFFICES ASSUME NEW s \in DOMAIN table, NEW r \in DOMAIN table[s], <<s, r>> \notin P
               PROVE  table'[s][r] = table[s][r]
    OBVIOUS
  <2>1. s # p[1] \/ r # p[2]
    BY <1>2
  <2> QED
    BY <1>3, <2>1
<1>7. heights' = [o \in Orientations |-> ForgetRows(heights[o], P)]
  BY DEF InvalidateHeight
<1> HIDE DEF P
<1>8. Sound(heights', table')
  <2> SUFFICES ASSUME NEW o \in Orientations PROVE Fresh(o, ForgetRows(heights[o], P), table')
    BY <1>7 DEF Sound
  <2>1. heights[o] \in Caches /\ Fresh(o, heights[o], table)
    BY <1>1 DEF FreshInv, Sound
  <2> QED
    BY <1>4, <1>5, <1>6, <2>1, ForgetRowsFresh
<1>9. Blank(heights) => Blank(heights')
  <2> SUFFICES ASSUME Blank(heights), NEW o \in Orientations, NEW s \in Numbers, NEW r \in Numbers
               PROVE  HeightAt(ForgetRows(heights[o], P), s, r) = NoHeight
    BY <1>7 DEF Blank
  <2>1. heights[o] \in Caches /\ HeightAt(heights[o], s, r) = NoHeight
    BY <1>1 DEF Blank
  <2> QED
    BY <1>4, <2>1, ForgetRowsIs
<1> QED
  BY <1>8, <1>9 DEF FreshInv, InvalidateHeight, Current

LEMMA ReloadRowsFresh ==
    ASSUME ShapeInv, FreshInv, NEW P \in PathSets, ReloadRowsUpdate(P)
    PROVE  FreshInv'
<1> DEFINE new == [o \in Orientations |-> ForgetRows(heights[o], P)]
<1>1. heights \in [Orientations -> Caches]
  BY DEF ShapeInv, Shaped
<1>2. P \in SUBSET Positions /\ IsFiniteSet(P)
  BY PathSetsAre
<1>3. PICK c \in Contents :
        table' = [s \in DOMAIN table |-> [r \in DOMAIN table[s] |->
                    IF <<s, r>> \in P THEN c ELSE table[s][r]]]
  BY DEF ReloadRowsUpdate, Show
<1>4. DOMAIN table' = DOMAIN table /\ \A s \in DOMAIN table : DOMAIN table'[s] = DOMAIN table[s]
  BY <1>3
<1>5. \A s \in DOMAIN table : \A r \in DOMAIN table[s] :
        <<s, r>> \notin P => table'[s][r] = table[s][r]
  BY <1>3
<1>6. Sound(new, table')
  <2> SUFFICES ASSUME NEW o \in Orientations PROVE Fresh(o, ForgetRows(heights[o], P), table')
    BY DEF Sound
  <2>1. heights[o] \in Caches /\ Fresh(o, heights[o], table)
    BY <1>1 DEF FreshInv, Sound
  <2> QED
    BY <1>2, <1>4, <1>5, <2>1, ForgetRowsFresh
<1>7. Invalidate(new)
  BY DEF ReloadRowsUpdate
<1> HIDE DEF new
<1> QED
  BY <1>6, <1>7, EditFresh

LEMMA ReloadSectionsUpdateFresh ==
    ASSUME ShapeInv, FreshInv, NEW S \in SectionSets, ReloadSectionsUpdate(S)
    PROVE  FreshInv'
<1> DEFINE g == [o \in Orientations |-> ReloadSections(heights[o], S)]
<1>1. table \in Seq(Seq(Contents)) /\ heights \in [Orientations -> Caches]
  BY TablesAre DEF ShapeInv, Shaped
<1>2. PICK new \in [S -> NewRows] :
        table' = [s \in DOMAIN table |-> IF s \in S THEN new[s] ELSE table[s]]
  BY DEF ReloadSectionsUpdate, Show
<1>3. S \in SUBSET (DOMAIN table)
  BY DEF ReloadSectionsUpdate
<1>4. Sound(g, table')
  <2> SUFFICES ASSUME NEW o \in Orientations PROVE Fresh(o, ReloadSections(heights[o], S), table')
    BY DEF Sound
  <2>1. heights[o] \in Caches /\ Fresh(o, heights[o], table)
    BY <1>1 DEF FreshInv, Sound
  <2> QED
    BY <1>1, <1>2, <1>3, <2>1, ReloadSectionsFresh
<1>5. Invalidate(g)
  BY DEF ReloadSectionsUpdate
<1> HIDE DEF g
<1> QED
  BY <1>4, <1>5, EditFresh

LEMMA ReloadsFresh ==
    ASSUME ShapeInv, FreshInv, Reloads
    PROVE  FreshInv'
<1> DEFINE none == [o \in Orientations |-> <<>>]
<1>1. Sound(none, table')
  BY EmptyBlank, BlankSound
<1>2. CASE ReloadData
  <2>1. Invalidate(none)
    BY <1>2 DEF ReloadData
  <2> HIDE DEF none
  <2> QED
    BY <1>1, <2>1, EditFresh
<1>3. CASE InvalidateAllHeightCache
  BY <1>3, InvalidateAllFresh DEF InvalidateAllHeightCache
<1> QED
  BY <1>2, <1>3, MoreDataFresh, ForgetHeightFresh, ReloadSectionsUpdateFresh, ReloadRowsFresh
  DEF Reloads

LEMMA InsertSectionsUpdateFresh ==
    ASSUME ShapeInv, FreshInv, NEW S \in SectionSets, InsertSectionsUpdate(S)
    PROVE  FreshInv'
<1> DEFINE g == [o \in Orientations |-> InsertSections(heights[o], S)]
<1>1. table \in Seq(Seq(Contents)) /\ heights \in [Orientations -> Caches]
  BY TablesAre DEF ShapeInv, Shaped
<1>2. PICK new \in [S -> NewRows] : table' = Inserted(table, new)
  BY DEF InsertSectionsUpdate, Show
<1>3. DOMAIN new = S /\ DOMAIN new \in SUBSET (1..MaxSections) /\ MaxSections \in Nat
  BY <1>2, SectionSetsAre
<1>4. Sound(g, table')
  <2> SUFFICES ASSUME NEW o \in Orientations PROVE Fresh(o, InsertSections(heights[o], S), table')
    BY DEF Sound
  <2>1. heights[o] \in Caches /\ Fresh(o, heights[o], table)
    BY <1>1 DEF FreshInv, Sound
  <2>2. Fresh(o, InsertSections(heights[o], DOMAIN new), Inserted(table, new))
    BY <1>1, <1>3, <2>1, InsertSectionsFresh
  <2> QED
    BY <1>2, <1>3, <2>2
<1>5. Invalidate(g)
  BY DEF InsertSectionsUpdate
<1> HIDE DEF g
<1> QED
  BY <1>4, <1>5, EditFresh

LEMMA InsertRowsUpdateFresh ==
    ASSUME Updates = {}, ShapeInv, FreshInv, NEW P \in PathSets, InsertRowsUpdate(P)
    PROVE  FreshInv'
<1>1. table \in Seq(Seq(Contents)) /\ heights \in [Orientations -> Caches]
  BY TablesAre DEF ShapeInv, Shaped
<1>2. PICK c \in Contents :
        table' = [s \in DOMAIN table |-> Inserted(table[s], [r \in RowsIn(P, s) |-> c])]
  BY DEF InsertRowsUpdate, Show
<1>3. PICK paths \in PathOrders(P) :
        Invalidate([o \in Orientations |-> InsertRows(heights[o], paths)])
  BY DEF InsertRowsUpdate
<1>4. P \in SUBSET Positions /\ IsFiniteSet(P) /\ \A p \in P : p[1] \in DOMAIN table
  BY PathSetsAre DEF InsertRowsUpdate
<1>5. paths \in SetToSeqs(P) /\ Ordered(paths)
  BY DEF PathOrders, Ordered
<1> DEFINE g == [o \in Orientations |-> InsertRows(heights[o], paths)]
<1>6. Sound(g, table')
  <2> SUFFICES ASSUME NEW o \in Orientations PROVE Fresh(o, InsertRows(heights[o], paths), table')
    BY DEF Sound
  <2>1. heights[o] \in Caches /\ Fresh(o, heights[o], table)
    BY <1>1 DEF FreshInv, Sound
  <2>2. Fresh(o, InsertRows(heights[o], paths),
              [s \in DOMAIN table |-> Inserted(table[s], [r \in RowsIn(P, s) |-> c])])
    <3>1. /\ heights[o] \in Caches /\ table \in Seq(Seq(Contents)) /\ Fresh(o, heights[o], table)
          /\ P \in SUBSET Positions /\ IsFiniteSet(P) /\ \A p \in P : p[1] \in DOMAIN table
          /\ paths \in SetToSeqs(P) /\ Ordered(paths)
      BY <1>1, <1>4, <1>5, <2>1
    <3> QED
      BY ONLY <3>1, InsertRowsFresh
  <2> QED
    BY <1>2, <2>2
<1>7. Invalidate(g)
  BY <1>3
<1> HIDE DEF g
<1> QED
  BY <1>6, <1>7, EditFresh

LEMMA DeleteSectionsUpdateFresh ==
    ASSUME Updates = {}, ShapeInv, FreshInv, NEW S \in SectionSets, DeleteSectionsUpdate(S)
    PROVE  FreshInv'
<1> DEFINE g == [o \in Orientations |-> DeleteSections(heights[o], S)]
<1>1. table \in Seq(Seq(Contents)) /\ heights \in [Orientations -> Caches]
  BY TablesAre DEF ShapeInv, Shaped
<1>2. S \subseteq DOMAIN table /\ Cardinality(S) = 1 /\ table' = Deleted(table, S)
  BY DEF DeleteSectionsUpdate, Show
<1>3. PICK s : S = {s}
  <2>1. MaxSections \in Int /\ 1 \in Int
    BY Bounds
  <2>2. IsFiniteSet(1..MaxSections)
    BY <2>1, FS_Interval
  <2>3. IsFiniteSet(S)
    BY <2>2, SectionSetsAre, FS_Subset
  <2> QED
    BY <1>2, <2>3, FS_Singleton
<1>4. Sound(g, table')
  <2> SUFFICES ASSUME NEW o \in Orientations PROVE Fresh(o, DeleteSections(heights[o], S), table')
    BY DEF Sound
  <2>1. heights[o] \in Caches /\ Fresh(o, heights[o], table) /\ s \in DOMAIN table
    BY <1>1, <1>2, <1>3 DEF FreshInv, Sound
  <2>2. Fresh(o, DeleteSections(heights[o], {s}), Deleted(table, {s}))
    BY <1>1, <2>1, DeleteSectionsFresh
  <2> QED
    BY <1>2, <1>3, <2>2
<1>5. Invalidate(g)
  BY DEF DeleteSectionsUpdate
<1> HIDE DEF g
<1> QED
  BY <1>4, <1>5, EditFresh

LEMMA DeleteRowsUpdateFresh ==
    ASSUME ShapeInv, FreshInv, NEW P \in PathSets, DeleteRowsUpdate(P)
    PROVE  FreshInv'
<1> DEFINE g == [o \in Orientations |-> DeleteRows(heights[o], P)]
<1>1. table \in Seq(Seq(Contents)) /\ heights \in [Orientations -> Caches]
  BY TablesAre DEF ShapeInv, Shaped
<1>2. table' = [s \in DOMAIN table |-> Deleted(table[s], RowsIn(P, s))]
  BY DEF DeleteRowsUpdate, Show
<1>3. P \in SUBSET Positions /\ IsFiniteSet(P)
  BY PathSetsAre
<1>4. Sound(g, table')
  <2> SUFFICES ASSUME NEW o \in Orientations PROVE Fresh(o, DeleteRows(heights[o], P), table')
    BY DEF Sound
  <2>1. heights[o] \in Caches /\ Fresh(o, heights[o], table)
    BY <1>1 DEF FreshInv, Sound
  <2>2. Fresh(o, DeleteRows(heights[o], P),
              [s \in DOMAIN table |-> Deleted(table[s], RowsIn(P, s))])
    BY <1>1, <1>3, <2>1, DeleteRowsFresh
  <2> QED
    BY <1>2, <2>2
<1>5. Invalidate(g)
  BY DEF DeleteRowsUpdate
<1> HIDE DEF g
<1> QED
  BY <1>4, <1>5, EditFresh

LEMMA NearIs ==
    ASSUME Updates = {}, NEW i \in Int, NEW j \in Int, i # j, Near(i, j)
    PROVE  i - j \in {-1, 1}
BY DEF Near

LEMMA MoveSectionUpdateFresh ==
    ASSUME Updates = {}, ShapeInv, FreshInv, NEW s \in 1..MaxSections, NEW t \in 1..MaxSections,
           s # t, MoveSectionUpdate(s, t)
    PROVE  FreshInv'
<1> DEFINE g == [o \in Orientations |-> ExchangeSections(heights[o], s, t)]
<1>1. table \in Seq(Seq(Contents)) /\ heights \in [Orientations -> Caches]
  BY TablesAre DEF ShapeInv, Shaped
<1>2. s \in DOMAIN table /\ t \in DOMAIN table /\ table' = Moved(table, s, t) /\ Near(s, t)
  BY DEF MoveSectionUpdate, Show
<1>3. s - t \in {-1, 1}
  BY <1>2, NearIs
<1>4. Sound(g, table')
  <2> SUFFICES ASSUME NEW o \in Orientations PROVE Fresh(o, ExchangeSections(heights[o], s, t), table')
    BY DEF Sound
  <2>1. heights[o] \in Caches /\ Fresh(o, heights[o], table)
    BY <1>1 DEF FreshInv, Sound
  <2>2. Fresh(o, ExchangeSections(heights[o], s, t), Moved(table, s, t))
    BY <1>1, <1>2, <1>3, <2>1, MoveSectionFresh
  <2> QED
    BY <1>2, <2>2
<1>5. Invalidate(g)
  BY DEF MoveSectionUpdate
<1> HIDE DEF g
<1> QED
  BY <1>4, <1>5, EditFresh

LEMMA MoveRowUpdateFresh ==
    ASSUME Updates = {}, ShapeInv, FreshInv, NEW p \in Paths(table),
           NEW q \in (1..MaxSections) \X (1..MaxRows), p # q, MoveRowUpdate(p, q)
    PROVE  FreshInv'
<1> DEFINE g == [o \in Orientations |-> ExchangeRows(heights[o], p, q)]
           left == [table EXCEPT ![p[1]] = RemoveAt(@, p[2])]
           row == table[p[1]]
<1>1. table \in Seq(Seq(Contents)) /\ heights \in [Orientations -> Caches]
  BY TablesAre DEF ShapeInv, Shaped
<1>2. p \in Positions /\ p = <<p[1], p[2]>> /\ p[1] \in DOMAIN table /\ p[2] \in DOMAIN table[p[1]]
  BY <1>1, PathsAre
<1>3. q \in Positions /\ q = <<q[1], q[2]>>
  BY PlacesAre
<1>4. /\ p[1] = q[1] /\ Near(p[2], q[2])
      /\ table' = [left EXCEPT ![q[1]] = InsertAt(@, q[2], row[p[2]])]
      /\ q[2] <= Len(left[q[1]]) + 1
  BY DEF MoveRowUpdate, Show
<1>5. p[2] - q[2] \in {-1, 1}
  <2>1. p[2] \in Int /\ q[2] \in Int
    BY <1>2, <1>3 DEF Positions, Numbers
  <2>2. p[2] # q[2]
    BY <1>2, <1>3, <1>4
  <2> QED
    BY <1>4, <2>1, <2>2, NearIs
<1>6. row \in Seq(Contents) /\ p[2] \in 1..Len(row)
  BY <1>1, <1>2
<1>7. left[q[1]] = RemoveAt(row, p[2])
  BY <1>2, <1>4
<1>8. Len(RemoveAt(row, p[2])) = Len(row) - 1
  <2> HIDE DEF row
  <2> QED
    BY <1>6, RemoveAtIs
<1>9. q[2] \in DOMAIN row
  <2> HIDE DEF row, left
  <2>1. Len(row) \in Nat /\ q[2] \in Nat /\ q[2] > 0
    BY <1>3, <1>6 DEF Positions, Numbers
  <2>2. q[2] <= Len(row)
    BY <1>4, <1>7, <1>8, <2>1
  <2> QED
    BY <1>6, <2>1, <2>2
<1>10. table' = [table EXCEPT ![p[1]] = Moved(row, p[2], q[2])]
  <2> HIDE DEF row
  <2> QED
    BY <1>1, <1>2, <1>4, <1>7 DEF Moved, row
<1>11. Sound(g, table')
  <2> SUFFICES ASSUME NEW o \in Orientations PROVE Fresh(o, ExchangeRows(heights[o], p, q), table')
    BY DEF Sound
  <2>1. heights[o] \in Caches /\ Fresh(o, heights[o], table)
    BY <1>1 DEF FreshInv, Sound
  <2>2. Fresh(o, ExchangeRows(heights[o], p, q),
              [table EXCEPT ![p[1]] = Moved(table[p[1]], p[2], q[2])])
    BY <1>1, <1>2, <1>3, <1>4, <1>5, <1>9, <2>1, MoveRowFresh
  <2> QED
    BY <1>10, <2>2
<1>12. Invalidate(g)
  BY DEF MoveRowUpdate
<1> HIDE DEF g
<1> QED
  BY <1>11, <1>12, EditFresh

LEMMA FreshStep ==
    ASSUME Updates = {}, "flat" \notin Devices, ShapeInv, FreshInv, [Next]_vars
    PROVE  FreshInv'
<1>1. ASSUME NEW p \in Paths(table), CacheHit(p) \/ CacheMiss(p) PROVE FreshInv'
  BY <1>1, HitFresh, MissFresh
<1>2. ASSUME NEW d \in Devices, Rotate(d) PROVE FreshInv'
  BY <1>2, RotateFresh
<1>3. ASSUME NEW S \in SectionSets, InsertSectionsUpdate(S) PROVE FreshInv'
  BY <1>3, InsertSectionsUpdateFresh
<1>4. ASSUME NEW P \in PathSets, InsertRowsUpdate(P) PROVE FreshInv'
  BY <1>4, InsertRowsUpdateFresh
<1>5. CASE Deletions
  BY <1>5, DeleteSectionsUpdateFresh, DeleteRowsUpdateFresh DEF Deletions
<1>6. CASE Reloads
  BY <1>6, ReloadsFresh
<1>7. CASE Moves
  BY <1>7, MoveSectionUpdateFresh, MoveRowUpdateFresh DEF Moves
<1>8. CASE UNCHANGED vars
  BY <1>8 DEF vars, FreshInv, Current
<1> QED
  BY <1>1, <1>2, <1>3, <1>4, <1>5, <1>6, <1>7, <1>8 DEF Next

LEMMA FreshInit == Init => FreshInv
<1> SUFFICES ASSUME Init PROVE FreshInv
  OBVIOUS
<1>1. Blank(heights)
  BY EmptyBlank DEF Init
<1>2. Sound(heights, table)
  BY <1>1, BlankSound
<1>3. Current = interface
  BY DEF Init, Current, CurrentOrientation
<1> QED
  BY <1>1, <1>2, <1>3 DEF FreshInv

\* A cached height, found by the index paths of the cache or by its position.
LEMMA CachedPathsAre ==
    ASSUME Shaped(heights), NEW o \in Orientations, NEW p \in CachedPaths(o)
    PROVE  /\ p \in Positions /\ p = <<p[1], p[2]>>
           /\ HeightAt(heights[o], p[1], p[2]) = heights[o][p[1]][p[2]]
           /\ heights[o][p[1]][p[2]] # NoHeight
<1>1. p \in Paths(heights[o]) /\ heights[o][p[1]][p[2]] # NoHeight
  BY DEF CachedPaths
<1>2. heights[o] \in Seq(Rows)
  BY DEF Shaped, Caches
<1>3. PICK s \in DOMAIN heights[o] : p \in {s} \X DOMAIN heights[o][s]
  BY <1>1 DEF Paths
<1>4. p = <<s, p[2]>> /\ p[1] = s /\ p[2] \in DOMAIN heights[o][s]
  BY <1>3
<1>5. heights[o][s] \in Rows
  BY <1>2
<1>6. s \in Numbers /\ p[2] \in Numbers
  BY <1>2, <1>4, <1>5 DEF Numbers, Rows
<1> QED
  BY <1>1, <1>4, <1>6 DEF Positions, HeightAt, At

LEMMA FreshInvGives == ShapeInv /\ FreshInv => CacheInv
<1> SUFFICES ASSUME ShapeInv, FreshInv PROVE CacheInv
  OBVIOUS
<1>1. Shaped(heights)
  BY DEF ShapeInv
<1>2. AllFresh
  <2> SUFFICES ASSUME NEW o \in Orientations, NEW p \in CachedPaths(o)
               PROVE  /\ p \in Paths(table)
                      /\ heights[o][p[1]][p[2]] = [content |-> table[p[1]][p[2]], width |-> o]
    BY DEF AllFresh
  <2>1. /\ p \in Positions /\ p = <<p[1], p[2]>>
        /\ HeightAt(heights[o], p[1], p[2]) = heights[o][p[1]][p[2]]
        /\ heights[o][p[1]][p[2]] # NoHeight
    BY <1>1, CachedPathsAre
  <2>2. Fresh(o, heights[o], table)
    BY DEF FreshInv, Sound
  <2>3. \A s, r \in Numbers : HeightAt(heights[o], s, r) # NoHeight =>
          /\ s \in DOMAIN table /\ r \in DOMAIN table[s]
          /\ HeightAt(heights[o], s, r) = [content |-> table[s][r], width |-> o]
    BY <2>2, FreshIs
  <2>4. p[1] \in Numbers /\ p[2] \in Numbers
    BY <2>1 DEF Positions
  <2>5. /\ p[1] \in DOMAIN table /\ p[2] \in DOMAIN table[p[1]]
        /\ heights[o][p[1]][p[2]] = [content |-> table[p[1]][p[2]], width |-> o]
    BY <2>1, <2>3, <2>4
  <2> QED
    BY <2>1, <2>5 DEF Paths
<1>3. SameShape
  BY ShapeInvIs
<1>4. NothingBeforeEnabled
  <2> SUFFICES ASSUME ~automaticallyInvalidateEnabled, NEW o \in Orientations,
                      NEW p \in CachedPaths(o)
               PROVE  FALSE
    BY DEF NothingBeforeEnabled
  <2>1. /\ p \in Positions /\ HeightAt(heights[o], p[1], p[2]) = heights[o][p[1]][p[2]]
        /\ heights[o][p[1]][p[2]] # NoHeight
    BY <1>1, CachedPathsAre
  <2>2. p[1] \in Numbers /\ p[2] \in Numbers
    BY <2>1 DEF Positions
  <2> QED
    BY <2>1, <2>2 DEF FreshInv, Blank
<1> QED
  BY <1>2, <1>3, <1>4 DEF CacheInv, FreshInv

\* The cached height that is used is the one that would be computed.
LEMMA CacheInvGives == TypeOK /\ CacheInv => CacheIsFresh
<1> SUFFICES ASSUME TypeOK, CacheInv, NEW p \in Paths(table) \cap CachedPaths(Current)
             PROVE  heights[Current][p[1]][p[2]] = LayoutHeight(p)
  BY DEF CacheIsFresh
<1>1. Current = interface /\ Current \in Orientations
  BY DEF CacheInv, TypeOK
<1> QED
  BY <1>1 DEF CacheInv, AllFresh, LayoutHeight

LEMMA FreshInvariant ==
    ASSUME Updates = {}, "flat" \notin Devices
    PROVE  Spec => [](ShapeInv /\ FreshInv)
<1>1. Init => ShapeInv /\ FreshInv
  BY ShapeInit, FreshInit
<1>2. ShapeInv /\ FreshInv /\ [Next]_vars => (ShapeInv /\ FreshInv)'
  BY ShapeStep, FreshStep
<1> QED
  BY <1>1, <1>2, PTL DEF Spec

\* With the updates the library follows and a device that is never laid flat,
\* every height of both caches is that of the row at its index path, whatever is
\* inserted, deleted, reloaded or moved, and by which index paths; nothing is
\* cached before automatic invalidation is on; and the cache that is asked is the
\* one of the orientation the table view is shown in.
THEOREM CacheCorrect ==
    ASSUME Updates = {}, "flat" \notin Devices
    PROVE  Spec => []CacheInv
<1>1. ShapeInv /\ FreshInv => CacheInv
  BY FreshInvGives
<1> QED
  BY <1>1, FreshInvariant, PTL

\* Under the same conditions the height that
\* fd_heightForCellWithIdentifier:cacheByIndexPath: takes from the cache is the
\* one it would compute: "no need to worry about invalidating cached heights".
THEOREM CacheFresh ==
    ASSUME Updates = {}, "flat" \notin Devices
    PROVE  Spec => []CacheIsFresh
<1>1. TypeOK /\ CacheInv => CacheIsFresh
  BY CacheInvGives
<1> QED
  BY <1>1, TypeCorrect, CacheCorrect, PTL

-----------------------------------------------------------------------------
(* Heights survive: an insertion or a move takes every cached height to      *)
(* another index path, no two of them to the same one.                       *)

\* The index paths at which the cache h has a height.
Cached(h) == {p \in Paths(h) : h[p[1]][p[2]] # NoHeight}

LEMMA CachedIs ==
    ASSUME NEW h \in Caches
    PROVE  /\ IsFiniteSet(Cached(h)) /\ Cardinality(Cached(h)) \in Nat
           /\ Cached(h) = {p \in Positions : HeightAt(h, p[1], p[2]) # NoHeight}
<1> DEFINE F == [s \in DOMAIN h |-> {s} \X DOMAIN h[s]]
           K == {{s} \X DOMAIN h[s] : s \in DOMAIN h}
<1>1. \A s \in DOMAIN h : h[s] \in Rows
  BY DEF Caches
<1>2. IsFiniteSet(K)
  <2>1. F \in Surjection(DOMAIN h, K)
    BY DEF Surjection
  <2>2. Len(h) \in Int /\ 1 \in Int /\ DOMAIN h = 1..Len(h)
    BY DEF Caches
  <2>3. IsFiniteSet(DOMAIN h)
    BY <2>2, FS_Interval
  <2> HIDE DEF F, K
  <2> QED
    BY <2>1, <2>3, FS_Surjection
<1>3. \A T \in K : IsFiniteSet(T)
  <2> SUFFICES ASSUME NEW s \in DOMAIN h PROVE IsFiniteSet({s} \X DOMAIN h[s])
    OBVIOUS
  <2>1. Len(h[s]) \in Int /\ 1 \in Int /\ DOMAIN h[s] = 1..Len(h[s])
    BY <1>1 DEF Rows
  <2>2. IsFiniteSet(DOMAIN h[s])
    BY <2>1, FS_Interval
  <2>3. IsFiniteSet({s})
    BY FS_Singleton
  <2> QED
    BY <2>2, <2>3, FS_Product
<1>4. IsFiniteSet(Paths(h))
  BY <1>2, <1>3, FS_UNION DEF Paths
<1>5. Cached(h) \in SUBSET Paths(h)
  BY DEF Cached
<1>6. IsFiniteSet(Cached(h)) /\ Cardinality(Cached(h)) \in Nat
  BY <1>4, <1>5, FS_Subset, FS_CardinalityType
<1>7. \A p \in Paths(h) : /\ p \in Positions
                          /\ HeightAt(h, p[1], p[2]) = h[p[1]][p[2]]
  <2> SUFFICES ASSUME NEW p \in Paths(h)
               PROVE  p \in Positions /\ HeightAt(h, p[1], p[2]) = h[p[1]][p[2]]
    OBVIOUS
  <2>1. PICK s \in DOMAIN h : p \in {s} \X DOMAIN h[s]
    BY DEF Paths
  <2>2. p = <<s, p[2]>> /\ p[1] = s /\ p[2] \in DOMAIN h[s]
    BY <2>1
  <2>3. s \in Numbers /\ p[2] \in Numbers
    BY <1>1, <2>2 DEF Numbers, Rows, Caches
  <2> QED
    BY <2>2, <2>3 DEF Positions, HeightAt, At
<1>8. \A p \in Positions : HeightAt(h, p[1], p[2]) # NoHeight => p \in Paths(h)
  <2> SUFFICES ASSUME NEW p \in Positions, HeightAt(h, p[1], p[2]) # NoHeight
               PROVE  p \in Paths(h)
    OBVIOUS
  <2>1. p = <<p[1], p[2]>>
    BY DEF Positions
  <2>2. p[1] \in DOMAIN h /\ p[2] \in DOMAIN h[p[1]]
    BY DEF HeightAt, At
  <2> QED
    BY <2>1, <2>2 DEF Paths
<1>9. Cached(h) = {p \in Positions : HeightAt(h, p[1], p[2]) # NoHeight}
  BY <1>7, <1>8 DEF Cached
<1> QED
  BY <1>6, <1>9

LEMMA HeightsKept ==
    ASSUME NEW g \in Caches, NEW h \in Caches, NEW f \in [Positions -> Positions],
           \A a, b \in Positions : f[a] = f[b] => a = b,
           \A a \in Positions : HeightAt(g, f[a][1], f[a][2]) = HeightAt(h, a[1], a[2])
    PROVE  Cardinality(Cached(h)) <= Cardinality(Cached(g))
<1> DEFINE e == [a \in Cached(h) |-> f[a]]
<1>1. IsFiniteSet(Cached(g))
  BY CachedIs
<1>2. \A p : p \in Cached(g) <=> p \in Positions /\ HeightAt(g, p[1], p[2]) # NoHeight
  BY CachedIs
<1>3. \A p : p \in Cached(h) <=> p \in Positions /\ HeightAt(h, p[1], p[2]) # NoHeight
  BY CachedIs
<1>4. \A a \in Cached(h) : f[a] \in Cached(g)
  BY <1>2, <1>3
<1>5. \A a, b \in Cached(h) : f[a] = f[b] => a = b
  BY <1>3
<1>6. e \in Injection(Cached(h), Cached(g))
  BY <1>4, <1>5 DEF Injection, IsInjective
<1> HIDE DEF e
<1> QED
  BY <1>1, <1>6, FS_Injection

LEMMA ExchangeSectionsKeep ==
    ASSUME NEW h \in Caches, NEW s \in Numbers, NEW t \in Numbers, s # t
    PROVE  Cardinality(Cached(h)) <= Cardinality(Cached(ExchangeSections(h, s, t)))
<1> DEFINE g == ExchangeSections(h, s, t)
           Swap(i) == IF i = s THEN t ELSE IF i = t THEN s ELSE i
           f == [a \in Positions |-> <<Swap(a[1]), a[2]>>]
<1>1. g \in Caches /\ \A i \in Numbers : At(g, Swap(i), <<>>) = At(h, i, <<>>)
  BY ExchangeSectionsIs
<1>2. \A i \in Numbers : Swap(i) \in Numbers
  OBVIOUS
<1>3. \A i, j \in Numbers : Swap(i) = Swap(j) => i = j
  OBVIOUS
<1> HIDE DEF Swap
<1>4. \A a \in Positions : a[1] \in Numbers /\ a[2] \in Numbers /\ a = <<a[1], a[2]>>
  BY DEF Positions
<1>5. f \in [Positions -> Positions]
  BY <1>2, <1>4 DEF Positions
<1>6. \A a \in Positions : f[a][1] = Swap(a[1]) /\ f[a][2] = a[2]
  OBVIOUS
<1> HIDE DEF f, g
<1>7. \A a, b \in Positions : f[a] = f[b] => a = b
  BY <1>3, <1>4, <1>6
<1>8. \A a \in Positions : HeightAt(g, f[a][1], f[a][2]) = HeightAt(h, a[1], a[2])
  BY <1>1, <1>4, <1>6 DEF HeightAt
<1>9. Cardinality(Cached(h)) <= Cardinality(Cached(g))
  BY <1>1, <1>5, <1>7, <1>8, HeightsKept
<1> QED
  BY <1>9 DEF g

LEMMA ExchangeRowsKeep ==
    ASSUME NEW h \in Caches, NEW p \in Positions, NEW q \in Positions
    PROVE  Cardinality(Cached(h)) <= Cardinality(Cached(ExchangeRows(h, p, q)))
<1> DEFINE g == ExchangeRows(h, p, q)
           f == [a \in Positions |-> IF a = p THEN q ELSE IF a = q THEN p ELSE a]
<1>1. /\ g \in Caches
      /\ HeightAt(g, q[1], q[2]) = HeightAt(h, p[1], p[2])
      /\ p # q => HeightAt(g, p[1], p[2]) = HeightAt(h, q[1], q[2])
      /\ \A s, r \in Numbers : <<s, r>> # p /\ <<s, r>> # q =>
           HeightAt(g, s, r) = HeightAt(h, s, r)
  BY ExchangeRowsIs
<1>2. f \in [Positions -> Positions]
  OBVIOUS
<1>3. \A a, b \in Positions : f[a] = f[b] => a = b
  OBVIOUS
<1>4. \A a \in Positions : f[a] = IF a = p THEN q ELSE IF a = q THEN p ELSE a
  OBVIOUS
<1> HIDE DEF f, g
<1>5. \A a \in Positions : a[1] \in Numbers /\ a[2] \in Numbers /\ a = <<a[1], a[2]>>
  BY DEF Positions
<1>6. \A a \in Positions : HeightAt(g, f[a][1], f[a][2]) = HeightAt(h, a[1], a[2])
  BY <1>1, <1>4, <1>5
<1>7. Cardinality(Cached(h)) <= Cardinality(Cached(g))
  BY <1>1, <1>2, <1>3, <1>6, HeightsKept
<1> QED
  BY <1>7 DEF g

\* Inserting one row.
LEMMA InsertRowKeeps ==
    ASSUME NEW h \in Caches, NEW p \in Positions, NEW paths \in SetToSeqs({p})
    PROVE  Cardinality(Cached(h)) <= Cardinality(Cached(InsertRows(h, paths)))
<1> DEFINE g == InsertRows(h, paths)  P == {p}
           f == [a \in Positions |->
                   IF a[1] = p[1] /\ a[2] >= p[2] THEN <<a[1], a[2] + 1>> ELSE a]
<1>1. P \in SUBSET Positions /\ IsFiniteSet(P) /\ Cardinality(P) = 1 /\ paths \in SetToSeqs(P)
  BY FS_Singleton
<1>2. Ordered(paths)
  <2>1. paths \in [1..1 -> P]
    <3> HIDE DEF P
    <3> QED
      BY <1>1, SetToSeqsIs
  <2>2. \A i, j \in DOMAIN paths : ~(i < j)
    BY <2>1
  <2> QED
    BY <2>2 DEF Ordered
<1>3. g \in Caches
  BY <1>1, <1>2, InsertRowsSpread
<1>4. \A s \in Numbers : Spread(At(g, s, <<>>), At(h, s, <<>>), RowsIn(P, s), NoHeight)
  BY <1>1, <1>2, InsertRowsSpread
<1>5. \A a \in Positions : a[1] \in Numbers /\ a[2] \in Numbers /\ a = <<a[1], a[2]>>
  BY DEF Positions
<1>6. p[1] \in Numbers /\ p[2] \in Numbers
  BY <1>5
<1>7. \A i \in Numbers : i > p[2] => HeightAt(g, p[1], i) = HeightAt(h, p[1], i - 1)
  <2> SUFFICES ASSUME NEW i \in Numbers, i > p[2]
               PROVE  HeightAt(g, p[1], i) = HeightAt(h, p[1], i - 1)
    OBVIOUS
  <2>1. RowsIn(P, p[1]) = {p[2]}
    BY DEF RowsIn
  <2>2. Before({p[2]}, i) = 1
    <3>1. {j \in {p[2]} : j < i} = {p[2]}
      BY <1>6 DEF Numbers
    <3> QED
      BY <3>1, FS_Singleton DEF Before
  <2>3. i \notin {p[2]}
    BY <1>6 DEF Numbers
  <2>4. Spread(At(g, p[1], <<>>), At(h, p[1], <<>>), {p[2]}, NoHeight)
    BY <1>4, <1>6, <2>1
  <2> HIDE DEF g
  <2> QED
    BY <2>2, <2>3, <2>4 DEF Spread, HeightAt
<1>8. \A i \in Numbers : i < p[2] => HeightAt(g, p[1], i) = HeightAt(h, p[1], i)
  <2> SUFFICES ASSUME NEW i \in Numbers, i < p[2]
               PROVE  HeightAt(g, p[1], i) = HeightAt(h, p[1], i)
    OBVIOUS
  <2>1. RowsIn(P, p[1]) = {p[2]}
    BY DEF RowsIn
  <2>2. Before({p[2]}, i) = 0
    <3>1. {j \in {p[2]} : j < i} = {}
      BY <1>6 DEF Numbers
    <3> QED
      BY <3>1, FS_EmptySet DEF Before
  <2>3. i \notin {p[2]} /\ i - 0 = i
    BY <1>6 DEF Numbers
  <2>4. Spread(At(g, p[1], <<>>), At(h, p[1], <<>>), {p[2]}, NoHeight)
    BY <1>4, <1>6, <2>1
  <2> HIDE DEF g
  <2> QED
    BY <2>2, <2>3, <2>4 DEF Spread, HeightAt
<1>9. \A s, i \in Numbers : s # p[1] => HeightAt(g, s, i) = HeightAt(h, s, i)
  <2> SUFFICES ASSUME NEW s \in Numbers, NEW i \in Numbers, s # p[1]
               PROVE  HeightAt(g, s, i) = HeightAt(h, s, i)
    OBVIOUS
  <2>1. RowsIn(P, s) = {}
    BY DEF RowsIn
  <2>2. Before({}, i) = 0 /\ i - 0 = i
    <3>1. {j \in {} : j < i} = {}
      OBVIOUS
    <3> QED
      BY <3>1, FS_EmptySet DEF Before, Numbers
  <2>3. Spread(At(g, s, <<>>), At(h, s, <<>>), {}, NoHeight)
    BY <1>4, <2>1
  <2> HIDE DEF g
  <2> QED
    BY <2>2, <2>3 DEF Spread, HeightAt
<1>10. f \in [Positions -> Positions]
  BY <1>5 DEF Positions, Numbers
<1>11. \A a \in Positions :
         /\ a[1] = p[1] /\ a[2] >= p[2] => f[a] = <<a[1], a[2] + 1>>
         /\ ~(a[1] = p[1] /\ a[2] >= p[2]) => f[a] = a
  OBVIOUS
<1> HIDE DEF f, g, P
<1>12. \A a, b \in Positions : f[a] = f[b] => a = b
  <2> SUFFICES ASSUME NEW a \in Positions, NEW b \in Positions, f[a] = f[b] PROVE a = b
    OBVIOUS
  <2>1. /\ a[2] \in Nat /\ b[2] \in Nat /\ p[2] \in Nat
        /\ a = <<a[1], a[2]>> /\ b = <<b[1], b[2]>>
    BY <1>5, <1>6 DEF Numbers
  <2>2. \A c \in Positions : c[1] = p[1] /\ c[2] >= p[2] =>
          f[c][1] = c[1] /\ f[c][2] = c[2] + 1
    BY <1>11
  <2>3. \A c \in Positions : ~(c[1] = p[1] /\ c[2] >= p[2]) => f[c] = c
    BY <1>11
  <2>4. CASE a[1] = p[1] /\ a[2] >= p[2] /\ b[1] = p[1] /\ b[2] >= p[2]
    BY <2>1, <2>2, <2>4
  <2>5. CASE a[1] = p[1] /\ a[2] >= p[2] /\ ~(b[1] = p[1] /\ b[2] >= p[2])
    <3>1. f[a][1] = p[1] /\ f[a][2] = a[2] + 1 /\ f[b] = b
      BY <2>2, <2>3, <2>5
    <3> QED
      BY <2>1, <2>5, <3>1
  <2>6. CASE ~(a[1] = p[1] /\ a[2] >= p[2]) /\ b[1] = p[1] /\ b[2] >= p[2]
    <3>1. f[b][1] = p[1] /\ f[b][2] = b[2] + 1 /\ f[a] = a
      BY <2>2, <2>3, <2>6
    <3> QED
      BY <2>1, <2>6, <3>1
  <2>7. CASE ~(a[1] = p[1] /\ a[2] >= p[2]) /\ ~(b[1] = p[1] /\ b[2] >= p[2])
    BY <2>3, <2>7
  <2> QED
    BY <2>4, <2>5, <2>6, <2>7
<1>13. \A a \in Positions : HeightAt(g, f[a][1], f[a][2]) = HeightAt(h, a[1], a[2])
  <2> SUFFICES ASSUME NEW a \in Positions
               PROVE  HeightAt(g, f[a][1], f[a][2]) = HeightAt(h, a[1], a[2])
    OBVIOUS
  <2>1. a[1] \in Numbers /\ a[2] \in Nat /\ a[2] \in Numbers /\ p[2] \in Nat
    BY <1>5, <1>6 DEF Numbers
  <2>2. CASE a[1] = p[1] /\ a[2] >= p[2]
    <3>1. f[a][1] = p[1] /\ f[a][2] = a[2] + 1
      BY <1>11, <2>2
    <3>2. a[2] + 1 \in Numbers /\ a[2] + 1 > p[2] /\ (a[2] + 1) - 1 = a[2]
      BY <2>1, <2>2 DEF Numbers
    <3>3. HeightAt(g, p[1], a[2] + 1) = HeightAt(h, p[1], (a[2] + 1) - 1)
      BY <1>7, <3>2
    <3> QED
      BY <2>2, <3>1, <3>2, <3>3
  <2>3. CASE a[1] = p[1] /\ ~(a[2] >= p[2])
    <3>1. f[a] = a /\ a[2] < p[2]
      BY <1>11, <2>1, <2>3
    <3> QED
      BY <1>8, <2>1, <2>3, <3>1
  <2>4. CASE a[1] # p[1]
    BY <1>9, <1>11, <2>1, <2>4
  <2> QED
    BY <2>2, <2>3, <2>4
<1>14. Cardinality(Cached(h)) <= Cardinality(Cached(g))
  BY <1>3, <1>10, <1>12, <1>13, HeightsKept
<1> QED
  BY <1>14 DEF g

\* An edit under which each of the caches keeps as many heights as it had.
LEMMA EditKeeps ==
    ASSUME ShapeInv, NEW new, Shaped(new), Invalidate(new),
           \A o \in Orientations : Cardinality(Cached(heights[o])) <= Cardinality(Cached(new[o])),
           NEW o \in Orientations
    PROVE  ~(Cardinality(CachedPaths(o)') < Cardinality(CachedPaths(o)))
<1>1. CachedPaths(o) = Cached(heights[o]) /\ CachedPaths(o)' = Cached(heights'[o])
  BY DEF CachedPaths, Cached
<1>2. heights[o] \in Caches /\ new[o] \in Caches
  BY DEF ShapeInv, Shaped
<1>3. Cardinality(Cached(heights[o])) \in Nat /\ Cardinality(Cached(new[o])) \in Nat
  BY <1>2, CachedIs
<1>4. heights' = heights \/ heights' = new
  BY DEF Invalidate
<1> QED
  BY <1>1, <1>3, <1>4

LEMMA InsertRowSurvives ==
    ASSUME ShapeInv, NEW p \in (1..MaxSections) \X (1..MaxRows), InsertRowsUpdate({p}),
           NEW o \in Orientations
    PROVE  ~(Cardinality(CachedPaths(o)') < Cardinality(CachedPaths(o)))
<1> DEFINE P == {p}
<1>1. Shaped(heights) /\ heights \in [Orientations -> Caches]
  BY DEF ShapeInv, Shaped
<1>2. p \in Positions
  BY PlacesAre
<1>3. PICK paths \in PathOrders(P) :
        Invalidate([e \in Orientations |-> InsertRows(heights[e], paths)])
  BY DEF InsertRowsUpdate
<1>4. paths \in SetToSeqs(P)
  BY DEF PathOrders
<1>5. paths \in Seq(Positions)
  <2>1. IsFiniteSet(P) /\ P \in SUBSET Positions
    BY <1>2, FS_Singleton
  <2> HIDE DEF P
  <2>2. paths \in Seq(P)
    BY <1>4, <2>1, SetToSeqsIs
  <2> QED
    BY <2>1, <2>2
<1> DEFINE new == [e \in Orientations |-> InsertRows(heights[e], paths)]
<1>6. Shaped(new)
  BY <1>1, <1>5, InsertRowsShaped
<1>7. \A e \in Orientations : Cardinality(Cached(heights[e])) <= Cardinality(Cached(new[e]))
  BY <1>1, <1>2, <1>4, InsertRowKeeps
<1>8. Invalidate(new)
  BY <1>3
<1> HIDE DEF new, P
<1> QED
  BY <1>6, <1>7, <1>8, EditKeeps

LEMMA MovesSurvive ==
    ASSUME ShapeInv, Moves, NEW o \in Orientations
    PROVE  ~(Cardinality(CachedPaths(o)') < Cardinality(CachedPaths(o)))
<1>1. Shaped(heights) /\ heights \in [Orientations -> Caches] /\ table \in Seq(Seq(Contents))
  BY TablesAre DEF ShapeInv, Shaped
<1>2. ASSUME NEW s \in 1..MaxSections, NEW t \in 1..MaxSections, s # t, MoveSectionUpdate(s, t)
      PROVE  ~(Cardinality(CachedPaths(o)') < Cardinality(CachedPaths(o)))
  <2> DEFINE new == [e \in Orientations |-> ExchangeSections(heights[e], s, t)]
  <2>1. s \in Numbers /\ t \in Numbers
    BY Bounds DEF Numbers
  <2>2. Shaped(new)
    BY <1>1, <1>2, <2>1, ExchangeSectionsShaped
  <2>3. \A e \in Orientations : Cardinality(Cached(heights[e])) <= Cardinality(Cached(new[e]))
    BY <1>1, <1>2, <2>1, ExchangeSectionsKeep
  <2>4. Invalidate(new)
    BY <1>2 DEF MoveSectionUpdate
  <2> HIDE DEF new
  <2> QED
    BY <2>2, <2>3, <2>4, EditKeeps
<1>3. ASSUME NEW p \in Paths(table), NEW q \in (1..MaxSections) \X (1..MaxRows), p # q,
             MoveRowUpdate(p, q)
      PROVE  ~(Cardinality(CachedPaths(o)') < Cardinality(CachedPaths(o)))
  <2> DEFINE new == [e \in Orientations |-> ExchangeRows(heights[e], p, q)]
  <2>1. p \in Positions
    BY <1>1, PathsAre
  <2>2. q \in Positions
    BY PlacesAre
  <2>3. Shaped(new)
    BY <1>1, <2>1, <2>2, ExchangeRowsShaped
  <2>4. \A e \in Orientations : Cardinality(Cached(heights[e])) <= Cardinality(Cached(new[e]))
    BY <1>1, <2>1, <2>2, ExchangeRowsKeep
  <2>5. Invalidate(new)
    BY <1>3 DEF MoveRowUpdate
  <2> HIDE DEF new
  <2> QED
    BY <2>3, <2>4, <2>5, EditKeeps
<1> QED
  BY <1>2, <1>3 DEF Moves

\* Whatever updates are allowed, and for every orientation of the device: neither
\* inserting a row nor moving a row or a section loses a cached height.
THEOREM HeightsKeptByMoves == Spec => HeightsSurvive
<1>1. ShapeInv =>
        [(\E o \in Orientations : Cardinality(CachedPaths(o)') < Cardinality(CachedPaths(o)))
         => /\ ~\E p \in (1 .. MaxSections) \X (1 .. MaxRows) : InsertRowsUpdate({p})
            /\ ~Moves]_vars
  BY InsertRowSurvives, MovesSurvive
<1> QED
  BY <1>1, ShapeInvariant, PTL DEF HeightsSurvive

=============================================================================
