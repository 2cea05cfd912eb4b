----------------------------- MODULE HeightCache -----------------------------
(***************************************************************************)
(* FDIndexPathHeightCache: the heights of the cells of a table view, cached *)
(* by index path, one cache per orientation.                                *)
(*                                                                         *)
(* Every update of the table view is swizzled: the cache is edited first,   *)
(* index path by index path, then UIKit applies the update.  The model runs *)
(* both edits side by side: the library's on the cache, UIKit's on the rows *)
(* the table view shows.  The app changes its data and calls the update on  *)
(* the main thread, so both are one step.                                   *)
(*                                                                         *)
(* Sections and rows are numbered from 1; an index path is a pair.          *)
(***************************************************************************)
EXTENDS Integers, SequencesExt

CONSTANTS
  Contents,     \* what a cell shows; different contents have different heights
  Devices,      \* the device orientations that occur: portrait, landscape, flat
  MaxSections,  \* bound: sections of the table view
  MaxRows,      \* bound: rows of the table view, and of a section
  MaxCached,    \* bound: heights in the caches
  MaxPaths,     \* bound: sections or index paths of one update
  Loads,        \* bound: the tables that -reloadData shows
  Updates,      \* the updates allowed besides the ones the library follows:
                \* "far move", "several sections", "unordered insert"
  NoHeight      \* @-1

ASSUME HeightAssumption ==
  /\ Devices \subseteq {"portrait", "landscape", "flat"}
  /\ "portrait" \in Devices
  /\ MaxSections \in Nat
  /\ MaxRows \in Nat
  /\ MaxCached \in Nat
  /\ MaxPaths \in Nat
  /\ Updates \subseteq {"far move", "several sections", "unordered insert"}

Orientations == {"portrait", "landscape"}

\* The height of a cell is determined by its content and its width.
Heights == [content : Contents, width : Orientations]

VARIABLES
  table,      \* the contents of the rows the table view shows, by section
  device,     \* UIDevice's orientation
  interface,  \* the orientation the app is displayed in: the table view's width
  heights,    \* heightsBySectionForPortrait, heightsBySectionForLandscape
  automaticallyInvalidateEnabled

vars == <<table, device, interface, heights, automaticallyInvalidateEnabled>>

Paths(t) == UNION {{s} \X DOMAIN t[s] : s \in DOMAIN t}

\* The rows a section may have, and the tables the app may show.
RowLists == BoundedSeq(Contents, MaxRows)
Tables == {t \in BoundedSeq(RowLists, MaxSections) : Cardinality(Paths(t)) <= MaxRows}

Init ==
  /\ table = <<>>
  /\ device = "portrait"
  /\ interface = "portrait"
  /\ heights = [o \in Orientations |-> <<>>]
  /\ automaticallyInvalidateEnabled = FALSE

------------------------------------------------------------------------------
(* What UIKit does with an update: a set of inserted or deleted positions   *)
(* is one change, of final positions for an insertion, of original ones for *)
(* a deletion.                                                              *)

\* How many positions of S there are before position i.
Before(S, i) == Cardinality({j \in S : j < i})

Ascending(S) == [k \in 1 .. Cardinality(S) |-> CHOOSE x \in S : Before(S, x) = k - 1]

\* new[i]: what is inserted at position i.
Inserted(seq, new) ==
  [i \in 1 .. Len(seq) + Cardinality(DOMAIN new) |->
     IF i \in DOMAIN new THEN new[i] ELSE seq[i - Before(DOMAIN new, i)]]

Deleted(seq, S) ==
  LET kept == Ascending(DOMAIN seq \ S) IN [k \in DOMAIN kept |-> seq[kept[k]]]

Moved(seq, from, to) == InsertAt(RemoveAt(seq, from), to, seq[from])

\* The rows of the index paths of P in section s.
RowsIn(P, s) == {p[2] : p \in {q \in P : q[1] = s}}

------------------------------------------------------------------------------
(* What the library does with its cache, for one orientation h.             *)

\* seq, with as many x appended as make it n long.
Padded(seq, n, x) == seq \o [k \in 1 .. Max({0, n - Len(seq)}) |-> x]

\* buildSectionsIfNeeded:, buildRowsIfNeeded:inExistSection:
BuildSections(h, s) == Padded(h, s, <<>>)

BuildCache(h, p) ==
  [BuildSections(h, p[1]) EXCEPT ![p[1]] = Padded(@, p[2], NoHeight)]

BuildCaches(h, paths) == FoldLeft(BuildCache, h, paths)

\* The index set is enumerated in ascending order.
InsertSections(h, S) ==
  FoldLeft(LAMBDA g, s : InsertAt(BuildSections(g, s), s, <<>>), h, Ascending(S))

DeleteSections(h, S) ==
  FoldLeft(LAMBDA g, s : RemoveAt(BuildSections(g, s), s), h, Ascending(S))

ReloadSections(h, S) ==
  FoldLeft(LAMBDA g, s : [BuildSections(g, s) EXCEPT ![s] = <<>>], h, Ascending(S))

ExchangeSections(h, s, t) ==
  LET g == BuildSections(BuildSections(h, s), t) IN
    [g EXCEPT ![s] = g[t], ![t] = g[s]]

\* Mutant of InsertRows: the -1s go to the end of the section.
AppendRows(h, paths) ==
  FoldLeft(LAMBDA g, p : [g EXCEPT ![p[1]] = Append(@, NoHeight)],
           BuildCaches(h, paths), paths)

\* The index paths are enumerated in the order of the call.
InsertRows(h, paths) ==
  FoldLeft(LAMBDA g, p : [g EXCEPT ![p[1]] = InsertAt(@, p[2], NoHeight)],
           BuildCaches(h, paths), paths)

\* The rows are collected by section first, each section is edited once.
DeleteRows(h, P) ==
  LET g == BuildCaches(h, SetToSeq(P)) IN
    [s \in DOMAIN g |-> Deleted(g[s], RowsIn(P, s))]

ForgetRows(h, P) ==
  FoldLeft(LAMBDA g, p : [g EXCEPT ![p[1]][p[2]] = NoHeight],
           BuildCaches(h, SetToSeq(P)), SetToSeq(P))

\* Mutant of ExchangeRows: the source is read after it was overwritten.
CopyRow(h, p, q) ==
  LET g == BuildCaches(h, <<p, q>>) IN [g EXCEPT ![p[1]][p[2]] = g[q[1]][q[2]]]

ExchangeRows(h, p, q) ==
  LET g == BuildCaches(h, <<p, q>>) IN
    [[g EXCEPT ![p[1]][p[2]] = g[q[1]][q[2]]] EXCEPT ![q[1]][q[2]] = g[p[1]][p[2]]]

------------------------------------------------------------------------------
(* Asking for heights.                                                      *)

\* Mutant of CurrentOrientation: the two caches are one.
OneOrientation(d) == "portrait"

\* Everything that is not portrait uses the landscape cache.
CurrentOrientation(d) == IF d = "portrait" THEN d ELSE "landscape"

Current == CurrentOrientation(device)

\* Mutant of LayoutHeight: the width of the table view is left out.
HeightOfContent(p) == table[p[1]][p[2]]

LayoutHeight(p) == [content |-> table[p[1]][p[2]], width |-> interface]

\* The index paths at which orientation o has a height.
CachedPaths(o) == {p \in Paths(heights[o]) : heights[o][p[1]][p[2]] # NoHeight}

MayCache == Cardinality(CachedPaths("portrait")) + Cardinality(CachedPaths("landscape"))
              < MaxCached

\* fd_heightForCellWithIdentifier:cacheByIndexPath:, which the table view asks
\* of its delegate for the rows it lays out: a cached height is used ...
CacheHit(p) ==
  /\ p \in Paths(table)
  /\ p \in CachedPaths(Current)
  /\ heights' = [o \in Orientations |-> BuildCache(heights[o], p)]
  /\ UNCHANGED <<table, device, interface, automaticallyInvalidateEnabled>>

\* ... another one is computed and cached.
CacheMiss(p) ==
  /\ p \in Paths(table)
  /\ p \notin CachedPaths(Current)
  /\ MayCache
  /\ heights' = [[o \in Orientations |-> BuildCache(heights[o], p)]
                   EXCEPT ![Current][p[1]][p[2]] = LayoutHeight(p)]
  /\ automaticallyInvalidateEnabled' = TRUE
  /\ UNCHANGED <<table, device, interface>>

\* A device that is laid flat keeps the interface as it is.
Rotate(d) ==
  /\ d # device
  /\ device' = d
  /\ interface' = IF d = "flat" THEN interface ELSE d
  /\ UNCHANGED <<table, heights, automaticallyInvalidateEnabled>>

------------------------------------------------------------------------------
(* Updates of the table view.                                               *)

\* The cache is edited once automatic invalidation is on.
Invalidate(new) ==
  /\ heights' = IF automaticallyInvalidateEnabled THEN new ELSE heights
  /\ UNCHANGED <<device, interface, automaticallyInvalidateEnabled>>

Show(t) ==
  /\ t \in Tables
  /\ table' = t

ReloadData ==
  /\ \E t \in Loads : Show(t)
  /\ Invalidate([o \in Orientations |-> <<>>])

\* "Load more data at the bottom of table view": rows after the last one.
ReloadDataWithoutInvalidate ==
  /\ table # <<>>
  /\ \E c \in Contents : Show([table EXCEPT ![Len(table)] = Append(@, c)])
  /\ UNCHANGED <<device, interface, heights, automaticallyInvalidateEnabled>>

\* invalidateAllHeightCache, and invalidateHeightAtIndexPath: for a row whose
\* content changed; neither asks whether automatic invalidation is on.
InvalidateAllHeightCache ==
  /\ heights' = [o \in Orientations |-> <<>>]
  /\ UNCHANGED <<table, device, interface, automaticallyInvalidateEnabled>>

InvalidateHeight(p) ==
  /\ p \in Paths(table)
  /\ \E c \in Contents : Show([table EXCEPT ![p[1]][p[2]] = c])
  /\ heights' = [o \in Orientations |-> ForgetRows(heights[o], {p})]
  /\ UNCHANGED <<device, interface, automaticallyInvalidateEnabled>>

\* The rows of a section that an update shows: the same content in each.
NewRows == UNION {[1 .. n -> {c}] : n \in 0 .. MaxRows, c \in Contents}

\* The sections of an update, and the index paths of one.
SectionSets ==
  {S \in SUBSET (1 .. MaxSections) : S # {} /\ Cardinality(S) <= MaxPaths}

PathSets ==
  {P \in SUBSET ((1 .. MaxSections) \X (1 .. MaxRows)) :
     P # {} /\ Cardinality(P) <= MaxPaths}

\* An insertion depends on the order its index paths are given in: that of the
\* rows, for each section, unless another one is allowed.
PathOrders(P) ==
  {q \in SetToSeqs(P) :
     \/ "unordered insert" \in Updates
     \/ \A i, j \in DOMAIN q : i < j => q[i][1] # q[j][1] \/ q[i][2] < q[j][2]}

InsertSectionsUpdate(S) ==
  /\ S \subseteq 1 .. Len(table) + Cardinality(S)
  /\ Len(table) + Cardinality(S) <= MaxSections
  /\ \E new \in [S -> NewRows] : Show(Inserted(table, new))
  /\ Invalidate([o \in Orientations |-> InsertSections(heights[o], S)])

DeleteSectionsUpdate(S) ==
  /\ S \subseteq DOMAIN table
  /\ Cardinality(S) = 1 \/ "several sections" \in Updates
  /\ Show(Deleted(table, S))
  /\ Invalidate([o \in Orientations |-> DeleteSections(heights[o], S)])

ReloadSectionsUpdate(S) ==
  /\ S \subseteq DOMAIN table
  /\ \E new \in [S -> NewRows] :
       Show([s \in DOMAIN table |-> IF s \in S THEN new[s] ELSE table[s]])
  /\ Invalidate([o \in Orientations |-> ReloadSections(heights[o], S)])

\* A move to the next position, which the library's exchange is the same as.
Near(i, j) == i - j \in {-1, 0, 1} \/ "far move" \in Updates

MoveSectionUpdate(s, t) ==
  /\ {s, t} \subseteq DOMAIN table
  /\ Near(s, t)
  /\ Show(Moved(table, s, t))
  /\ Invalidate([o \in Orientations |-> ExchangeSections(heights[o], s, t)])

InsertRowsUpdate(P) ==
  /\ Cardinality(Paths(table)) + Cardinality(P) <= MaxRows
  /\ \A p \in P : /\ p[1] \in DOMAIN table
                 /\ p[2] <= Len(table[p[1]]) + Cardinality(RowsIn(P, p[1]))
  /\ \E c \in Contents :
       Show([s \in DOMAIN table |->
               Inserted(table[s], [r \in RowsIn(P, s) |-> c])])
  /\ \E paths \in PathOrders(P) :
       Invalidate([o \in Orientations |-> InsertRows(heights[o], paths)])

DeleteRowsUpdate(P) ==
  /\ P \subseteq Paths(table)
  /\ Show([s \in DOMAIN table |-> Deleted(table[s], RowsIn(P, s))])
  /\ Invalidate([o \in Orientations |-> DeleteRows(heights[o], P)])

ReloadRowsUpdate(P) ==
  /\ P \subseteq Paths(table)
  /\ \E c \in Contents :
       Show([s \in DOMAIN table |-> [r \in DOMAIN table[s] |->
               IF <<s, r>> \in P THEN c ELSE table[s][r]]])
  /\ Invalidate([o \in Orientations |-> ForgetRows(heights[o], P)])

\* The row leaves its section, then enters the other one, or the same one.
MoveRowUpdate(p, q) ==
  LET content == table[p[1]][p[2]]
      left == [table EXCEPT ![p[1]] = RemoveAt(@, p[2])] IN
  /\ p \in Paths(table)
  /\ q[1] \in DOMAIN table
  /\ q[2] <= Len(left[q[1]]) + 1
  /\ (p[1] = q[1] /\ Near(p[2], q[2])) \/ "far move" \in Updates
  /\ Show([left EXCEPT ![q[1]] = InsertAt(@, q[2], content)])
  /\ Invalidate([o \in Orientations |-> ExchangeRows(heights[o], p, q)])

------------------------------------------------------------------------------

Deletions ==
  \/ \E S \in SectionSets : DeleteSectionsUpdate(S)
  \/ \E P \in PathSets : DeleteRowsUpdate(P)

Reloads ==
  \/ ReloadData
  \/ ReloadDataWithoutInvalidate
  \/ InvalidateAllHeightCache
  \/ \E p \in Paths(table) : InvalidateHeight(p)
  \/ \E S \in SectionSets : ReloadSectionsUpdate(S)
  \/ \E P \in PathSets : ReloadRowsUpdate(P)

Moves ==
  \/ \E s, t \in 1 .. MaxSections : s # t /\ MoveSectionUpdate(s, t)
  \/ \E p \in Paths(table) : \E q \in (1 .. MaxSections) \X (1 .. MaxRows) :
       p # q /\ MoveRowUpdate(p, q)

Next ==
  \/ \E p \in Paths(table) : CacheHit(p) \/ CacheMiss(p)
  \/ \E d \in Devices : Rotate(d)
  \/ \E S \in SectionSets : InsertSectionsUpdate(S)
  \/ \E P \in PathSets : InsertRowsUpdate(P)
  \/ Deletions
  \/ Reloads
  \/ Moves

Spec == Init /\ [][Next]_vars

------------------------------------------------------------------------------

TypeOK ==
  /\ table \in Tables
  /\ device \in Devices
  /\ interface \in Orientations
  /\ heights \in [Orientations -> Seq(Seq(Heights \cup {NoHeight}))]
  /\ automaticallyInvalidateEnabled \in BOOLEAN

\* The height that fd_heightForCellWithIdentifier:cacheByIndexPath: would take
\* from the cache is the one it would compute: "no need to worry about
\* invalidating cached heights" (UITableView+FDTemplateLayoutCell.h).
CacheIsFresh ==
  \A p \in Paths(table) \cap CachedPaths(Current) :
    heights[Current][p[1]][p[2]] = LayoutHeight(p)

\* Every cached height, of either orientation, is that of the cell at its index
\* path; index paths outside the table view hold none.
AllFresh ==
  \A o \in Orientations : \A p \in CachedPaths(o) :
    /\ p \in Paths(table)
    /\ heights[o][p[1]][p[2]] = [content |-> table[p[1]][p[2]], width |-> o]

\* What is indexed in the cache of one orientation is there in the other one,
\* an empty section too.
SameShape ==
  LET h == heights["portrait"]
      g == heights["landscape"] IN
  /\ DOMAIN h = DOMAIN g
  /\ \A s \in DOMAIN h : DOMAIN h[s] = DOMAIN g[s]

\* Until automatic invalidation is on there is nothing to invalidate.
NothingBeforeEnabled ==
  ~automaticallyInvalidateEnabled => \A o \in Orientations : CachedPaths(o) = {}

\* The inductive invariant behind CacheIsFresh.
CacheInv ==
  /\ AllFresh
  /\ SameShape
  /\ NothingBeforeEnabled
  /\ Current = interface

\* Cached heights move along with their rows: inserting a row, or moving one or
\* a section, makes the library compute no height again, for any orientation.
HeightsSurvive ==
  [][(\E o \in Orientations :
        Cardinality(CachedPaths(o)') < Cardinality(CachedPaths(o)))
     => /\ ~\E p \in (1 .. MaxSections) \X (1 .. MaxRows) : InsertRowsUpdate({p})
        /\ ~Moves]_vars

==============================================================================
