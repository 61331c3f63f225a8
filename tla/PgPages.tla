-------------------------------- MODULE PgPages --------------------------------
(***************************************************************************)
(* Rows of a table, as PgStore (packages/postgres/src/index.ts) and the    *)
(* Kotlin JdbcStore select them: by key, by equality, one page after a     *)
(* cursor, the pages of a whole level of parents, and the nested pages of  *)
(* a screen.  Keys are numbers in the order of their text.  Rows come, go  *)
(* and change hands while a reader follows the cursors.                    *)
(***************************************************************************)
EXTENDS Integers, Sequences, FiniteSets, SequencesExt, FiniteSetsExt

CONSTANTS
  MaxKey,       \* keys are 1 .. MaxKey
  Parents,      \* what the rows of the table belong to
  NoRow,        \* no row, no key, no cursor
  MaxTableWrites,
  PageSizes     \* a subset of Nat \ {0}

VARIABLES
  tableRows,        \* key -> the row's parent and whether the pushed policy lets the viewer see it
  tableWrites,
  reader,       \* the cursor followed and the page size; "idle", "counting" or "done"
  lastPage,
  gathered,     \* the keys of the pages so far
  stayed        \* keys seen from the first page on

pagesVars == <<tableRows, tableWrites, reader, lastPage, gathered, stayed>>

Key == 1..MaxKey
Row == [of : Parents, seen : BOOLEAN]
Start == 0      \* before every key: no cursor

\* The rows `where` and the policy keep.
Matching(t, where) == {k \in Key : t[k] # NoRow /\ t[k].seen /\ t[k].of \in where}

InKeyOrder(keys) == SetToSortSeq(keys, <)
Limit(keys, n)  == IF Len(keys) <= n THEN keys ELSE SubSeq(keys, 1, n)
LastOf(keys)    == IF keys = <<>> THEN NoRow ELSE Last(keys)

NoPage == [items |-> <<>>, cursor |-> NoRow, hasMore |-> FALSE, total |-> 0]

PageOf(raw, first, total) ==
  LET items == Limit(raw, first)
  IN [items |-> items, cursor |-> LastOf(items), hasMore |-> Len(raw) > first, total |-> total]

\* Mutant: no row is asked for past the page.
RawOfFirst(t, where, first, after) == Limit(InKeyOrder({k \in Matching(t, where) : k > after}), first)

\* The rows of one page, and one more, which says whether there is another.
Raw(t, where, first, after) == Limit(InKeyOrder({k \in Matching(t, where) : k > after}), first + 1)

\* A page that is not empty carries the total on its rows.
PageFrom(t, where, first, after) ==
  LET raw == Raw(t, where, first, after)
  IN PageOf(raw, first, IF raw = <<>> THEN 0 ELSE Cardinality(Matching(t, where)))

\* An empty page after a cursor is counted by a statement of its own.
NeedsCount(page, after) == page.items = <<>> /\ after # Start
Counted(t, where, page) == [page EXCEPT !.total = Cardinality(Matching(t, where))]

Page(t, where, first, after) ==
  LET page == PageFrom(t, where, first, after)
  IN IF NeedsCount(page, after) THEN Counted(t, where, page) ELSE page

-----------------------------------------------------------------------------
(* The pages of a level, by parent                                          *)

\* Within a parent's rows: those past the cursor first, then by key.
Earlier(j, k, after) == (j > after /\ k <= after) \/ ((j > after) = (k > after) /\ j < k)

RowNumber(rows, k, after) == Cardinality({j \in rows : Earlier(j, k, after)}) + 1

\* What the statement returns of one parent: rows past the cursor, or the one
\* that only carries the total.
LevelRows(t, p, first, after) ==
  LET rows == Matching(t, {p})
  IN {k \in rows : RowNumber(rows, k, after) <= first + 1 /\ (k > after \/ RowNumber(rows, k, after) = 1)}

PagesByField(t, parents, first, after) ==
  [i \in DOMAIN parents |->
     LET group == LevelRows(t, parents[i], first, after)
     IN IF group = {} THEN NoPage
        ELSE PageOf(InKeyOrder({k \in group : k > after}), first, Cardinality(Matching(t, {parents[i]})))]

\* The Kotlin loader takes no cursor.
KtPagesByField(t, parents, first) ==
  [i \in DOMAIN parents |->
     LET rows  == Matching(t, {parents[i]})
         group == {k \in rows : Cardinality({j \in rows : j < k}) + 1 <= first + 1}
     IN IF group = {} THEN NoPage ELSE PageOf(InKeyOrder(group), first, Cardinality(rows))]

-----------------------------------------------------------------------------
(* A screen: nested pages are aggregated from at most `first` rows, each    *)
(* with the total of its parent.                                            *)

MoreThanShown(rows, first, total) == rows # <<>> /\ Len(rows) < total

NestedPage(t, p, first) ==
  LET rows  == Limit(InKeyOrder(Matching(t, {p})), first)
      total == IF rows = <<>> THEN 0 ELSE Cardinality(Matching(t, {p}))
  IN [items |-> rows, cursor |-> LastOf(rows), hasMore |-> MoreThanShown(rows, first, total), total |-> total]

\* By key, in the order asked; a key may be asked twice, or be null.
ByIds(t, ids) ==
  LET found == {k \in {ids[i] : i \in DOMAIN ids} \ {NoRow} : k \in Matching(t, Parents)}
  IN [i \in DOMAIN ids |-> IF ids[i] \in found THEN ids[i] ELSE NoRow]

Find(t, where) == InKeyOrder(Matching(t, where))

-----------------------------------------------------------------------------
(* A reader who follows the cursors, while rows are written                  *)

TakePage(page) ==
  /\ lastPage' = page
  /\ gathered' = gathered \o page.items
  /\ reader' = [reader EXCEPT !.st = IF page.hasMore THEN "idle" ELSE "done",
                              !.after = IF page.hasMore THEN page.cursor ELSE reader.after]

\* The statement of a page: asked again from the cursor the last page gave.
AskPage ==
  /\ reader.st = "idle"
  /\ LET page == PageFrom(tableRows, Parents, reader.first, reader.after)
     IN IF NeedsCount(page, reader.after)
        THEN lastPage' = page /\ reader' = [reader EXCEPT !.st = "counting"] /\ UNCHANGED gathered
        ELSE TakePage(page)
  /\ stayed' = IF reader.after = Start THEN Matching(tableRows, Parents) ELSE stayed
  /\ UNCHANGED <<tableRows, tableWrites>>

\* The second statement of an empty page.
AskCount ==
  /\ reader.st = "counting"
  /\ TakePage(Counted(tableRows, Parents, lastPage))
  /\ UNCHANGED <<tableRows, tableWrites, stayed>>

\* A row is inserted, deleted, changes hands, or is shown or hidden.
WriteRow ==
  /\ tableWrites < MaxTableWrites /\ reader.st # "done"
  /\ \E k \in Key, row \in Row \cup {NoRow} :
       /\ row # tableRows[k]
       /\ tableRows' = [tableRows EXCEPT ![k] = row]
       /\ stayed' = stayed \ (IF row = NoRow \/ ~row.seen THEN {k} ELSE {})
  /\ tableWrites' = tableWrites + 1
  /\ UNCHANGED <<reader, lastPage, gathered>>

PagesInit ==
  /\ tableRows \in [Key -> Row \cup {NoRow}]
  /\ reader \in [st : {"idle"}, first : PageSizes, after : {Start}]
  /\ tableWrites = 0 /\ lastPage = NoPage /\ gathered = <<>> /\ stayed = {}

PagesNext == AskPage \/ AskCount \/ WriteRow
PagesSpec == PagesInit /\ [][PagesNext]_pagesVars

-----------------------------------------------------------------------------

\* Following the cursors to the end delivers, in key order and never twice,
\* every row that stayed, whatever is written in between (PgStore.page).
CursorsMissNothing ==
  /\ \A i, j \in DOMAIN gathered : i < j => gathered[i] < gathered[j]
  /\ reader.st = "done" => stayed \subseteq {gathered[i] : i \in DOMAIN gathered}

\* One query for a level answers what a page per parent would: the same rows,
\* the same total even past the last row, in both runtimes (pagesByField).
LevelIsPagePerParent ==
  \A first \in PageSizes, after \in 0..MaxKey :
    LET parents == SetToSeq(Parents)
        one     == [i \in DOMAIN parents |-> Page(tableRows, {parents[i]}, first, after)]
    IN reader.st = "idle" =>
         /\ \A i \in DOMAIN parents : one[i].total = Cardinality(Matching(tableRows, {parents[i]}))
         /\ PagesByField(tableRows, parents, first, after) = one
         /\ after = Start => KtPagesByField(tableRows, parents, first) = one

\* A page nested in a screen is the first page its own loader would answer (project).
ScreenShowsFirstPages ==
  reader.st = "idle" => \A first \in PageSizes, p \in Parents : NestedPage(tableRows, p, first) = Page(tableRows, {p}, first, Start)

\* A loader's answer lines up with the keys it was asked for, with null where
\* a row is missing or hidden (byIds).
IdsLineUp ==
  reader.st = "idle" => \A a, b \in Key \cup {NoRow} :
    LET ids == <<a, b, a>>
        shown(k) == IF k # NoRow /\ tableRows[k] # NoRow /\ tableRows[k].seen THEN k ELSE NoRow
    IN ByIds(tableRows, ids) = [i \in 1..3 |-> shown(ids[i])]

\* Rows are read right whichever way the SQL asks for them: page after page, a
\* page for each parent in one query, a screen at once, or by their ids.
PagesHold == CursorsMissNothing /\ LevelIsPagePerParent /\ ScreenShowsFirstPages /\ IdsLineUp
=============================================================================
