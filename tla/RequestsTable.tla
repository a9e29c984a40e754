--------------------------- MODULE RequestsTable ---------------------------
(***************************************************************************)
(* The table `requests` of the SQLite-based trust store, and what its      *)
(* prepared statements compute: the integer conversions between a request  *)
(* and its row, the row id an INSERT picks, the rows a SELECT finds and    *)
(* the order it delivers them in (impl/sqlite3/store.cpp).                 *)
(*                                                                         *)
(* A table is a function from row ids to rows.  Application ids are        *)
(* uninterpreted, except that the empty id is told apart: bind_text treats *)
(* it specially.                                                           *)
(***************************************************************************)
EXTENDS Integers, FiniteSets, Functions

CONSTANTS
    Null,       \* SQL NULL: a parameter that is not bound
    EmptyId,    \* the application id ""
    Int32Span,  \* 2^32 in the code: the number of values of an std::int32_t
    Int64Span   \* 2^64 in the code: the number of values of an std::uint64_t

ASSUME SpanAssumption ==
    /\ Int32Span \in Nat \ {0} /\ Int32Span % 2 = 0
    /\ Int64Span \in Nat \ {0} /\ Int64Span % 2 = 0
    /\ Int32Span <= Int64Span

Answer == {"denied", "granted"}

\* Two's complement conversions of an unsigned value: what passing it to
\* bind_int(std::int32_t) and bind_int64(std::int64_t) does to it.
Signed(n, span) == IF n % span < span \div 2 THEN n % span ELSE (n % span) - span

AsInt32(n) == Signed(n, Int32Span)

AsInt64(n) == Signed(n, Int64Span)

\* The cast of column_int's result to Feature::IntegerType (std::uint64_t).
AsUint64(i) == i % Int64Span

\* Mutant: the statement is stepped before ApplicationId is bound.
RowOfUnbound(request, from) ==
    [from    |-> Null,
     feature |-> AsInt32(request.feature),
     when    |-> request.when,
     answer  |-> request.answer]

\* The row add() inserts for a request whose id ended up bound as `from`.
RowOf(request, from) ==
    [from    |-> from,
     feature |-> AsInt32(request.feature),
     when    |-> request.when,
     answer  |-> request.answer]

\* The request current() constructs from the columns of a row.
RequestOf(row) == [row EXCEPT !.feature = AsUint64(@)]

EmptyTable == [id \in {} |-> Null]

\* Mutant: ids are the count of rows plus one, and so collide after a deletion.
IsNextIdByCount(id, table) == id = Cardinality(DOMAIN table) + 1

\* INTEGER PRIMARY KEY without AUTOINCREMENT: one more than the largest id in
\* the table.  The id of a deleted row can come back.
IsNextId(id, table) ==
    /\ \A i \in DOMAIN table : i < id
    /\ id = 1 \/ id - 1 \in DOMAIN table

\* Mutant: a parameter that has a value keeps it.
BindTextOnce(bound, s) == IF s = EmptyId \/ bound # Null THEN bound ELSE s

\* bind_text returns early on an empty string: the parameter keeps its value.
BindText(bound, s) == IF s = EmptyId THEN bound ELSE s

\* The parameters of the select statement; IFNULL(?, Column) makes an unbound
\* one match every row.  The two ends of the interval are bound together.
Unnarrowed == [app |-> Null, feature |-> Null, interval |-> Null, answer |-> Null]

Matches(row, narrowing) ==
    /\ narrowing.app \in {Null, row.from}
    /\ narrowing.feature \in {Null, row.feature}
    /\ narrowing.interval # Null =>
          narrowing.interval[1] <= row.when /\ row.when <= narrowing.interval[2]
    /\ narrowing.answer \in {Null, row.answer}

\* Mutant: the select statement forgets the BETWEEN clause.
SelectedAnytime(table, narrowing) ==
    {id \in DOMAIN table : Matches(table[id], [narrowing EXCEPT !.interval = Null])}

Selected(table, narrowing) == {id \in DOMAIN table : Matches(table[id], narrowing)}

\* Mutant: ORDER BY Timestamp, oldest first.
PrecedesOldestFirst(table, i, j) ==
    \/ table[i].when < table[j].when
    \/ table[i].when = table[j].when /\ i < j

\* Mutant: no ORDER BY Timestamp, but the row inserted last first.
PrecedesByInsertion(table, i, j) == i > j

\* ORDER BY Timestamp DESC; the sorter keeps equal timestamps in table order.
Precedes(table, i, j) ==
    \/ table[i].when > table[j].when
    \/ table[i].when = table[j].when /\ i < j

\* The result set of a SELECT, as a sequence of row ids.
Listings(table, narrowing) ==
    LET found == Selected(table, narrowing)
    IN  {s \in [1..Cardinality(found) -> found] :
            \A m, n \in DOMAIN s : m < n => Precedes(table, s[m], s[n])}
=============================================================================
