----------------------------- MODULE TrustStore -----------------------------
(***************************************************************************)
(* core::trust::impl::sqlite::Store and its Query objects                  *)
(* (impl/sqlite3/store.cpp): one database file, the prepared statements of *)
(* one opened store, and the queries that clients hold on it.              *)
(*                                                                         *)
(* Every operation of Store and Query is one action.  Operations of Store  *)
(* hold `guard`; operations of Query do not, but each of their SQLite      *)
(* calls is serialized by SQLite and works on statements of its own.       *)
(* SQLite itself is external.  What the code relies on:                    *)
(*   - step of a statement that is not at a row (re)starts it;             *)
(*   - bind fails with SQLITE_MISUSE unless the statement has been reset;  *)
(*   - reset returns the error of the last step, if it failed, and resets  *)
(*     the statement all the same; bindings survive it;                    *)
(*   - any step can fail with an I/O error, and then changes no row;       *)
(*   - the sorter behind ORDER BY copies the whole result set at the first *)
(*     step, so later changes of the table do not reach a running query.   *)
(***************************************************************************)
EXTENDS RequestsTable, Sequences

CONSTANTS
    Requests,    \* the requests clients add
    AppIds,      \* the ids clients narrow queries to and remove
    Features,    \* the features clients narrow queries to
    Intervals,   \* the intervals clients narrow queries to
    Queries,     \* the query objects clients can hold
    MaxId        \* bound: the largest row id

ASSUME StoreAssumption ==
    /\ MaxId \in Nat
    /\ Requests \subseteq [from : {r.from : r \in Requests}, feature : Nat, when : Int, answer : Answer]
    /\ Features \subseteq Nat
    /\ Intervals \subseteq Int \X Int
    /\ Null \notin AppIds \cup {r.from : r \in Requests} \cup Int \cup (Int \X Int) \cup Answer
    /\ Null # EmptyId

VARIABLES
    phase,       \* of the process: no store, in the constructor's upgrade, opened
    version,     \* PRAGMA user_version of the database file
    created,     \* whether the file has the table
    rows,        \* the table
    insert_from, \* ApplicationId as bound in insert_statement
    remove_from, \* ApplicationId as bound in remove_application_statement
    failed,      \* the store's statements whose last step failed
    query,       \* the queries' state, Null for one that does not exist
    call         \* the last completed call, as its caller saw it

file == <<version, created, rows>>
statements == <<insert_from, remove_from, failed>>
vars == <<phase, file, statements, query, call>>

StoreStatement == {"delete", "insert", "remove_application"}

Ids == {r.from : r \in Requests} \cup AppIds

Row == [from : Ids \ {EmptyId}, feature : Int, when : Int, answer : Answer]

\* A row of a running query's result set.
Result == [id : 1..MaxId, row : Row]

Narrowing ==
    [app      : (AppIds \ {EmptyId}) \cup {Null},
     feature  : Int \cup {Null},
     interval : (Int \X Int) \cup {Null},
     answer   : Answer \cup {Null}]

\* Query::Private; `statement` is where SQLite is in the select statement and
\* `results` what it has left to deliver, the current row first.
QueryState ==
    [status        : {"armed", "has_more_results", "eor"},
     statement     : {"ready", "row", "done", "failed"},
     narrowing     : Narrowing,
     results       : Seq(Result),
     delete_failed : BOOLEAN]

NewQuery ==
    [status |-> "armed", statement |-> "ready", narrowing |-> Unnarrowed,
     results |-> <<>>, delete_failed |-> FALSE]

NoCall == [op |-> "none"]

Init ==
    /\ phase = "closed"
    /\ version = 0
    /\ created = FALSE
    /\ rows = EmptyTable
    /\ insert_from = Null
    /\ remove_from = Null
    /\ failed = {}
    /\ query = [q \in Queries |-> Null]
    /\ call = NoCall

-----------------------------------------------------------------------------
(* Opening and closing the store.                                          *)

\* Mutant: upgrade() records the version before it creates the table.
OpenVersionFirst ==
    /\ phase = "closed"
    /\ IF version = 0
       THEN phase' = "upgrading" /\ version' = 1
       ELSE phase' = "open" /\ UNCHANGED version
    /\ call' = NoCall
    /\ UNCHANGED <<created, rows, statements, query>>

\* The constructor reads user_version; version 0 has upgrade() create the
\* table before it records the new version.
Open ==
    /\ phase = "closed"
    /\ IF version = 0
       THEN phase' = "upgrading" /\ created' = TRUE
       ELSE phase' = "open" /\ UNCHANGED created
    /\ call' = NoCall
    /\ UNCHANGED <<version, rows, statements, query>>

SetVersion ==
    /\ phase = "upgrading"
    /\ phase' = "open"
    /\ version' = 1
    /\ UNCHANGED <<created, rows, statements, query, call>>

\* The process ends, in order or not, or the constructor throws.  The file
\* stays, every statement is committed by itself.
Close ==
    /\ phase # "closed"
    /\ phase' = "closed"
    /\ insert_from' = Null
    /\ remove_from' = Null
    /\ failed' = {}
    /\ query' = [q \in Queries |-> Null]
    /\ call' = NoCall
    /\ UNCHANGED file

-----------------------------------------------------------------------------
(* Store.  Each operation resets its statement first: after a failed step  *)
(* the reset throws the old error and the operation goes no further.       *)

Keep(ids) == Restrict(rows, DOMAIN rows \cap ids)

ResetThrows(s, c) ==
    /\ phase = "open"
    /\ s \in failed
    /\ failed' = failed \ {s}
    /\ call' = c
    /\ UNCHANGED <<phase, file, insert_from, remove_from, query>>

\* Stepping statement s throws.
StepThrows(s, c) ==
    /\ phase = "open"
    /\ s \notin failed
    /\ failed' = failed \cup {s}
    /\ call' = c
    /\ UNCHANGED <<phase, file, query>>

ResetCall(thrown) == [op |-> "reset", thrown |-> thrown]

ResetOk ==
    /\ phase = "open"
    /\ "delete" \notin failed
    /\ rows' = EmptyTable
    /\ call' = ResetCall(FALSE)
    /\ UNCHANGED <<phase, version, created, statements, query>>

ResetFails ==
    \/ ResetThrows("delete", ResetCall(TRUE))
    \/ StepThrows("delete", ResetCall(TRUE)) /\ UNCHANGED <<insert_from, remove_from>>

AddCall(r, thrown) == [op |-> "add", request |-> r, thrown |-> thrown]

\* ApplicationId is TEXT NOT NULL: an id that was never bound fails the insert.
AddOk(r) ==
    /\ phase = "open"
    /\ "insert" \notin failed
    /\ insert_from' = BindText(insert_from, r.from)
    /\ insert_from' # Null
    /\ \E id \in 1..MaxId :
          /\ IsNextId(id, rows)
          /\ rows' = [i \in DOMAIN rows \cup {id} |->
                        IF i = id THEN RowOf(r, insert_from') ELSE rows[i]]
    /\ call' = AddCall(r, FALSE)
    /\ UNCHANGED <<phase, version, created, remove_from, failed, query>>

AddFails(r) ==
    \/ ResetThrows("insert", AddCall(r, TRUE))
    \/ /\ StepThrows("insert", AddCall(r, TRUE))
       /\ insert_from' = BindText(insert_from, r.from)
       /\ UNCHANGED remove_from

RemoveCall(id, thrown) == [op |-> "remove_application", app |-> id, thrown |-> thrown]

\* With the parameter unbound, ApplicationId=NULL holds for no row.
RemoveApplicationOk(id) ==
    /\ phase = "open"
    /\ "remove_application" \notin failed
    /\ remove_from' = BindText(remove_from, id)
    /\ rows' = Keep({i \in DOMAIN rows : rows[i].from # remove_from'})
    /\ call' = RemoveCall(id, FALSE)
    /\ UNCHANGED <<phase, version, created, insert_from, failed, query>>

RemoveApplicationFails(id) ==
    \/ ResetThrows("remove_application", RemoveCall(id, TRUE))
    \/ /\ StepThrows("remove_application", RemoveCall(id, TRUE))
       /\ remove_from' = BindText(remove_from, id)
       /\ UNCHANGED insert_from

-----------------------------------------------------------------------------
(* Query.                                                                  *)

QueryCall(op, q, thrown) == [op |-> op, query |-> q, thrown |-> thrown]

\* query() and the end of the last reference to its result.
CreateQuery(q) ==
    /\ phase = "open"
    /\ query[q] = Null
    /\ query' = [query EXCEPT ![q] = NewQuery]
    /\ call' = QueryCall("query", q, FALSE)
    /\ UNCHANGED <<phase, file, statements>>

\* Preparing the statements of the new query fails: there is no query.
CreateQueryThrows(q) ==
    /\ phase = "open"
    /\ query[q] = Null
    /\ call' = QueryCall("query", q, TRUE)
    /\ UNCHANGED <<phase, file, statements, query>>

DestroyQuery(q) ==
    /\ query[q] # Null
    /\ query' = [query EXCEPT ![q] = Null]
    /\ call' = QueryCall("~Query", q, FALSE)
    /\ UNCHANGED <<phase, file, statements>>

\* for_application_id, for_feature, for_interval and for_answer.
Narrow(q, narrowing) ==
    /\ query[q] # Null
    /\ query[q].statement = "ready"
    /\ query' = [query EXCEPT ![q].narrowing = narrowing]
    /\ call' = QueryCall("for", q, FALSE)
    /\ UNCHANGED <<phase, file, statements>>

ForApplicationId(q, id) ==
    Narrow(q, [query[q].narrowing EXCEPT !.app = BindText(@, id)])

ForFeature(q, feature) ==
    Narrow(q, [query[q].narrowing EXCEPT !.feature = AsInt64(feature)])

ForInterval(q, interval) ==
    Narrow(q, [query[q].narrowing EXCEPT !.interval = interval])

ForAnswer(q, answer) ==
    Narrow(q, [query[q].narrowing EXCEPT !.answer = answer])

\* SQLITE_MISUSE: the statement has been stepped and not reset since.
NarrowThrows(q) ==
    /\ query[q] # Null
    /\ query[q].statement # "ready"
    /\ call' = QueryCall("for", q, TRUE)
    /\ UNCHANGED <<phase, file, statements, query>>

\* reset() of the select statement; it throws if the last step failed.
Rewound(s) == [s EXCEPT !.statement = "ready", !.results = <<>>]

\* all() leaves the status alone.
All(q) ==
    /\ query[q] # Null
    /\ query[q].statement # "failed"
    /\ query' = [query EXCEPT ![q] = [Rewound(@) EXCEPT !.narrowing = Unnarrowed]]
    /\ call' = QueryCall("all", q, FALSE)
    /\ UNCHANGED <<phase, file, statements>>

RewindThrows(q, op) ==
    /\ query[q] # Null
    /\ query[q].statement = "failed"
    /\ query' = [query EXCEPT ![q] = Rewound(@)]
    /\ call' = QueryCall(op, q, TRUE)
    /\ UNCHANGED <<phase, file, statements>>

\* Mutant: the status is not updated when the results are exhausted.
SteppedStaleStatus(s, left) ==
    [s EXCEPT !.statement = IF left = <<>> THEN "done" ELSE "row",
              !.results   = left,
              !.status    = IF left = <<>> THEN @ ELSE "has_more_results"]

\* step() of the select statement against a table.
Stepped(s, left) ==
    [s EXCEPT !.statement = IF left = <<>> THEN "done" ELSE "row",
              !.results   = left,
              !.status    = IF left = <<>> THEN "eor" ELSE "has_more_results"]

StepFailed(s) == [s EXCEPT !.statement = "failed", !.results = <<>>]

Steps(s, table) ==
    IF s.statement = "row"
    THEN {Stepped(s, Tail(s.results))}
    ELSE {Stepped(s, [n \in DOMAIN l |-> [id |-> l[n], row |-> table[l[n]]]]) :
             l \in Listings(table, s.narrowing)}

Execute(q) ==
    /\ query[q] # Null
    /\ query[q].statement # "failed"
    /\ \/ /\ \E s \in Steps(Rewound(query[q]), rows) : query' = [query EXCEPT ![q] = s]
          /\ call' = QueryCall("execute", q, FALSE)
       \/ /\ query' = [query EXCEPT ![q] = StepFailed(@)]
          /\ call' = QueryCall("execute", q, TRUE)
    /\ UNCHANGED <<phase, file, statements>>

Next(q) ==
    /\ query[q] # Null
    /\ \/ /\ \E s \in Steps(query[q], rows) : query' = [query EXCEPT ![q] = s]
          /\ call' = QueryCall("next", q, FALSE)
       \/ /\ query' = [query EXCEPT ![q] = StepFailed(@)]
          /\ call' = QueryCall("next", q, TRUE)
    /\ UNCHANGED <<phase, file, statements>>

\* column_int of the id: 0, which no row has, unless the statement is at a row.
CurrentId(s) == IF s.statement = "row" THEN Head(s.results).id ELSE 0

Erase(q) ==
    /\ query[q] # Null
    /\ query[q].status # "eor"
    /\ ~query[q].delete_failed
    /\ rows' = Keep(DOMAIN rows \ {CurrentId(query[q])})
    /\ \/ /\ \E s \in Steps(query[q], rows') : query' = [query EXCEPT ![q] = s]
          /\ call' = QueryCall("erase", q, FALSE)
       \/ /\ query' = [query EXCEPT ![q] = StepFailed(@)]
          /\ call' = QueryCall("erase", q, TRUE)
    /\ UNCHANGED <<phase, version, created, statements>>

\* At the end of the results; at the reset or the step of delete_statement.
EraseThrows(q) ==
    /\ query[q] # Null
    /\ \/ query[q].status = "eor" /\ UNCHANGED query
       \/ /\ query[q].status # "eor"
          /\ query' = [query EXCEPT ![q].delete_failed = ~@]
    /\ call' = QueryCall("erase", q, TRUE)
    /\ UNCHANGED <<phase, file, statements>>

\* sqlite3_column_* of a statement that is not at a row read NULL: "" and 0.
NullRow == [from |-> EmptyId, feature |-> 0, when |-> 0, answer |-> "denied"]

Current(q) ==
    /\ query[q] # Null
    /\ query[q].status = "has_more_results"
    /\ call' = [op |-> "current", query |-> q, thrown |-> FALSE, request |->
                   RequestOf(IF query[q].statement = "row"
                             THEN Head(query[q].results).row ELSE NullRow)]
    /\ UNCHANGED <<phase, file, statements, query>>

CurrentThrows(q) ==
    /\ query[q] # Null
    /\ query[q].status # "has_more_results"
    /\ call' = QueryCall("current", q, TRUE)
    /\ UNCHANGED <<phase, file, statements, query>>

-----------------------------------------------------------------------------
NextStore ==
    \/ Open \/ SetVersion \/ Close
    \/ ResetOk \/ ResetFails
    \/ \E r \in Requests : AddOk(r) \/ AddFails(r)
    \/ \E id \in AppIds : RemoveApplicationOk(id) \/ RemoveApplicationFails(id)

NextQuery(q) ==
    \/ CreateQuery(q) \/ CreateQueryThrows(q) \/ DestroyQuery(q)
    \/ \E id \in AppIds : ForApplicationId(q, id)
    \/ \E f \in Features : ForFeature(q, f)
    \/ \E i \in Intervals : ForInterval(q, i)
    \/ \E a \in Answer : ForAnswer(q, a)
    \/ NarrowThrows(q)
    \/ All(q) \/ RewindThrows(q, "all")
    \/ Execute(q) \/ RewindThrows(q, "execute")
    \/ Next(q)
    \/ Erase(q) \/ EraseThrows(q)
    \/ Current(q) \/ CurrentThrows(q)

NextStep == NextStore \/ \E q \in Queries : NextQuery(q)

Spec == Init /\ [][NextStep]_vars

-----------------------------------------------------------------------------
(* Properties.                                                             *)

\* Every variable has its type; in particular no row and no bound parameter
\* ever holds the empty application id (bind_text never binds it).
TypeOK ==
    /\ phase \in {"closed", "upgrading", "open"}
    /\ version \in {0, 1}
    /\ created \in BOOLEAN
    /\ DOMAIN rows \subseteq 1..MaxId /\ rows \in [DOMAIN rows -> Row]
    /\ insert_from \in (Ids \ {EmptyId}) \cup {Null}
    /\ remove_from \in (Ids \ {EmptyId}) \cup {Null}
    /\ failed \subseteq StoreStatement
    /\ query \in [Queries -> QueryState \cup {Null}]

\* A store that finished opening has its table and its version on file, and
\* rows are only ever found in a created table: a crash between the two steps
\* of upgrade() leaves a file that the next start upgrades again.
OpenedStoreIsUpgraded ==
    /\ phase = "open" => version = 1
    /\ version = 1 => created
    /\ ~created => rows = EmptyTable

\* While a query runs, everything it has still to deliver satisfies the
\* narrowing the client sees on it, although the table changes underneath:
\* narrowing a running query throws instead of changing what it means.
ResultsMatchNarrowing ==
    \A q \in Queries : query[q] # Null =>
        \A n \in DOMAIN query[q].results :
            Matches(query[q].results[n].row, query[q].narrowing)

\* ... and comes newest first, no row twice: the first result is the most
\* recent request, which is what CachedAgent takes it for.
ResultsNewestFirst ==
    \A q \in Queries : query[q] # Null =>
        \A m, n \in DOMAIN query[q].results : m < n =>
            /\ query[q].results[m].id # query[q].results[n].id
            /\ query[q].results[m].row.when >= query[q].results[n].row.when

\* A query whose statement is at a row says that it has more results, and one
\* whose statement has run to its end says eor: a client that loops on status()
\* misses no result and does not run past the end.  Nothing is said of a query
\* whose statement was rewound by all() or has failed: there the status is that
\* of an earlier step, and has_more_results can be reported without a row.
ResultsAreReported ==
    \A q \in Queries : query[q] # Null =>
        /\ query[q].statement = "row" <=> query[q].results # <<>>
        /\ query[q].statement = "row" => query[q].status = "has_more_results"
        /\ query[q].statement = "done" => query[q].status = "eor"

\* The collection of requests as clients read it back.
AsRequests == [id \in DOMAIN rows |-> RequestOf(rows[id])]

Abstract == INSTANCE RequestStore WITH requests <- AsRequests, call <- call

\* The SQLite store keeps the promises of store.h: what add() acknowledged is
\* there unchanged until reset(), remove_application() of its application or
\* an erase() takes it, across failed calls, crashes and restarts.
ImplementsRequestStore == Abstract!Spec

\* store.h on erase(): "erase the current element": the row that goes is the
\* one the query points to, as the query shows it.
EraseRemovesCurrent ==
    [][call'.op = "erase" =>
        \A id \in DOMAIN rows \ DOMAIN rows' :
            rows[id] = Head(query[call'.query].results).row]_vars
=============================================================================
