--------------------------------- MODULE Result --------------------------------
(***************************************************************************)
(* OrmResult and OrmRow (src/engine/) over the results of the drivers.     *)
(* SQLite steps a statement, row by row, and a step can fail.  The servers *)
(* have sent every row before the driver makes a result of them, so that   *)
(* a failure comes earlier: as a failed query, or, for a MySQL query       *)
(* without parameters, as a result that has no columns and no rows.        *)
(***************************************************************************)
EXTENDS DriverValues

LOCAL INSTANCE SequencesExt

CONSTANT NoRow      \* the NULL row

Never == -1

(* cells: the rows the statement produces; names, types: its columns;      *)
(* breaks: how many rows come before a step that fails, or Never.          *)
DriverResult(d, names, types, cells, breaks) ==
    [d |-> d, open |-> TRUE, exhausted |-> FALSE, at |-> 0, names |-> names,
     types |-> types, cells |-> cells, breaks |-> breaks]

NewResult(driver) == [driver |-> driver, row |-> NoRow, error |-> FALSE,
                      exhausted |-> FALSE, closed |-> FALSE]

(* mysql_store_result() failed: nothing tells it from a statement that has *)
(* no rows.                                                                *)
LostResult(d) == DriverResult(d, <<>>, <<>>, <<>>, Never)

-------------------------------------------------------------------------------
(*                                 Rows                                    *)

NewRow(names, values) == [names |-> names, values |-> values]

RowColumnCount(row)      == Len(row.values)
RowColumnName(row, i)    == row.names[i]

(* Of two columns with one name, the last.                                 *)
ColumnIndex(row, name) ==
    LET named == {i \in DOMAIN row.names : row.names[i] = name}
    IN  IF named = {} THEN -1 ELSE CHOOSE i \in named : \A j \in named : j <= i

ValueAt(row, i) == IF i \in DOMAIN row.values THEN row.values[i] ELSE NoValue
ValueByName(row, name) ==
    LET i == ColumnIndex(row, name) IN IF i = -1 THEN NoValue ELSE ValueAt(row, i)

(* The typed getters: zero, NULL or false for a NULL, and for a value of   *)
(* another type.                                                           *)
RowIsNull(row, i)  == LET value == ValueAt(row, i) IN value = NoValue \/ IsNull(value)
RowInteger(row, i) == IF RowIsNull(row, i) THEN 0 ELSE GetInteger(ValueAt(row, i))
RowFloat(row, i)   == IF RowIsNull(row, i) THEN 0 ELSE GetFloat(ValueAt(row, i))
RowString(row, i)  == IF RowIsNull(row, i) THEN NoData ELSE GetString(ValueAt(row, i))
RowBoolean(row, i) == IF RowIsNull(row, i) THEN FALSE ELSE GetBoolean(ValueAt(row, i))

-------------------------------------------------------------------------------
(*                               Fetching                                  *)

BuildRow(driver, i) ==
    NewRow(driver.names, [c \in DOMAIN driver.names |->
                             ReadCell(driver.d, driver.cells[i][c], driver.types[c])])

Fetched(driver, row, error) == [driver |-> driver, row |-> row, error |-> error]

SqliteFetchRow(driver) ==
    IF ~driver.open \/ driver.exhausted THEN Fetched(driver, NoRow, FALSE)
    ELSE IF driver.at = driver.breaks
    THEN Fetched([driver EXCEPT !.exhausted = TRUE], NoRow, TRUE)
    ELSE IF driver.at = Len(driver.cells)
    THEN Fetched([driver EXCEPT !.exhausted = TRUE], NoRow, FALSE)
    ELSE Fetched([driver EXCEPT !.at = @ + 1], BuildRow(driver, driver.at + 1), FALSE)

(* libpq has every row in memory: counting is all there is to it.          *)
PostgresFetchRow(driver) ==
    IF ~driver.open \/ driver.at = Len(driver.cells) THEN Fetched(driver, NoRow, FALSE)
    ELSE Fetched([driver EXCEPT !.at = @ + 1], BuildRow(driver, driver.at + 1), FALSE)

MySqlFetchRow(driver) ==
    IF driver.exhausted \/ ~driver.open THEN Fetched(driver, NoRow, FALSE)
    ELSE IF driver.at = Len(driver.cells)
    THEN Fetched([driver EXCEPT !.exhausted = TRUE], NoRow, FALSE)
    ELSE Fetched([driver EXCEPT !.at = @ + 1], BuildRow(driver, driver.at + 1), FALSE)

FetchRow(driver) ==
    CASE driver.d = "sqlite"   -> SqliteFetchRow(driver)
      [] driver.d = "postgres" -> PostgresFetchRow(driver)
      [] driver.d = "mysql"    -> MySqlFetchRow(driver)

(* orm_result_next(): whether there is a row is whether one is current.    *)
NextRow(r) ==
    IF r.exhausted \/ ~r.driver.open THEN [r EXCEPT !.row = NoRow]
    ELSE LET got == FetchRow(r.driver)
         IN  [r EXCEPT !.driver = got.driver, !.row = got.row, !.error = @ \/ got.error,
                       !.exhausted = got.row = NoRow]

HasRow(r) == r.row # NoRow

(* Closing keeps the current row, but no column: the result forgets it all. *)
CloseResult(r) == [r EXCEPT !.driver.open = FALSE, !.closed = TRUE, !.exhausted = TRUE]

ColumnCount(r)   == IF r.driver.open THEN Len(r.driver.names) ELSE 0
ColumnType(r, i) == IF ~r.driver.open THEN "null"
                    ELSE ColumnValueType(r.driver.d, r.driver.types[i])
ColumnNames(r)   == IF r.driver.open THEN r.driver.names ELSE <<>>

(* Every row that is left, with the result as it is afterwards.            *)
RECURSIVE GetAll(_, _)
GetAll(r, rows) ==
    LET next == NextRow(r)
    IN  IF HasRow(next) THEN GetAll(next, Append(rows, next.row)) ELSE [result |-> next, rows |-> rows]

GetFirst(r) == NextRow(r).row
GetScalar(r) ==
    LET first == GetFirst(r)
    IN  IF first = NoRow THEN NoValue
        ELSE IF ValueAt(first, 1) = NoValue THEN NoValue ELSE Copy(ValueAt(first, 1))
===============================================================================
