----------------------------- MODULE ListQuery -----------------------------
(***************************************************************************)
(* The list endpoints, from the query string to the two SQL statements:    *)
(*                                                                         *)
(*   pkg/pagination/pagination.go   NewParams, Offset, NewMeta             *)
(*   pkg/query/query.go             Parse                                  *)
(*   pkg/query/gorm/gorm.go         Filters, Sorts                         *)
(*                                                                         *)
(* int is a machine integer: the largest one is IntMax and products wrap.  *)
(* A row has a unique id, and a name and a time that rows may share; all   *)
(* are numbers here, and a name "contains" a value if it is the same.      *)
(***************************************************************************)
EXTENDS Integers, Sequences, FiniteSets

CONSTANTS
    DefaultLimit,   \* 10
    MaxLimit,       \* 100
    IntMax          \* 2^63 - 1

ASSUME ListAssumption ==
    /\ IntMax \in Nat
    /\ DefaultLimit \in 1 .. MaxLimit
    /\ MaxLimit \in 1 .. IntMax

Wrap(n) == ((n + IntMax + 1) % (2 * (IntMax + 1))) - (IntMax + 1)

(* strconv.Atoi of a query parameter whose error is dropped: text that is  *)
(* no number, or none, gives 0, and a number out of range the nearest int. *)
Atoi(n) == CASE n > IntMax -> IntMax [] n < -IntMax - 1 -> -IntMax - 1 [] OTHER -> n

NewParams(page, limit) ==
    [page  |-> IF page < 1 THEN 1 ELSE page,
     limit |-> CASE limit < 1        -> DefaultLimit
                 [] limit > MaxLimit -> MaxLimit
                 [] OTHER            -> limit]

Offset(p) == Wrap((p.page - 1) * p.limit)

TotalPages(p, total) == (total + p.limit - 1) \div p.limit

-----------------------------------------------------------------------------
(* ListSchema of the users, with one field of each kind: matched exactly,  *)
(* matched in part, not to be filtered by.                                 *)
Schema == [id         |-> [sortable |-> TRUE, filterable |-> TRUE],
           name       |-> [sortable |-> TRUE, filterable |-> TRUE],
           created_at |-> [sortable |-> TRUE, filterable |-> FALSE]]

(* Parse: fields outside the schema, or not allowed there, are dropped.    *)
(* A sort is a field and a direction, a filter a field and a value.        *)
SortSpec    == [field: STRING, desc: BOOLEAN]
Sortable(s) == s.field \in DOMAIN Schema /\ Schema[s.field].sortable

ParseSorts(sorts) ==
    LET opts[n \in 0 .. Len(sorts)] ==     \* after n of the fields
          IF n = 0 THEN <<>>
          ELSE IF Sortable(sorts[n]) THEN Append(opts[n - 1], sorts[n])
          ELSE opts[n - 1]
    IN  opts[Len(sorts)]

ParseFilters(filters) ==
    {f \in filters : f.field \in DOMAIN Schema /\ Schema[f.field].filterable}

(* WHERE.  PostgreSQL refuses to compare the id with text.                 *)
NaN == 0    \* stands for a value that is no number; ids start at 1
Refuses(filters) == \E f \in filters : f.field = "id" /\ f.value = NaN
Filtered(rows, filters) ==
    {row \in rows : \A f \in filters : row[f.field] = f.value}

(* ORDER BY: earlier sorts first.  Rows it does not tell apart come in any *)
(* order, another one for every statement.                                 *)
Precedes(a, b, sorts) ==
    \E i \in DOMAIN sorts :
        /\ \A j \in 1 .. i - 1 : a[sorts[j].field] = b[sorts[j].field]
        /\ LET x == a[sorts[i].field]  y == b[sorts[i].field]
           IN  IF sorts[i].desc THEN y < x ELSE x < y

(* A bug of Ordered: Sorts is left out of the statement. *)
OrderedAnyhow(rows, sorts) ==
    {s \in [1 .. Cardinality(rows) -> rows] :
        \A i, j \in DOMAIN s : i < j => s[i] # s[j]}

Ordered(rows, sorts) ==
    {s \in [1 .. Cardinality(rows) -> rows] :
        \A i, j \in DOMAIN s :
            i < j => s[i] # s[j] /\ ~Precedes(s[j], s[i], sorts)}

(* OFFSET and LIMIT.  gorm writes no OFFSET clause for a negative offset.  *)
First(offset) == IF offset < 0 THEN 0 ELSE offset

PageOf(s, offset, limit) ==
    SubSeq(s, First(offset) + 1,
           IF First(offset) + limit < Len(s) THEN First(offset) + limit
                                             ELSE Len(s))
=============================================================================
