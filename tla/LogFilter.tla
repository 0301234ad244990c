----------------------------- MODULE LogFilter -----------------------------
(***************************************************************************)
(* The filter of GetLogEntries and the SQL condition it becomes: a text of *)
(* conditions, parentheses, AND and OR, here a sequence of them, that      *)
(* SQLite reads.                                                           *)
(***************************************************************************)
EXTENDS Integers, FiniteSets, SequencesExt

CONSTANTS
    Columns,     \* the columns that are compared with lists of values, in their order
    Values,
    Times,       \* seconds, without 0
    Now,         \* the time of the request
    MaxList      \* bound: the elements of a list

NoDate == 0      \* an invalid QDateTime

VARIABLES
    m_timeFilters,   \* pairs of a start and an end
    m_lists          \* column -> list of values: m_sources, m_levels, m_eventTypes, ...

logFilterVars == <<m_timeFilters, m_lists>>

ColumnSet == ToSet(Columns)

\* A row of the table: its column "timestamp", and the others
Rows == [timestamp : Times, columns : [ColumnSet -> Values]]

LogFilterInit ==
    /\ m_timeFilters = <<>>
    /\ m_lists = [c \in ColumnSet |-> <<>>]

-----------------------------------------------------------------------------
(* unpackLogFilter(): what is in the lists of the request is added. *)

\* Mutant of AddTimeFilter.
AddTimeFilter_Again(startDate, endDate) ==
    /\ Len(m_timeFilters) < MaxList
    /\ m_timeFilters' = Append(m_timeFilters, <<startDate, endDate>>)
    /\ UNCHANGED m_lists

\* addTimeFilter()
AddTimeFilter(startDate, endDate) ==
    /\ Len(m_timeFilters) < MaxList
    /\ <<startDate, endDate>> \notin ToSet(m_timeFilters)
    /\ m_timeFilters' = Append(m_timeFilters, <<startDate, endDate>>)
    /\ UNCHANGED m_lists

\* addLoggingSource(), addLoggingLevel(), addLoggingEventType(), addTypeId(),
\* addDeviceId(), addValue()
AddTo(column, value) ==
    /\ Len(m_lists[column]) < MaxList
    /\ value \notin ToSet(m_lists[column])
    /\ m_lists' = [m_lists EXCEPT ![column] = Append(@, value)]
    /\ UNCHANGED m_timeFilters

LogFilterNext ==
    \/ \E startDate, endDate \in Times \cup {NoDate} : AddTimeFilter(startDate, endDate)
    \/ \E column \in ColumnSet, value \in Values : AddTo(column, value)

-----------------------------------------------------------------------------
(* The text *)

Word(word) == <<[word |-> word]>>
Between(from, to) == <<[word |-> "BETWEEN", from |-> from, to |-> to]>>
NotBetween(from, to) == <<[word |-> "NOT BETWEEN", from |-> from, to |-> to]>>
Equals(column, value) == <<[word |-> "=", column |-> column, value |-> value]>>

\* createTimeFilterString()
TimeFilterString(startDate, endDate) ==
    Word("(")
    \o (CASE startDate # NoDate /\ endDate = NoDate -> Between(startDate, Now)
          [] startDate = NoDate /\ endDate # NoDate -> NotBetween(endDate, Now)
          [] startDate # NoDate /\ endDate # NoDate -> Between(startDate, endDate)
          [] OTHER -> <<>>)
    \o Word(")")

\* createDateString(), createSourcesString(), ...: an OR after each that is not equal
\* to the last
Either(list, text(_)) ==
    CASE list = <<>> -> <<>>
      [] Len(list) = 1 -> text(list[1])
      [] OTHER -> Word("(")
                  \o FlattenSeq([i \in DOMAIN list |->
                         text(list[i]) \o (IF list[i] = Last(list) THEN <<>> ELSE Word("OR"))])
                  \o Word(")")

Clauses ==
    <<Either(m_timeFilters, LAMBDA pair : TimeFilterString(pair[1], pair[2]))>>
    \o [i \in DOMAIN Columns |->
            Either(m_lists[Columns[i]], LAMBDA value : Equals(Columns[i], value))]

\* queryString()
QueryString ==
    FoldLeft(LAMBDA query, clause :
                query \o (IF query # <<>> /\ clause # <<>> THEN Word("AND") ELSE <<>>) \o clause,
             <<>>, Clauses)

-----------------------------------------------------------------------------
(* SQLite: AND binds stronger than OR. *)

Depth(text, i) ==
    Cardinality({j \in 1..i - 1 : text[j].word = "("})
    - Cardinality({j \in 1..i - 1 : text[j].word = ")"})

TopLevel(text, word) == {i \in DOMAIN text : text[i].word = word /\ Depth(text, i) = 0}

Parts(text, cuts) ==
    LET ends == cuts \cup {0, Len(text) + 1} IN
    {SubSeq(text, i + 1, (CHOOSE j \in ends : j > i /\ \A k \in ends : k > i => j <= k) - 1) :
        i \in ends \ {Len(text) + 1}}

RECURSIVE Truth(_, _)
Truth(text, row) ==
    LET truths(word) == {Truth(part, row) : part \in Parts(text, TopLevel(text, word))} IN
    CASE TopLevel(text, "OR") # {} ->
            IF "error" \in truths("OR") THEN "error"
            ELSE IF "true" \in truths("OR") THEN "true" ELSE "false"
      [] TopLevel(text, "OR") = {} /\ TopLevel(text, "AND") # {} ->
            IF "error" \in truths("AND") THEN "error"
            ELSE IF "false" \in truths("AND") THEN "false" ELSE "true"
      [] Len(text) = 1 ->
            LET holds == CASE text[1].word = "=" -> row.columns[text[1].column] = text[1].value
                           [] text[1].word = "BETWEEN" ->
                                row.timestamp \in text[1].from..text[1].to
                           [] text[1].word = "NOT BETWEEN" ->
                                row.timestamp \notin text[1].from..text[1].to
            IN  IF holds THEN "true" ELSE "false"
      [] Len(text) > 2 /\ text[1].word = "(" /\ Last(text).word = ")" ->
            Truth(SubSeq(text, 2, Len(text) - 1), row)
      [] OTHER -> "error"

IsEmpty == m_timeFilters = <<>> /\ \A c \in ColumnSet : m_lists[c] = <<>>

\* logEntries(): a query that fails finds nothing.
Found(rows) ==
    LET query == QueryString IN
    IF IsEmpty THEN rows
    ELSE IF \E row \in rows : Truth(query, row) = "error" THEN {}
    ELSE {row \in rows : Truth(query, row) = "true"}

-----------------------------------------------------------------------------

\* What the description of GetLogEntries says of a filter and a row
InTime(row) ==
    m_timeFilters # <<>> =>
        \E pair \in ToSet(m_timeFilters) :
            /\ pair[1] # NoDate => pair[1] <= row.timestamp
            /\ pair[2] # NoDate => row.timestamp <= pair[2]

Matches(row) ==
    /\ InTime(row)
    /\ \A c \in ColumnSet : m_lists[c] # <<>> => row.columns[c] \in ToSet(m_lists[c])

\* A time filter with an end alone takes the time of the end as outside, and what the
\* clock calls the future as inside; one with a start alone ends now.
Unclear(row) ==
    \E pair \in ToSet(m_timeFilters) :
        \/ pair[1] # NoDate /\ pair[2] = NoDate /\ row.timestamp > Now
        \/ pair[1] = NoDate /\ pair[2] # NoDate
           /\ (row.timestamp = pair[2] \/ row.timestamp > Now)

\* GetLogEntries finds the entries that match one of the elements of each list of the
\* filter ("Each list element of a given filter will be connected with OR to each other.
\* Each of the given filters will be connected with AND to each other."), provided that
\* no time filter lacks both dates; such a filter finds nothing.
FilterSelects ==
    LET found == Found(Rows) IN
    IF <<NoDate, NoDate>> \in ToSet(m_timeFilters) THEN found = {}
    ELSE \A row \in Rows : ~Unclear(row) => (row \in found <=> Matches(row))
=============================================================================
