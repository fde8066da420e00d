# A verification of Naemon Livestatus

Livestatus is a broker module of the Naemon core. It is loaded into the core's
process, keeps tables over the core's own objects, and answers queries of
clients that connect to a socket. The core runs in one thread; every client
connection has a thread of its own that reads the core's objects directly.
This directory holds TLA+ modules that model the parts of it where order,
concurrency and limits matter, the TLC configurations that check them on small
instances, and proofs for TLAPS. Paths without a directory are below `src/src/`.

## 1. Inventory

| Component | State | Operations | What makes it correct |
|---|---|---|---|
| Module life cycle (`module.c`) | `g_client_threads`, `g_should_terminate`, the socket | init, event loop start and end, accept, reap, shutdown, deinit | every thread is joined once; none runs when the tables are gone; the shutdown ends as soon as no thread waits for others |
| Request reader (`InputBuffer.cc`) | a ring-less buffer with three pointers, `_requestlines` | `readRequest`, `readData`, `nextLine` | lines are those of the byte stream; timeouts and termination end every wait |
| Connection (`Store.cc`, `OutputBuffer.cc`, `client_thread`) | lines left over, the response, keep-alive | dispatch of `GET`, `COMMAND`, `LOGROTATE`; `flush` | own lines, whole answers in order, an end when asked for |
| Wait triggers (`Query::doWait`, broker callbacks) | one mutex, a condition variable per trigger | wait with or without timeout, broadcast | waits end for the right reason, and end |
| Downtimes and comments (`TableDownComm.cc`, `DownCommColumn.cc`) | a map per table behind a recursive mutex | add, remove, query, list columns | entries live while they are used; the core is not held up |
| Sorting and pagination (`RowSortedSet.cc`, `Query.cc`) | a bounded heap, counters | insert, extract, finish | the page asked for, in order |
| Query headers (`Query.cc`) | filter stacks, columns, stats, limits | one parser per header | the filters are the ones the headers spell; errors refuse the request |
| Execution and output (`Query.cc`, tables) | the row being printed, groups, counts kept per list | walk, filter, authorize, print, group, finish | no row lost or twice; counts of one moment; an answer that parses |
| Log cache (`LogCache.cc`, `Logfile.cc`, `LogEntry.cc`, `TableLog.cc`) | index of logfiles, entries by class, a counter with a limit, one lock | lock, index update, load, free, query | no line is lost or repeated; the counter is exact; what a query uses is not freed |
| State history (`TableStateHistory.cc`, `LogEntry.cc`) | a state per object, periods | one pass over log entries | durations cover the time range once; a state is what the log told |
| Timeperiods cache (`TimeperiodsCache.cc`) | a Boolean per period | update, lookup | transitions are logged once |
| Filters (`*Filter.cc`) | an operator and a value, or subfilters | accept, derived time limits, bitmasks and index keys | they mean what they say; what is derived never excludes a row that is accepted |
| Aggregators (`*Aggregator.cc`, `StatsColumn.cc`) | a sum, a sum of squares, a count | consume, output | the result over the group's values, in any order |
| State columns (`*StateColumn.cc`) | counts per list and query | compute, get | the counts of a row add up although the core goes on |
| Authorization (`auth.cc`, the tables) | two levels, set once | one predicate per table | the rows, lists and counts a contact gets are of objects it may see |
| Logger, helpers | a file | write | - |
| Clients (`unixcat.c`, `api/`) | connection, persistence | connect, send, receive | answers belong to queries |

How they interact: the core calls the module's callbacks (broker events, the
event loop's start and end, new connections) on its own thread. A callback
changes the tables of downtimes and comments under their mutexes, broadcasts
condition variables, or starts threads. A client thread calls
`Store::answerRequest`, which reads a request (`InputBuffer`), builds a `Query`
from its lines, waits if it is told to, lets a table feed rows into the query,
and flushes the `OutputBuffer`. The only shared state with locks is that of
downtimes and comments, the log cache, the timeperiods cache, the logger and
the wait mutex; the core's own objects are read without any.

What is hard: broadcasts without the mutex, clocks and deadlines at their edges,
threads that must notice one flag wherever they wait, arrays rewritten while
they are walked, two tables with two locks, pointers kept beyond a lock, a
buffer shifted in the middle of a line, writes that stop half way, and integer
arithmetic with -1 for "none". `PROJECT.json` lists each place.

## 2. Modules

| Module | Models | Correspondence |
|---|---|---|
| `RequestFraming` | what a client may rely on when it writes requests | abstract: one byte at a time, no buffer |
| `InputBuffer` | `InputBuffer.cc` | `rp`, `wp`, `r` are the pointers as offsets; one action per branch of `readRequest` and `readData`; time is counted in `select` slices of 200 ms |
| `WaitTriggers` | `Query::doWait`, `pthread_cond_broadcast` in `module.c` | one action per step between two points where another thread may run; `holds` is the condition's value in the core's objects |
| `ClientThreads` | `module.c` | `core` is the position of the core's thread; `clients` is `g_client_threads`; reaping and joining go element by element. A thread is on its way back to the flag, or waits: `asleep` (`doWait`), `locking` (the log cache, whose owner is `lock`), `command` (the core's query handler), `writing` (the client), `crossed` (a mutex of a table that is never given back) |
| `Connection` | `client_thread`, `Store.cc`, header loop of `Query.cc`, `OutputBuffer.cc` | `lines` is `_requestlines`; `writing`, `moved`, `left` are a `write()` in progress; `wire` is the socket's buffer. `lock`, `asleep` and `command` are the waits of `answerGetRequest` and `answerCommandRequest`, which others end |
| `DownComm` | `TableDownComm.cc`, `DownCommColumn.cc` | `owner` and `depth` are the recursive mutexes; an entry is the number of its allocation, so a dangling pointer is a number the table does not hold any more |
| `LogCache` | `LogCache.cc`, `Logfile.cc`, `TableLog::answerQuery` | `files` is the disk and `logfiles` the index; a load reads one line per step, so that the core's writes and rotations fall in between; `HandleNewMessage` is the three phases that free memory, each as the set of files it reaches; lines are numbered to tell them apart |
| `LogEntry` | `LogEntry.cc` | pure: a line is its text and its fields; the text selects class, type and field names, as the chain of `handle...` functions does |
| `TimeperiodsCache` | `TimeperiodsCache.cc` | a minute is a step; `Update` is the whole function under its lock, the lines it logs are its argument |
| `StateHistory` | `TableStateHistory.cc` | one turn of the loop per step; a turn brings all objects it touches to their new state and reports rows, as `updateHostServiceState` does for one object and, through `_services`, for others |
| `ColumnFilters` | the filters of single columns | pure: `accepts`, `findTimeLimits`, `optimizeBitmask` for an operator, a reference and a value |
| `QueryFilters` | filter headers of `Query.cc`, `AndingFilter`, `OringFilter`, `NegatingFilter`, what tables do with filters | a filter is what can be observed of it; combining moves one filter per step; `meant` says in the headers' order which rows they describe; `timezone` is the offset of a Localtime header, which `ConvertRefValue` would subtract if the filter had its query by then |
| `Visibility` | `auth.cc`, `isAuthorized` of the tables | pure predicates over contacts |
| `StateColumns` | `ServicelistStateColumn`, `HostlistStateColumn` | counts of a list at one moment; `Known` is the map a query keeps of them |
| `Aggregators` | `*Aggregator.cc`, `StatsColumn` | one fold step per value; fractions instead of doubles |
| `QueryHeaders` | the headers that are no filters | a record of what the constructor and each header set |
| `QueryOutput` | output helpers of `Query.cc`, list columns | an answer is a sequence of tokens; strings are computed byte by byte, with the shifts of the code |
| `Answer` | `answerQuery` of hosts, services and groups, `processDataset`, `finish` | one row, column, filter or aggregator per step, so that checks of the core fall in between. `ValueOf` is what a column shows and `FilterValue` what its filter looks at, which for lists is not the same |
| `RowSortedSet` | `RowSortedSet.cc` | pure operators on a heap kept in a sequence; recursion as recursive functions |
| `Pagination` | `processDataset`, `finish` | one row, one extraction, one printed row at a time; `ToInt` is the arithmetic of `int` |
| `*_proofs` | proofs | see section 5 |

How they are composed: `RequestFraming` is the specification `InputBuffer` is
shown to implement, and what `Connection` takes for granted: there a request
arrives line by line, however it was cut into packets. `StateHistory` runs with
`TimeperiodsCache`, whose lines it reads back, and understands the core's other
lines through `LogEntry`. `QueryFilters` builds its filters of `ColumnFilters`.
`Answer` is `QueryHeaders`, `Visibility`, `StateColumns`, `Aggregators`,
`QueryOutput` and the heap of `RowSortedSet` together; `Pagination` uses the same
heap for what `Answer` leaves out (every table, the limits of `int`, failures).

Definitions whose comment begins with "Mutant" are plausible slips of the code
(a forgotten reset, a swapped order). They are used by no specification;
replacing the definition below them by one makes a property fail, which
`PROJECT.json` records for every property that holds.

## 3. Runs

`tlc -config <cfg> <module>`; the run's bounds are the constants of its cfg. Each
module has a type invariant, `TypeOK`; it is in no cfg, since where it says
something (a mutex is not unlocked too often, the pointers stay in order) it is
proved (section 5) or follows from a property that is checked.

| Run | Shows | Bounds, and why they are enough |
|---|---|---|
| `MCInputBuffer` | the buffer is a window of the stream, idle timeout, termination, refinement of `RequestFraming` | a buffer of 3 and streams of 5 bytes of three kinds: a line can fill the buffer, a second line makes it shift with part of a line in it; query timeout 2 slices and idle timeout 3, so that the idle clock passes its limit inside a query timeout |
| `MCWaitTriggers` | unlimited waits end with a true condition, timed waits return, repeated events end waits | two clients (one broadcast must wake both, one mutex must pass between them), one kind of event and `WT_ALL`, requests with and without condition, trigger and timeout, clock values at both ends of a second |
| `MCClientThreads` (`ClientThreads`) | nobody forgotten or alive after the shutdown; joining ends | four connections: the array can have a gap at its begin, middle and end while a new thread is appended, and the module may be loaded again; two threads can cross and others wait behind them, and one can have the log cache while others wait for it |
| `MCConnection` | own lines, whole answers, every request answered and the thread ended unless others hold it up | two pipelined requests out of seven kinds, bodies of up to two pieces with a header, a socket that holds two pieces: answers overlap in the socket, every write can stop in the middle, and a query can wait for the log cache and then for an event |
| `MCDownComm` | locks, live rows, tables mirror the core, the core goes on | two clients, two IDs per table, two entries: an entry can be deleted and its ID used again while a query has it; the queries nest both tables in one order, and one table within itself |
| `MCLogCache` | answers are the log, the counter is exact, memory is bounded | three logfiles with four lines of two classes, a limit of one message and a cycle of one: nearly every line read frees another, in all three phases; a current file may hold three lines, which it takes to meet a line again that was freed in the middle of a load |
| `MCPagination` | page, total count | all tables of up to five rows with three keys, limits and offsets 0 to 4: a heap of depth three with ties, pages before, at and behind the end |
| `MCStateHistory` | a state is what the log told, hosts know their services, every change is reported, durations add up, periods are those of the cache; every line of the core is understood | four lines of thirteen kinds out of the core's (a host, a service that is asked for and one that is not), a timeperiod, and four minutes around a range of two: every pair of changes inside, before and at the edge of the range, an object that vanishes and comes back, an initial state for either |
| `MCQueryFilters` | a filter accepts what its header says; combinations do; masks, limits and index keys lose no row | all operators, negated or not, over reference values of fifteen columns one by one, with the offset of a Localtime header before them or not; then up to four headers, which is the least that combines two combinations, or negates one of them, over four rows that differ in class, time, name and groups |
| `MCAnswer` | counts of a row fit, rows, lists and counts are of visible objects, rows and groups are complete, statistics exact, answers parse, strings decode | 22 requests that use every table, index (and one that finds nothing), format, kind of column and operation, with every level of authorization, and filters and stats of lists with members that the user does not see; two hosts and three services in overlapping, disjoint and empty groups; up to three checks at any moment |

Two runs are expected to fail: each checks what a comment says, and shows that
the code does something else. `PROJECT.json` quotes the line under "findings".

| Run | Property | What happens |
|---|---|---|
| `MCDownComm_Crossed` | `NoDeadlock` | comments filtered by downtimes against downtimes filtered by comments |
| `MCQueryFilters_OrLimits` | `LimitsSound` | `time < 2` Or `time >= 1`: each narrows the range of the log query in turn, and it looks at neither side |

### Where the code departs from what it is meant to do

The passing runs say under which condition a property holds, and the condition
names the defect.

- A condition that becomes true and is broadcast between `doWait`'s look at it
  (`Query.cc:1513`, `1556`) and its `pthread_cond_wait` is missed: the callbacks
  broadcast without `g_wait_mutex`. `EventsEndWait` therefore speaks of events
  that go on.
- A deadline of a whole second of nanoseconds is not normalised
  (`Query.cc:1531` has `>`): `pthread_cond_timedwait` returns `EINVAL`, and the
  loop, which knows `ETIMEDOUT` only, spins. `MCWaitTriggers` has no clock from
  which a deadline falls there; with 700000 us among `Microseconds`
  `TimedWaitReturns` fails.
- `shutdown_threads` joins threads that wait for others, whom nobody makes go on:
  one that sleeps in `doWait` without a timeout (`Query.cc:1541`), one that waits in
  `read()` for the core itself to run its command (`Store.cc:146`), one in a `write()`
  to a client that does not read (`OutputBuffer.cc:104`), one that waits for a mutex
  in a circle (the crossed run above), and one that waits for the log cache behind a
  sleeper or a crossed query (`Store.cc:173`). `JoiningEnds` excepts a core that
  joins such a thread for ever (`Stuck`), or an ID that is no thread because
  `pthread_create` had failed, whose `pthread_join` need not return. What it claims
  is the rest: a thread that waits for nobody is joined, and one that waits for the
  log cache is joined if its owner gives it back, on each of the ways out of a query.
- For the same reasons `EveryRequestAnswered` and `TerminationEndsThread` except a
  thread that is held up for ever (`HeldUp`): by the log cache, an event, a table or
  the core. A request is also not answered while its client does not read.
- `ReceivedAsAnswered` excepts a `write()` cut short by a signal: `write_from` is
  not moved, so the beginning is sent again. `TerminationEndsThread` also excepts a
  `write()` to a client that does not read.
- `LinesOfTheRequest` excepts requests whose lines the server does not all take,
  such as two commands in one request.
- `AnswerIsLog` excepts a query that runs while the core rotates its log, or after
  a rotation in the same second as the index's last update (`stale`), and a
  current file that grew between the two ranges of a load, whose new line is
  skipped for the classes of the first (`skipped`, `Logfile.cc:103`).
  `MemoryBounded` excepts what `_num_at_last_check` keeps from such a mixture of
  files (`mixed`).
- `MCPagination` has no sum beyond `IntSpan` and no `Offset` without `Limit` (a
  sorted query then takes -1 + offset for a limit).
- A sorted query of comments or downtimes prints its rows after their table was
  unlocked, when the core may have deleted them: `RowsAlive` only speaks of the
  time before. An ID beyond 32 bits is never removed (`TableDownComm.cc:169`).
- `StateIsTold` and `DurationsAddUp` except objects that vanished
  (`_may_no_longer_exist` at the end of a restart's initial states), and services
  of a host whose state came in an initial state, which is not passed on to them
  (`vague`). A row may end before it begins while an object is only believed to
  exist. `_abort_query` is that of the last object of a turn
  (`TableStateHistory.cc:762`), and `_notification_periods` outlives a query, so
  that `PeriodsAreCached` speaks of periods this query has read of.
- `FiltersMean` and `AnswerMeant` speak of requests without an error; a filter of
  a column that does not exist accepts every row or none, since the constructor
  of `EmptyFilter` leaves `_negate` unset. `AnswerMeant` excepts an Or, whose
  limits are those of the failing run above.
- The offset of a Localtime header is "*subtracted* from reference value by filter
  headers" (`Query.cc:786-787`), but never is: `convertRefValue`
  (`TimeColumnFilter.cc:20-30`, `TimeValColumnFilter.cc:20-31`) runs in the filter's
  constructor, when `_query` is still 0 ("should never happen") and
  `Query::createFilter` is yet to set it. The model has the header, and the filters as
  the code makes them (`HasQuery` is FALSE); `Meaning` subtracts the offset as the
  comment says. `ColumnFiltersMean`, `FiltersMean` and `AnswerMeant` except times that
  are compared while there is an offset (`Shifts`, `shifted`): they fail otherwise.
- An operator that a class of columns does not have is logged, and accepts every
  row or none. `ColumnFiltersMean` claims nothing of it. In `FiltersMean` such a
  filter means what it accepts (`Meaning`), so that its combinations are checked.
- A time with microseconds is read as two numbers (`TimeValColumnFilter.cc:52`):
  "1.5" is 1 s and 5 us. The model's references are such pairs already.
- `OnlyVisible` is claimed of rows, printed lists, and numbers and states of lists.
  A filter of a list column looks at all members whatever `AuthUser` says
  (`HostlistColumnFilter.cc:16-42`, `ServicelistColumnFilter.cc:40-54`), so that
  `members >= h2` tells by a row, or by a number of rows, whether a host that is not
  seen belongs to a group. The columns of an object's groups print the names of all of
  them (`HostgroupsColumn.cc:19-36`), and the tables by group ask only whether the host
  or the service may be seen.
- `StringsDecode` stops at U+FFFF: the second and the third byte of four are
  shifted by the same 6 bits (`Query.cc:1383`).
- An average of no rows is "nan", which JSON does not have: `WellFormed` counts it as
  a value like any other. The average of inverted integers is cut to
  an integer (`IntAggregator.cc:61`, `65`); `Exact` in `Answer` says so. The first
  value of a variable is not inverted by `PerfdataAggregator`, so no request of
  `MCAnswer` asks for it. The columns of hard service states of a host group are
  always 0 (`HostlistStateColumn.cc:46` has no case for them), which is what
  `StateColumns` has.
- The name a group of stats is printed under is computed again when it is printed
  (`Query.cc:1042`), so `RowsComplete` places rows by columns that do not change.

## 4. Fairness

- `InputBuffer`, `Connection`: weak fairness of the thread's own steps: it is
  scheduled, and `select` returns after its timeout. In `Connection` nothing is
  fair that somebody else has to do: `LockGot` (another query unlocks), `Woken` (an
  event, a table's mutex), `CommandRun` (the core). Clients owe nothing: they may stop
  sending, reading or closing.
- `ClientThreads`: weak fairness of the core's functions, and of a thread's
  unlocking of the log cache and locking it while it stays free. `SeeTermination` is
  strongly fair for each thread, but only enabled in one that serves: that is, a
  thread that time and again waits for nobody gets to the flag in the end. A thread
  that waits is not brought to the flag: no event, no `write()`, no command, no other
  query's mutex and no `pthread_join` of an uninitialized ID is fair.
- `WaitTriggers`: broadcasts end; clocks reach deadlines; strong fairness of a
  client's own steps, since the mutex it needs is free again and again and is
  held for a few instructions only. No event and no spurious wakeup has to come.
- `DownComm` (`TablesFairSpec`): strong fairness of the core's callback and of the
  clients' steps within a row, because a mutex that is released again and again
  is got in the end (pthreads do not promise more, and queues of waiters in
  practice give that), and because a row has finitely many columns.
- `LogCache`, `StateHistory`, `QueryFilters`, `Answer` and `Pagination` are loops
  over finite lists that nothing can hold up: their properties are about what is
  done, and no fairness is assumed.

## 5. Proofs

For every value of the constants that satisfies the modules' ASSUMEs:

- `InputBuffer_proofs`: `TypeOK`, `WindowIsStream`, `RoomToRead` (`read()` is never
  called with a length of 0), `LineTooLongIsTrue`, `NextLineHasOne`. The
  inductive invariant `IInv` adds to them what the code relies on between two
  steps: that `nread` is never less than the bytes in the buffer, that nothing
  between the read and the scan pointer is a line end, and where the pointers
  stand when the function has returned. Without the second, a shift could not be
  shown to keep the line, and line-too-long could not be shown true. Steps are
  proved in three groups: the client's, the scanning ones, the reading ones.
  `IdleConnectionEnds` has an invariant of its own, about the two clocks: how long
  the thread has waited for a request that has not begun, against the slices that
  `readData` still grants it. Its hypothesis is that `query_timeout` is not 0: with 0
  ("timeout disabled", `InputBuffer.cc:217`) `readData` never comes back to
  `readRequest` without data, where the idle timeout is looked at, and an idle
  connection is kept although `idle_timeout` is set.
  For the refinement of `FramingSpec` the mapping says how far the stream is
  understood (`nread - wp + r`) and what the current line is. Scanning a byte is
  `TakeByte`; a line's end, an empty line and the end of file are the abstract
  steps of those names; a read, a shift or a poll changes neither and stutters.
- `ClientThreads_proofs`: `TypeOK`, `NoThreadForgotten`, `NoThreadJoinedTwice`,
  `NoThreadAfterShutdown`. `IInv` adds that the connection being accepted is not
  yet in the array, that the joins done so far are exactly those before `i`, and
  that the array is empty where the core is unloaded or its loop has ended.
  The module also holds the proofs of `WaitTriggers`, where these threads sleep:
  `UnlimitedWaitEndsTrue`, `MutexHeldAroundWait`, `AsleepOnOwnTrigger`. `WaitIInv`
  adds that the deadline of a query without a timeout never passes and that its wait
  never returns `ETIMEDOUT`; so the only way out of the loop that is left is a
  condition found true under the mutex.
- `QueryFilters_proofs`: `TypeOK`, `MaskSound` and `TimesSound`, and what filters
  mean, for any table, columns and headers:
  - `IInv` says that what is on the stacks and in the making are `SoundFilters`,
    each sound by itself, and that an Or in the making is marked as one. The
    lemmas show that the filters of columns are sound by their operators (one case
    per operator, from the bounds of `TimeLimits` and `BitsKept`), and that And, Or
    and Negate make sound filters of sound ones. The case that fails for Or's time
    limits is the one that is excepted.
  - `ColumnFiltersMean` follows by kinds of columns: what an operator does, that
    its negation is the opposite, and that each kind uses it as `Said` says, which
    is written from what operators mean and not from the filters: times with
    microseconds as one number, sets of bits by their highest difference. The
    headers are those `HeadersAssumption` describes: the column has a kind,
    and the reference is one of that kind.
  - `FiltersMean` needs `MeantInv`: each stack agrees with what was said of it,
    except the one a combination is being made of, of which it says what the
    filters that are still to be moved will make of it (`AgreeSoon`).
  - `AnswerMeant` adds `AnswerInv`, and that a narrowing of limits to a fixed point
    (`Limits`) keeps every row that is asked for. `Limits` is a recursive
    function; that it exists, and that all its values are right, is proved by a
    smallest number of rounds for which it would not be so (`Least`).
- `Pagination_proofs`: `TypeOK` and `TotalCount` for all pages, and `AnswerIsPage`
  for those that an int can hold. In three layers:
  - The heap. `SiftUp` and `SiftDown` are recursive functions on positions; what
    they make of a heap with a hole (`RoseTo`, `SankFrom`) is shown of the position
    where they end and of each one they pass, and so of all, there being
    no first one where it fails. `GrownHeap`, `ExtractHeap` and `InsertHeap` then
    say what insert() and extract() do to the set of the rows: it gets a row more,
    and loses a largest one.
  - Places. No row outside the heap is smaller than one in it (`Smallest`); so the
    row on top of a heap of n rows has place n of the sorted result (`TopPlace`, by
    counting the lines of the heap, those of smaller and those of larger rows).
  - The run. `Collected`, `Extracted` and `Printing` count rows through the phases
    of a sorted query: what is in the heap and in `outbuf` ends where the page
    ends, and `numelems` is what the page lacks. `Plain` is the unsorted one.
  The hypothesis `PagesMeant` names what the code's arithmetic takes for granted: that
  _limit + _offset is below 2^31, and no Offset without a Limit (section 3).

- `LogCache_proofs`: `TypeOK`, `CounterExact`, `MemoryBounded` and `AnswerIsLog`, for
  any number of files, lines and queries, any limits and any cycle.
  - The counter. `Size` is the cardinality of a set of pairs, so that what is taken
    from some files and what is left add up to what there was (`SizeLess`). `Phases`
    follows `HandleNewMessage`: each phase goes on until the limit is reached or it
    is through with its files (`ReachedEnough`), and after all three the limit is
    reached or only the file being read has messages (`Handled`).
  - The bound. `CheckedInTime` says that a check left at most the limit or the lines of
    one file, and that a cycle has not passed since. That the messages of one logfile
    are no more than the lines of a file needs `EntriesAreLines`, which is inductive
    only with `PositionsAreLines`: a load's line number is its position in the file
    that is open, and the current log is read on where it was left. Beyond
    `MaxLines` neither is a position; nothing is read there. The core's steps keep
    these because a file only gets longer, under its name or another (`FilesGrow`).
    A query that runs into a rotation reads two files into one logfile (`mixed`),
    which is where the bound is lost.
  - The answer. `AInv` is a second invariant on top of that of the bound. Files and lines
    are in order (`LogInOrder`, `FilesAreIndexed`), and a load is neither behind its line
    number nor beyond the end of the file (`PositionsInFile`). Whatever freeing takes away, a class that a
    logfile claims to have read is in memory up to the line that was reached
    (`ClassesAreRead`, `MissingIsRead`): `freeMessages` keeps what the query asks for,
    `flush` forgets the classes too, and the file being read is never flushed. So
    a visit ends with all the query may take from the file (`ReadyToDeliver`),
    and on its way back the query has what the newer files hold for it
    (`NewerAreDone`). That the entries which fit into the limit are the
    newest, and as many as fit, is counted along their order (`FirstAreCounted`). A
    query that stops at a line or a file that is too old misses nothing, since all
    that is left is older still (`OlderAreTooEarly`).

- `StateHistory_proofs`: `TypeOK`, `HostKnowsServices`, `PeriodsAreCached`,
  `DurationsAddUp`, `StateIsTold` and the action property `ChangesReported`, for
  any hosts, services, timeperiods and log, any range and any order of the core's
  steps and the query's. In three layers:
  - One object. Whatever an entry does to it, the rows that are reported on the way
    are a trail (`Trail`): each ends where the next begins, the first shows what was,
    and their durations add up to how far `_from` has moved. `UpdateIs` shows it of
    every type of entry, beside what becomes of each field (`Updated`). That a list's
    durations add up needs the fold of the library to be a sum (`TotalMore`); it is
    shown by a smallest set for which it would not be.
  - One turn. The entry finds the objects as `Based` says (settled, and with the one
    it concerns among them) and leaves them as `Reported` says. `StepsAre` makes of
    the actions five kinds of step, along which the invariants are proved.
  - The invariants. `TypeOK` needs `Listed`, since a host's services are updated
    without being looked up, and is inductive with it (`Types`). `PeriodsKept` says
    that the cache and what is known of the periods differ by what is pending;
    `TotalsKept` and `TimesKept` place `_from` and the last trace of each object
    in the range, and `VanishedKept` says that only what is in doubt was reset.
    `StateIsTold` is not inductive: a host in doubt hands its state to services
    that are not. It needs `ToldKept`, by which `hostDown` and `inHostDowntime`
    of a host are as told even when its own state is not, by which an update
    without a change (which is not handed on) leaves the services right, and by
    which nothing was told of objects that are not tracked yet.

- `Connection_proofs`: `ReceivedAsAnswered`, `AnsweredCompletely`,
  `LinesOfTheRequest`. For the response, `IInv` counts what `writeData` has left
  to write of the header and the body, and says that what was received and what
  is left make up the promised answers; it holds until a signal cuts a write
  short, which is where the code drops bytes. For the lines, `LInv` says that the
  lines taken for the request, the blank line that ended it where it was taken, and
  the unread rest are the stream, in order. It needs the requests to be `tidy`, as the
  property does.
  The module also holds the proofs of `DownComm`, whose tables these threads walk:
  `TablesTypeOK`, `LockedAsOften`, `RowsAlive`. `TablesInv` adds which table
  a row, a column or an event belongs to; with it, a client at a row holds the
  mutex the core needs to delete that row. `MirrorsCore` is proved from a second
  invariant (while a callback is under way its table differs from the core's list
  in one entry) and the assumption that every ID is below `UnsignedSpan`, without
  which it is false.

- `Answer_proofs`: `OnlyVisible` and `ColumnsAgree`, for any hosts, services,
  groups and contacts, any level of authorization, any columns, filters, stats, sorting and page, and
  however checks change the states while the query runs. In five layers:
  - Recursion. The model's loops over data (`Chosen` for the lists of what is seen,
    the headers, `SiftUp` and `SiftDown`, the folds of the library) are recursive
    functions. `RecursionExists` solves one whose argument goes down in rank, and
    `RankInduction` follows it; both come from there being a least number in
    every set of them. Each function needs its ranks and one lemma.
  - Lists. What a walk over a list sees is each visible member once
    (`SeenServicesAre`, `SeenHostsAre`); so the aggregates of a list count no more
    than its visible members (`ServiceAggregatesFit`, `HostAggregatesFit`).
  - Headers. A query's columns are columns of its table, whatever its lines are
    and whichever of them were refused (`QueryFits`).
  - The run. `VisibleInv` says that rows are rows of the table in whatever holds
    them (the walk, the heap, `outbuf`), that what passed the filters is visible, that
    each aggregate the query keeps counts no more than is visible
    (`AggregatesFit`, which has to hold at any later time of aggregates made
    before the states changed), and that the values printed so far tell of
    visible objects only. There is one lemma for each action.
  - The columns of one row. The aggregates of a list add up when they are made
    (`ServiceAggregatesSum`, `HostAggregatesSum`: the seen members are divided by
    their states), whichever states those were; a total over the hosts of a group
    adds up because a sum of sums does not depend on the order (`SumOfSums`). What is
    known of a list is never replaced (`LearntIs`). So `AgreeInv` extends
    `VisibleInv`: all that is known fits together (`SumsKnown`), and a row passed
    its filters, and shows its columns, by what is known now: while it is
    filtered (`FilteredPass`), in the heap and in `outbuf` (`SortedPass`), where
    it may wait while checks change the states, while it is printed
    (`PrintedAgree`) and once it is shown (`ShownAgree`).

  Assumed are `AnswerAssumption` (a check gives its object a state of its kind),
  `ObjectsAssumption` (a list of the core has no object twice, a host group is no
  service group, a host no service) and `RequestsAssumption` (a header names columns
  of its table, each with the fields a column has, and the index is one
  `findIndexFilter` can find; it constrains no filter, no user and no order of
  headers).

Only model-checked: liveness, which is beyond the prover; `RowsComplete`,
`StatsExact`, `WellFormed` and `StringsDecode` of `Answer`; and `LinesUnderstood` of `StateHistory`, which evaluates single lines. `StatsExact` and
`StringsDecode` say what a fold computes: sums and the products of fractions, or
bytes from code points. `WellFormed` parses the answer with a recursive
definition of its own, so that a proof would have to follow two recursions
against each other. The prover has no induction over them; the way around it
(a smallest counterexample) costs hundreds of lines for each function, and was
spent where an error would hide longest.

## 6. Not modelled

Logging, the format of numbers, the names of columns, the parsing of names and
numbers; memory failures; `EINTR` of `select`; the growth of `OutputBuffer`;
opening and binding sockets; the module's arguments. The core's objects are
values (a condition, a key, a membership), and so are regular expressions, case
and the order of strings in `ColumnFilters`. `TableStatus`, `TableContacts`,
`TableCommands`, `TableTimeperiods`, `TableColumns` and most columns register
fields of the core and have no control of their own. `unixcat` copies bytes, and
the language bindings are programs of the other side.

Undefined behaviour is modelled where it is reached: a failed `pthread_create`
leaves an ID that is no thread (`no_thread`), a freed entry is one the table does
not hold, an uninitialised `_negate` is either value. In `LogCache` a line is a
time, a class and a number; the index is made in one step; files can be opened,
and the current one is never empty; the core does not begin two logs in one
second, and prints of a sorted query that outlive a freed message are not
modelled. A query of the log that waits does so under the cache's lock
(`Store.cc:173`): `ClientThreads` and `Connection` have this lock, `LogCache` the
queries that have got it.
`StateHistory` reads the log while it comes into being, which lets every log of
the bound happen. The entry at which the loop starts is stepped over by
`getNextLogentry` (`TableStateHistory.cc:143`); the model's log begins behind it.
In `Answer` a list is walked in one step, and the custom variables, performance
data and downtimes of an object do not change. Doubles are fractions; a standard
deviation is its square.
