# KCN: verification notes

KCN finds *locators* (names of hosts, URIs) for keywords.  `key2loc` is asked
for them, `kcndbd` keeps records of measured values with a locator each, and
`kcndbctl` adds records.  This directory models the parts of KCN that keep state
or talk to each other, checks the models with TLC and proves the central
invariants with TLAPS.

Contents: inventory, modules, state and actions against the code, runs, what the
violations show, fairness, proofs, limits, plan.

## 1. Inventory

| component | state | operations | hard behaviour | what makes it correct |
|---|---|---|---|---|
| record table (`kcndbd/kcndb_db.c`) | two files, their sizes in memory, a rwlock, per thread two descriptors and buffers | open, add, search | threads interleave under one lock; kill between two writes; failed or partial writes; stale buffers and sizes | the log only grows, in order; every record resolves to its locator; searches are exact; nobody waits for ever |
| file access (`kcndbd/kcndb_file.c`) | descriptor, 4096-byte buffer | ensure, seek, write, append | a record straddles the end of the buffer; write in parts | reads what is in the file, once, in order |
| buffers (`lib/kcn_buf.c`) | start, cursor, end of a window | reset, trim, realign, get, put, read, write, queue | the assertions about the bounds | the assertions hold |
| inequalities (`lib/kcn_eq.c`) | none | match time and value | boundaries | what the documentation says |
| messages (`lib/kcn_msg.c`) | none | encode, decode | partial messages, eight-bit fields | decoding undoes encoding, wherever the bytes are cut |
| connections (`lib/kcn_net.c`) | state, two events, input buffer, output queue | new, read, write, timeout, disconnect | callbacks in any order, timeouts, partial writes, errors | no output without its event, no event on a closed descriptor |
| server threads (`kcndbd/kcndb_server.c`) | listening socket, one session each | accept, receive, process, respond | one client at a time, searches that wait for the lock | every request is answered once, the thread comes back |
| clients (`lib/kcn_client.c`, `kcndbctl/`) | result, list of locators, lines to send | search, add | errno left from earlier calls, connections that end early | what a successful search returns is a whole answer |
| record files (`kcndbctl/kcndbctl_file.c`) | buffer of a file, what is left of it, the record that is parsed | fill, parse, send | reads cut records anywhere; the file grows; the buffer is changed while it is parsed | what is sent is what the file says, all of it or up to an error |
| database selection (`lib/kcn.c`, `lib/kcn_db.c`, `lib/kcn_netstat.c`) | registered databases | register, match, compile, search | words that contain other words; memory that is not set | the query says what the keywords say |
| google search (`lib/kcn_google.c`, `kcn_http.c`, `kcn_uri.c`, `kcn_httpbuf.c`) | page, offset, a URI that is cut and grown | search page by page | lists that end at or next to a page or the maximum; pages that fail | every page once, the first locators in order, not more than asked for |
| locator lists (`lib/kcn_info.c`) | locators, their maximum | add, free | the assertion about room; repeated searches | never more than the maximum, nothing of a search before |
| strings, sockets, addresses, logging, programs, build files | | | | |

A database is selected once for a search; when the search in it fails no other is
tried.

Interactions: a client connects to a thread (`KcnNet`), the thread decodes a
message (`KcnMsg` over `KcnBuf`) and calls the table (`kcndb_db_search` with a
callback that queues a response per record, or `kcndb_db_record_add`).  Threads
share nothing but the files, the sizes and the lock of a table.  `PROJECT.json`
lists the hazards of this code line by line, each with the properties about it.

## 2. Modules

| module | what it models | |
|---|---|---|
| `KcnBuf` | `kcn_buf.c`: a buffer as `[sp, cp, data]` | operators |
| `KcnEq` | `kcn_eq_time_match`, the comparison of `kcndb_db_search`, and `Selection`: what a list of the matches of a log is | operators |
| `KcnMsg` | the messages, two cells each | operators |
| `KcndbTable` | what a table promises: a log, calls that take effect at once | abstract specification |
| `KcndbDb` | `kcndb_db.c` over `kcndb_file.c`, all threads, one table | implements `KcndbTable` |
| `KcnNet` | `kcn_net.c`, with sockets and libevent as its environment | actions |
| `KcnInfo` | `kcn_info.c`, and `Outcome`: how a search over the network may end | operators |
| `KcnLookup` | what a search over the network promises: one answer, its locators in order, one end | abstract specification |
| `KcnService` | `kcndb_server.c`, `kcn_client.c`, `kcndbctl` over `KcnNet` | implements `KcnLookup` |
| `KcndbctlFile` | `kcndbctl_file.c`: `readfile` over a buffer and a file | specification |
| `KcnUri` | `kcn_uri.c`: a string in memory that is cut and grown | operators |
| `KcnGoogle` | `kcn_google.c`: URIs of pages, what is taken of a page; the service | operators |
| `KcnNetstat` | `kcn_netstat.c` and the keywords of `kcn.c`: the query | operators |
| `KcnDb` | `kcn_db.c`: registration and selection | operators |
| `Key2loc` | `key2loc/main.c` and `kcn_searchv` over the last five | specification |
| `MCKcndbDb`, `MCKcnService`, `MCKcndbctlFile`, `MCKey2loc` | instances for TLC | |
| `KcnBufProofs` | lemmas about the buffer | proofs |
| `KcndbDbProofs`, `KcndbDbSearchProofs`, `KcndbDbDataProofs` | the lock and the types of the table; its searches; its files and its refinement | proofs |
| `KcnServiceProofs`, `KcnServiceDataProofs` | the events and ends of the connections; what they carry, and the refinement | proofs |
| `KcndbctlFileProofs` | what `kcndbctl -f` sends of a file, and when it stops | proofs |
| `Key2locProofs` | what `key2loc` asks for and prints, and that it comes to an end | proofs |

The network part is composed by contracts: `KcndbTable` is what `KcndbDb` implements
and what `Answers` of `KcnService` assumes of a search; `KcnLookup` is what
`KcnService` implements, and its `Outcome` is what `NetSearch` of `Key2loc` assumes
of `kcn_client_search`.

Definitions marked *Mutant* in the modules are faulty versions of the one that
follows.  `PROJECT.json` pairs each with the property that finds it; nothing
else uses them.

### 2.1 KcndbDb

*Units.*  The record file is a sequence of 64-bit words, three to a record, and
`BUFSIZ` is the size of the buffer in words; the code's 512 words are not a
multiple of three, and neither is the 8 of most runs.  The locator file is a
sequence of cells: one per bucket, then two per entry (length and characters,
link).  Locators are model values, so `kcn_str_hash` is the constant `Hash`.

| variable | code |
|---|---|
| `table`, `loc` | the two files |
| `damaged` | history, no guard depends on it: a link may have been written over an entry, or a record may refer to a place where there is none |
| `kdb_tablesize`, `kdb_locsize`, `writer`, `readers` | `struct kcndb_db_base` |
| `kb[t]`, `off[t]` | buffer and file offset of thread `t`'s `kdt_table` |
| `pc[t]`, `req[t]`, `idx[t]`, `oidx[t]`, `i[t]`, `out[t]`, `ret[t]` | where the thread is, its arguments and local variables, what it gave to the callback, its result |
| `failed` | the assertion that ended the process |

Actions: `TableOpen`, `OpenLock`, `OpenInit` (`kcndb_db_table_open`); `AddCall`,
`AddLock`, `RecordReadLast`, `LocBucket`, `LocWalk`, `LocAppend`, `LocLink`,
`AddRecord` (`kcndb_db_record_add`); `SearchCall`, `SearchLock`, `SearchScan`,
`SearchEnd` (`kcndb_db_search`); `Return`; `Kill`, `Restart`.  A step ends where
the code makes a system call that another thread or a restart can see the effect
of; what a thread does to its own buffer between two of them is one step.
`kcndb_file_ensure` loops; the second read fills an aligned buffer, so three
turns are enough for every length it is called with, and they are unrolled.

*The misplaced link.*  `kcndb_db_loc_add` computes where to write the link to a
new entry from `idx`, which is 0 by then.  For the first entry of a bucket that
is right.  Behind another entry it is `2 + loclen` bytes into the file, for the
length of the last entry's locator.  The constant `Slot` says for each locator which
bucket that place is in, or that it is behind the buckets (`HASHSIZ`: locators of more
than 2037 characters, of the 4075 the server takes), and whether a bucket starts
there.  `Linked` is the set of files the write may give:

* a whole bucket is replaced;
* a link over the end of one bucket and the start of the next leaves the high bytes
  of the first and the low bytes of the second, so each of the two may be 0, or an
  offset that means nothing (`Garbage`);
* behind the buckets its eight bytes touch three cells at most, entries or links,
  any of which may be lost (`Overwritten`).  This sets `damaged`.

A walk that follows such an offset to where no entry starts (`Lost`) takes any two
bytes for a length.  `LocMisread` has every outcome: the seek or the file ends it
(`EINVAL`, `ESHUTDOWN`); the length is more than the buffer holds, which the
assertion of `kcn_buf.c:403` finds ("read"), or ends within the link ("get"); the bytes
spell the locator, and the record will refer to them (`damaged`); or the bytes behind
it are taken for the next link, to an entry, to another such place, possibly one where
the walk has been, or to the end, and then the link is written anywhere.  A
lookup of an offset where no locator is may likewise find the end of the file or
the assertion, or answer with any bytes.

*Faults.*  `Faults` says what may fail: "open", "read", "write" (after any part
of the data, in words and cells), "response" (the callback of a search), "kill".
An assertion that fails sets `failed`; only a restart follows.  The locator
file's own buffer is emptied before each use, so it is not a variable.

### 2.2 KcnNet and KcnService

A peer is a client process or a server thread; `kn_state`, `evread`, `evwrite`,
`ibuf` and `obufq` are the fields of its `struct kcn_net`.  `sock`, `queue`,
`wire`, `closed` and `reset` are the kernel's.  A message is two cells, header
and body, so that a read or a write may end anywhere before, between or behind
them; `BUFSIZ` and `SNDBUF` are in cells.

| code | actions |
|---|---|
| `kcn_net_read_cb`, `kcn_buf_read` | `ReadCb`, `ReadTimeout`; its end is `ReadCbOut` |
| `kcn_net_write_cb` | `WriteCb`, `WriteTimeout`, and `Write` for each turn of its loop |
| `kcn_client_search`, `kcn_client_read` | `ClientStart`, `ClientRecv` (a message each), `ClientEnd` |
| `kcndbctl_file.c`, `kcndbctl_msg.c` | `ClientStart`, `FileRead`, `ClientEnd` |
| `exit` and `err` of the programs, a signal | `ClientExit` |
| `kcndb_server_main`, `kcndb_server_session` | `Accept`, `SessionEnd` |
| `kcndb_server_recv` and what it calls | `Search`, `AddProcess`, `RecvEnd` |

libevent is external: an event is raised once and must be added again, EV_TIMEOUT
may be raised whenever the event is pending ("timeout"), and in PENDING before
the connection is there ("early": libevent's own mistake, which the macros of
`kcn_net.c:20-21` are about, and a connection that takes more than five seconds).
An end that is closed with data unread sends a reset, which may overtake what is
in flight; a write to a closed end fails or is lost.  The search behind a query
gives the first `min(maxcount, matches)` locators and success, ESRCH for none, or
("search") EIO after some of them or EAGAIN; that is what `KcndbDb` is shown to
do.  A search may also never return, as `table_stuck` shows.  A record may have been
added with an empty locator ("nameless"): `kcn_client_read` takes the response
with it for the last one, and for success.  `Shown` is what a client can tell of
such an answer, and what `AnswerFaithful` holds it to.  `errno` of a client
starts as EINPROGRESS, which is what `kcn_socket_connect` expects of `connect`.

`Lookup` is the refinement mapping to `KcnLookup`: `answered` is the answer of the
database, `got` and `result` are the client's.  Everything else - messages, buffers,
queues, sockets, events - is hidden by it.

### 2.3 KcndbctlFile

A cell is a byte: a digit, the separator, `Nul`, a letter, or a byte that cannot be
printed.  `kb`, `kf_size`, `kma` are the fields of the code; `off` is the offset of
the descriptor, `pc` the field `readfile` is about to get.  `kcn_buf_read` and the
parsing of each field are steps, so the file may grow, and the connection be lost,
between two callbacks.  The byte behind a number is overwritten with `Nul`
(`get64`), and a record that is not complete is parsed again from its start: the
model keeps both, because a record whose first part was parsed before can then no
longer be parsed.  It can only happen to records longer than `KCN_MSG_MAXSIZ`,
which is what `RefusedForCause` says.  `kf_size` is a `size_t` and passes below
zero when the file grows.  `kcn_strtoull` is what the code makes of `strtoll(3)`: a
sign is taken, a number beyond a `long long` becomes its limit, and a negative one
is converted to 64 unsigned bits.

### 2.4 Key2loc

`Main` is `main` up to `doit`; `Search` is a turn of the loop of `doit` up to the
first message: the selection, the compilation of the query or the URI; `GooglePage`
is a turn of the loop of `kcn_google_search`; `NetSearch` is `kcn_client_search`.
The URI is memory with a terminator, and `kcn_google_search` cuts and grows it for
each page; a cell of it is a character or a word of characters that need no encoding.
A number is one cell (`Digits`): what matters is that different ones differ
and that none needs to be encoded.  `Char` are the characters, `Hex` the two digits of
those that have to be encoded, and `NLOCMAX` bounds the locators one may ask for.
What is asked for is what C takes the memory for (`CString`).
An empty address of `-i` is none to who reads it (`Userip`).
The service is external: `Page` gives the
locators from "start" on, at most "rsz" of them; the assertion of `kcn_google.c:88`
relies on it to honour "rsz".  Fetching a page and parsing its JSON are one step
that gives the page or an error after some of its entries.

A third word is needed for a query; with more than three the interval is never set,
so `Intervals` takes any.

## 3. Runs

Passing runs (two workers, each within three minutes):

| run | instance | properties |
|---|---|---|
| `table` | 2 threads, 2 records to choose from, 3 stored, 2 queries, 2 buckets, buffer 8, kills; stops at states in which the table is damaged | `TypeOK` `LockSafe` `SizesAgree` `RecordsResolve` `TimeSorted` `SearchExact` `LogGrows` `ImplementsTable` |
| `table_faults` | 1 thread, 2 records to choose from, 2 stored, 1 query, 2 buckets, buffer 6, one locator whose link falls behind the buckets; open, read, write and response fail, kills, fair | `TypeOK` `SearchExact` `SectionEnds` |
| `service` | a search and a file of two records, 1 thread, backlog 1, buffer 3, 3 cells in flight, every fault but "early" and "nameless" | `TypeOK` `EventsAreLive` `OutputHasEvent` `ReadHasRoom` `AnswerFaithful` `AddsInOrder` `ImplementsLookup` |
| `service_live` | a search and one record, buffer 4, 1 cell in flight, every fault, fair | `AnswerFaithful` `ClientFinishes` `ThreadFreed` |
| `file` | every text of at most 5 bytes of three kinds, one or two lines of nine kinds, with signs and numbers beyond the limits among them, with and without the last newline, up to three good lines; buffer 12, messages of 7; reads fail, the file grows by a byte or by a record, the connection is lost, fair | `TypeOK` `SentExact` `NothingLeft` `RefusedForCause` `SizeIsUnparsed` `FileEnds` |
| `key2loc` | every combination of database, 0 to 5 locators asked for, 0 to 2 repetitions, country, address, 7 lists of keywords; Webs of 0, 1, 2, 3 and 5 locators; pages of 1 or 2; pages and searches fail | `TypeOK` `LocatorsExact` `RequestsExact` `OnlyBadUseAborts` `KeywordsExact` `EndsNearer` |

Why the bounds are enough.  Two threads are what the lock, the shared sizes and
the order of the log are about; a third adds only another waiter.  Two locators
share a bucket, one whose link falls across two buckets and one whose link falls
on a bucket, so that a chain, the loss of its bucket, and walks that follow what is
left of one into entries, links and other buckets all
happen with three records.  The constraint `Undamaged` of `table` has TLC check the
states that damage a table and go no further: there the properties promise nothing.
What the code does behind them is explored in `table_faults`, whose
properties hold of a damaged table too.  The third record straddles the end of a buffer of 8
words, as the 171st does of the code's 512, so a scan realigns the buffer, fills it
and reads the record from two parts; 8 and 512 leave the same two words over.  In
`table_faults` a buffer of 6 is full after two records, and one that is not
emptied is realigned in other places.  Buffers of 3 and 4 cells hold one or two
messages and force a realignment, 1 and 3 cells in flight force partial writes and
EAGAIN.  `MaxRecords`, `MaxLocCells` and `MaxReaders` bound what the code does not:
`AddCall` stops at the first two, and the third is the limit of the lock itself.

In `file` three lines of 5, 6 and 8 bytes, and the record of 6 by which the file may
grow, are more than two buffers of 12, which 5 and 8 do not divide, so a record straddles
the end of the buffer in many places; the line of 8 is longer than a message of 7, two
numbers are beyond the limits of a `long long`, one on each side, and `SIZE = 64` is only
reached from below zero.  In `key2loc` the size of a page is at
the number of locators (1, 2), below it (3, 4, 5), and the Web has fewer locators
than that, exactly a page, exactly two pages, and more than are asked for; a second
search follows every kind of first one.  `UINT8 = 4` lets 4 and 5 be
truncated.  A country of three characters, the first two of which are kept, has one that
is encoded and one with a meaning in a URI; the lists of keywords have
those, and blanks of both kinds within them, before them and alone.

`table_faults` checks less than `table`: once a write has failed the sizes in
memory and the files disagree, the code does not notice, and what it promises
about the log is gone until the process is restarted.  Deadlock is checked in
`table`, where a kill is always possible, and in `key2loc`, where `Ended` is the
one step of a program that has ended; the other runs may stop: a thread that
keeps the lock for reading and asks for it for writing waits for ever, a thread
that could not open the table has ended, and the service and `kcndbctl` end.

`EndsNearer` is a variant: every step but stuttering lowers `Left`, which is never
negative.  With the absence of deadlock it says that `key2loc` ends, and needs no
fairness; what it rests on is that each search returns, which `ClientFinishes`
shows of one over the network.  Of a page nothing in the code says so:
`kcn_http_response_get` sets no timeout, and a server that goes silent keeps
`key2loc` waiting.

## 4. Where code and documents disagree

Each is a run that expects a violation, with the trace TLC prints.

* `table_overflow`: `kcn_buf.c:221` asserts that what is appended fits in the
  buffer.  The last record is read through a buffer that is not emptied, so
  failing searches and refused adds move the cursor until a record does not fit.
* `table_torn`: `kcn_buf.c:261` asserts that there is data to get.  A table of
  buckets that was written in part is taken as complete (`kcndb_db.c:260`), and
  the bucket of the next add is not in the file.
* `table_stuck`: `kcndb_server.c:172` wants a response to every query.  A search
  that succeeds returns with the lock (`kcndb_db.c:507`); an add waits for ever,
  and so do searches behind it if the lock prefers writers.
* `service_early`: `kcn_net.c:291` claims to fix a wrong timeout; the write event
  is not added again and the query is never sent.
* `service_count`: `key2loc/main.c:127` offers any maximum; it is kept in eight
  bits, so 256 asks for none.
* `file_empty`: `kcn_buf.c:403` asserts room for a read; the buffer of an empty
  file has none (`kcndbctl_file.c:49`).

Observed while modelling, with no run of their own:

* `README.md:69` of the repository says "100 msec or less" of `rtt lt 100`; the
  code leaves out 100 (`KcnEq`).
* A record whose write failed stays in the table's buffer and is taken for the
  last record by the next add, or written together with the next one
  (`kcndb_db.c:406`); after a search that failed with records in the buffer, an
  older record may pass the check of the order (`kcndb_db.c:374`).
* A link that `kcndb_db_loc_add` misplaces (section 2.1) damages a table without a
  trace.  Over buckets it loses entries for reuse, and the next add of a locator that
  falls into such a bucket may fail, end the server in the assertion of
  `kcn_buf.c:403`, or walk round for ever with the lock held; every record still
  resolves and is found.  Behind a locator of more than 2037 characters, or behind a
  walk that was lost, it is written over an entry: then a record shows another locator or
  none, and a search for it may fail in the middle, with records left in its buffer,
  which the next add takes for the last one and writes again.
* `kcndbctl_main.c:115` allows any unsigned 64-bit value, but `kcn_str.c:20` reads a
  signed one: `-5` is sent as 2^64-5 and `+5` as 5, one beyond `LLONG_MAX` as
  `LLONG_MAX`, one below `LLONG_MIN` as 2^63.
* When a file grows while `kcndbctl -f` reads it, `kf_size` passes below zero and
  the test for the end (`kcndbctl_file.c:137`) may never come true: records of less than
  a message together, old ones among them, stay unsent, and the program succeeds.
* `kcndbctl_main.c:116` wants an FQDN or a
  URI; a line that ends behind its value is sent with no locator, and a response
  with it ends the list of who searches for it (`kcn_client.c:92`).
* A client whose connection is refused or ends before the first response reports
  success with no locator (`kcn_client.c:152`); `Outcome` says so.
* Keywords that contain "le", "as" and the like select the network database,
  which then refuses them; an inequality written with signs, such as `rtt = 3`,
  goes to Google (`kcn_netstat.c:57`).  Fewer than three words fail with errno 0.
* When all pages are full and their locators are fewer than the maximum, the next
  page is asked for and found empty; that is no error as long as there were some.

## 5. Fairness

`FairSpec` of `KcndbDb` is weak fairness of what a thread does without waiting for
another (`Runs`): threads are scheduled.  It does not say that a call must fail:
`Succeeds` leaves the steps that end with EIO or ENOMEM to chance.  It says nothing
about new requests, nor about the lock.  `FairLockSpec`, used for the one
counterexample about waiting, adds strong fairness of taking the lock, the most a
scheduler of a lock can be asked for, so the waiting it shows is the code's doing.

`FairSpec` of `KcndbctlFile` is strong fairness of `readfile`: the event loop runs,
and a read that fails again and again does not fail for ever, since the code tries
it again without a limit.  `Key2loc` assumes no fairness.

`FairSpec` of `KcnService` is weak fairness of every client, thread and of the
kernel's answer to a connect: processes run and timers expire, since every event
is added with a timeout of five seconds (`kcn_net.c:51`).  Searches are not
included, because one may wait for the lock for ever; `ThreadFreed`, the one
property that needs them to return, says so in its hypothesis.

## 6. Proofs

`KcnBufProofs` proves that each operation of the buffer keeps
`sp <= cp <= ep <= size` (`GoodBufs`): `ResetGood`, `TrimGood`, `ForwardGood`,
`GetGood`, `PutGood`, `ReadIntoGood`, `ReadGood`.

`KcndbDbProofs` proves for every set of threads, requests and locators, every
size of the buffer, of the table of buckets and every choice of faults:

* `LockIsSafe == Spec => []LockSafe`.  `LockSafe` is inductive with the types of
  `writer`, `readers` and `pc` (`LockInv`); one step per action, most of which
  fall under a lemma about a thread that stays within a section, takes the lock
  or gives it back.
* `TypesAreKept == Spec => []TypeOK`.  `TypeOK` alone is not inductive: an action
  of an add uses `req[t]` as a record to add, and one of a search as a query.
  `CallOK` says so of the program counters, and `TypeInv` is the conjunction.
  The buffers stay good because the three turns of `kcndb_file_ensure` do, by the
  lemmas about `KcnBuf`, and because `AddRecord` checks the assertion of
  `kcn_buf_append` first: no other assertion about the window can fail, but for those
  of the locator file's buffer, which `LocBucket`, `LocMisread` and `SearchScan` name.

They rest on the named assumptions `ThreadAssumption`, `SizeAssumption`,
`LocAssumption`, `ReqAssumption` and `EnvAssumption` of `KcndbDb`, which TLC
evaluates in every run of it.

`KcnServiceProofs` proves for every set of clients and threads, all jobs, sizes of
buffers and faults, from `NetAssumption`:

* `ConnectionsAreLive == Spec => []EventsAreLive`.  The property speaks of the
  descriptor of a peer, `End(p)`, which changes with the client a thread serves.
  That closing one peer's descriptor leaves the others' alone needs that no two
  peers in use share an end: `ServedOnce`, which says that a connection is in the
  queue once, or served by one thread, or neither, and that its end at the server
  is open until then.  `LiveInv` is the conjunction with the types of the
  variables concerned.  The actions fall under three lemmas: a peer goes on with
  other events (`StaysOpen`), writes (`Writes`) or is disconnected
  (`Disconnects`); `ClientStarts`, `Accepts` and `Connects` are on their own.
* `ConnectionsServedOnce == Spec => []ServedOnce`.

`KcndbDbSearchProofs` proves, with any faults and under the same assumptions,
`SearchIsExact == Spec => []SearchExact`.  What a search gave is stated without
recursion: `Selection(r, q, list)` says that a list is a walk, in order and
without a gap, over the entries of `r` that match `q`.  `SearchInv` adds to it
where in the file the thread's descriptor is and that what its buffer holds are
the words of the file before it, cut anywhere (`Window`); its lemmas show that a
turn of `kcndb_file_ensure` keeps that through a realignment and a read of any
length, and that the writers are locked out while the scan depends on it.

`KcndbDbDataProofs` proves what the files of a table hold, for any threads,
locators, `Hash`, `Slot`, requests and sizes, with kills and failures to open at any
step:

* `SizesStayRight`, `RecordsAlwaysResolve`, `RecordsStaySorted`: `SizesAgree`,
  `RecordsResolve` and `TimeSorted` are invariants;
* `LogOnlyGrows`: every step satisfies `LogGrows`;
* `TableIsImplemented == Spec => ImplementsTable`: the log of the files and the
  answers of the threads are a behaviour of `KcndbTable`.  `AddRecord` is the
  abstract add, `SearchEnd` the abstract search, the steps that return an error are
  abstract failures, and everything else, a kill included, is a stutter.

They need the hypothesis `OnlyKills`: reads, writes and responses do not fail.
Without it they are false, which `table_torn` shows of a write, and section 4
says of the rest.  And they say nothing of a table once it is damaged: the three
invariants and `LogGrows` have `damaged` in their hypotheses, and in `KcndbTable` an add
may `Damage` the table, after which anything may follow (`Ruined`).

The inductive invariant `DataInv` says of the files that records and buckets are whole, that no locator lies among the buckets, that every
record resolves and that times are sorted (`FilesOK`); of a thread that adds, at
each of its program counters, how far the files are from the sizes in memory
and which entry the record it is about to write will refer to; and of a thread outside of
the lock that its buffer is empty, which is what `OnlyKills` is for.  The
invariant of a table is `TableInv == TypeInv /\ LockInv /\ SearchInv /\ (damaged \/ DataInv)`:
the types, the lock and the searches are right even in a damaged table.  What the
links do to the buckets is part of the proof and not of its assumptions: `LinkKeepsLocs`
shows for every member of `Linked` that a link over buckets leaves each locator where
it is, and `LocWalkOK` that a walk, wherever such buckets lead it, fails, aborts, sets
`damaged`, or goes on.  `damaged` never becomes FALSE again (`DamageStays`).  The
refinement has one lemma for steps between sound states (`SoundImplements`), and one for
steps into or within damage (`DamageImplements`): `StepImplements` joins them.

`KcnServiceDataProofs` proves the remaining invariants of `KcnService`, for all
clients, threads, jobs, sizes and (but for one) faults, from `NetAssumption`,
`MsgAssumption` and `JobAssumption`.  The last one says that `Errno` has the errors
the code gives and none of the values that are not errors:

* `ServiceTypes` (`TypeOK`), `ReadsHaveRoom` (`ReadHasRoom`), `AddsStayInOrder`
  (`AddsInOrder`), `AnswersAreFaithful` (`AnswerFaithful`);
* `OutputIsWritten` (`OutputHasEvent`) under the hypothesis that "early" is not
  among the faults, because the code loses an event then (`service_early`);
* `LookupIsImplemented == Spec => ImplementsLookup`.

The argument follows the bytes.  For each direction of a connection, `m` are the
messages that will be put into it: those of the client's job, and those that
answer what the server took.  `Flows` says that behind the messages that were
taken come the cells of the receiver's buffer, then those in flight, and that what
was made and has not left is the sender's queue; `Carries` compares them with `m`
cell by cell, so that it does not matter where they are cut.  `Requests` and
`Answering` say this of the two directions while both ends are up, or that one of
them is not and nothing more will be taken; `Processed` says that what the server
has stored and answered is what it took, and `Given` that the client's locators
and result are those of the responses it took.  `DataInv` is their conjunction with
`LiveInv`, the types, and `Buffers`: a peer that waits for data has less than a
message in its buffer, hence room.  The lemmas `FlowsRead`, `Decoding`, `MoreQueued`
and `FlowsWrite` are about one stream; each action then moves one peer, and
`Elsewhere` leaves the other connections alone, since by `ServedOnce`
no two peers share one.  For the refinement, `Unended` adds that a client without a
result has not ended; `Search` maps to the abstract answer, each response a client takes
to an abstract locator, `ClientEnd` and `ClientExit` to the abstract end.

`KcndbctlFileProofs` proves every safety invariant of `KcndbctlFile`, for any files,
any growth of them, any sizes of the buffer, of a message and of a locator, and any
faults, from `FileAssumption`: `FileTypes` (`TypeOK`), `SentIsExact` (`SentExact`),
`NothingIsLeft` (`NothingLeft`), `RefusedOnlyForCause` (`RefusedForCause`) and
`SizeCountsUnparsed` (`SizeIsUnparsed`).  What the file says is stated without
recursion: `Before(f, p)` counts the spaces among its first `p` bytes, and `Cut(f, k)`
is the place of the `k`-th one; that there is such a place is the one use of the least
element of a set (`LeastOf`).  The inductive invariant `FileInv` adds to the properties

* `Copied`: the buffer holds the bytes of the file that end at the offset of the
  descriptor, but for spaces that were overwritten by `get64`;
* `AtRecord`: it begins where the last record that was sent ends, the cursor is as
  many fields further on as `readfile` has got, and `kma` has their values;
* `Clean`: what is overwritten lies before the cursor, or was overwritten in an
  earlier turn.  In that turn the loop found no end of the record, so there had been
  `KCN_MSG_MAXSIZ` bytes of it or nothing more to come: the record is `TooLong`.
  Without it a record could be refused for a byte the file does not have;
* `Counted`: `kf_size` is what is left of the file, modulo `SIZE`, and of a file that does not
  grow exactly (`NothingMore`, with the uniqueness of remainders);
* `Drained`: between two callbacks no record that was read is left, or less than a
  message is and then, of a file that does not grow, more is to come.  It is what makes
  the end of the file a success, and rests on `Counted`: only with `kf_size = 0` does
  the loop go on below `KCN_MSG_MAXSIZ` bytes.

`kcn_strtoull` gives the number of a field, 2^64 less it behind a minus, or the limit it
is beyond; `StrtoullIs` says that it is an unsigned number of 64 bits, and `Says` which.
That the fold `Number` is a natural number is induction over data, so the proofs do not use
it; a value outside of `0..LLONG_MAX`, whatever it is, is beyond a limit.

`Key2locProofs` proves every property of `Key2loc` but `KeywordsExact`, for any
arguments, any characters and their encoding, any Web, size of a page and faults, from `Key2locAssumption`,
`UriAssumption` (a character with a meaning in a URI is encoded, two characters
differently, and with digits that are not), and `DigitsAssumption` (the same of numbers):

* `AlwaysNearer == Spec => EndsNearer`.  `Left` is never negative because a search
  is only made while some are left and a page only asked for below the maximum
  (`Progress`); one locator at least to a page makes it smaller (`PageSize`).
* `Key2locTypes` (`TypeOK`), `LocatorsAreExact` (`LocatorsExact`) and
  `OnlyBadArgumentsAbort` (`OnlyBadUseAborts`), which are parts of the inductive
  invariant `LocInv`.  Its centre is `Pages`: between two pages of a search the memory
  of the URI holds the string of the parameters that all pages share, and the
  locators are the first `n` of the Web, or all it has; `n` is the number of
  requests times the size of a page.  Hence the next page begins where the last one
  ended, what it has fits, and one that is not full ends the search with
  all there are (`LastPage`).
* `RequestsAreExact` (`RequestsExact`), inductive with `LocInv`.

They rest on three groups of lemmas.  `Str(u, s)` says that the memory of `u` holds the
string `s`: it stays so when a string is put behind it, with the room that
`kcn_uri_str_len` says it takes (`EncodedLength`), and when it is cut (`StrResize`),
and what C takes it for is `s` (`StrCut`).  `ParamsWith` says which parameters a
string has when one is added: no encoded value has an `&` in it, and no parameter before
it ends later than it did.  `DecodedIs` says that decoding an encoded value gives
the value: the service finds where each character begins because an encoded
one ends with two cells that are not `%`.  `FlattenSeq` and `Decode` are
recursive functions; what they are is proved by counting up to the length
(`Recursion`, `CountUp`), which rests on the least element of a set of numbers.

So every invariant and every action property that a run checks is proved, but
`KeywordsExact`, and so are the two refinements, under the hypotheses named above
(`OnlyKills`, no "early").  Only model-checked: liveness (`SectionEnds`,
`ClientFinishes`, `ThreadFreed`, `FileEnds`), because the prover has no rules for
fairness; and `KeywordsExact`, which compares the words of the
arguments, read one by one, with those that `kcn_key_split` finds in the keywords
`kcn_key_concat` put together: its model sorts a set with an operator of the community modules, for
which there are no theorems.  Not proved either is a fact the properties do not
need: that `Number` of `KcndbctlFile` is a natural number.

## 7. Not modelled

* Options of `kcndbctl` and `kcndbd`, formatting, JSON, libcurl, the collection of
  an HTTP response in memory; `key2loc -n` with a negative number (it becomes a
  very large one).
* `malloc` failures outside the tables' opening and the response callback, and
  `event_add` and `accept` failures.  Known consequences: when `kcn_net_new` fails,
  `kcndb_server_session` closes a descriptor that has been closed; an `accept` that
  fails is repeated at once; and with a backend of libevent that refuses regular
  files `kcndbctl -f` ends at its first `event_add`.
* Messages no program of the repository sends: a wrong version, length or type.
* Undetected damage of the files by other programs, and power failures: a kill
  loses memory, not what was written.
* Start and end of the server's threads, and the seven tables next to each other:
  they share no state.
* `kcn_token.c`, which no program uses; logging; addresses of sockets.

## 8. Plan

1. Done: `KcnBuf`, `KcnEq`, `KcndbTable`, `KcndbDb`; `KcnMsg`, `KcnNet`,
   `KcnLookup`, `KcnService`; `KcndbctlFile`; `KcnInfo`, `KcnUri`, `KcnGoogle`,
   `KcnNetstat`, `KcnDb`, `Key2loc`; the theorems of section 6.
2. Proofs next: `KeywordsExact`, that is, that `kcn_key_split` undoes `kcn_key_concat`
   but for the blanks within keywords, with `kcn_key_split` as a recursive function.
3. Models left: the JSON parser and the buffer of an HTTP response, and the start
   and end of the server's threads.
