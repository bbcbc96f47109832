# A TLA+ model of NewsCache

NewsCache is a caching news server.  Clients talk NNTP to a child process of
the daemon; the child answers from databases in memory-mapped files that it
shares with the other children, with `updatenews` (which prefetches groups and
sends spooled articles) and with `newscacheclean`; what is missing is fetched
from one of several upstream news servers.  No process talks to another one:
they meet in the files, under record locks, and in the article spool.

This directory holds TLA+ modules of the parts that carry the logic, TLC
configurations that check them on small instances, and TLAPS proofs of the
properties that matter most for every instance.

## Inventory

| Component | State | Operations | Meets others through |
|---|---|---|---|
| `NVcontainer` allocator (`NVClasses-0.9.1/NVcontainer.cc`) | header, circular free list and blocks in a mapped file | `nvalloc`, `nvfree`, `resize` | called by `NVArray`, `NVHash`, `NVlist` under the exclusive lock |
| `NVcontainer` locking | lock stack and mapping per process, record lock and size of the file | `open`, `lock`, `nvflock`, `make_current`, `resize`, `close` | the file, by all processes |
| Newsgroup database (`NVArray`, `NVNewsgroup`, `CNewsgroup`) | table of article numbers, records, `.art` files | `setsize`, `getarticle`, `setarticle`, `setover`, `readoverdb`, `sUpdateOverview`, `prefetchGroup` | its container; `RServer` for what is missing |
| Posting (`RServer::post`, `CServer::post`, `postspooled`, `ArtSpooler`, `ns_post`) | spool directory, bad articles, per-server outcome | post, spool, take out of the spool | the spool directory and its lock file; upstream servers |
| `RServer` connection | stream, current server, current group, server flags | `connect`, `issue`, `selectgroup`, `overviewdb`, `article`, `listgroup` | upstream servers |
| Server list and filters (`MPList`, `NewsgroupFilter`, `matchgroup`) | the configured servers and their rules | which server serves a group, which groups of a list are taken | `RServer` |
| `CServer` caching, `NVActiveDB`, `NVHash`, `NVlist` | active database (a hash table in a mapped file), times to live | `active`, `groupinfo`, `invalidateActiveDB`, `getgroup`, the walk of LIST | the file of the active database, by all processes |
| NNTP session (`NewsCache.cc`) | current group and article, the open group | one handler per command | `CServer`, `CNewsgroup` |
| Daemon (`NewsCache.cc`) | connection counter, limit, signal flag | accept, fork, `sigchld`, `catchsighup`, `catchsignal` | children and their signals |
| `updatenews`, `newscacheclean` | list of groups | prefetch, post, expire | the same files |
| Article, overview format, configuration, access list, logging | strings and lists, per process | pure functions | – |

What is hard here: several processes change one mapped file whose locks are
given up in the middle of an upgrade; positions, sizes and ranges are computed
before such a gap and used after it; every exchange with an upstream server may
fail before or after it took effect, and the recovery from that calls itself;
a counter and a flag are shared by a program and its signal handlers; the allocator's structure is only as
good as the longest sequence of calls; a full disk, a signal or a kill comes at
the worst step.  `PROJECT.json` lists these hazards at their lines, each with
the properties that would catch it.

## Modules

| Module | Models | Extends |
|---|---|---|
| `BlockStore` | what the allocator promises: blocks in use never overlap | – |
| `NVcontainer` | `nvalloc`, `nvfree`, `resize` | implements `BlockStore` |
| `NVcontainerProofs` | proofs | `NVcontainer`, `FoldLemmas` |
| `SharedFile` | what the locks promise: many readers or one writer, growth in one step | – |
| `NVlock` | processes, lock stacks, mappings, growth of one file | implements `SharedFile` |
| `NVlockProofs` | proofs | `NVlock` |
| `Posting` | the way of an article to the upstream servers | – |
| `PostingProofs` | proofs | `Posting` |
| `GroupDB` | the database of one group | rests on what `BlockStore` and `SharedFile` promise |
| `GroupDBProofs` | proofs | `GroupDB` |
| `ServerList` | the servers of the configuration and their rules, as operators | – |
| `Upstream` | one process and its connections to the upstream servers | `ServerList` |
| `UpstreamProofs` | proofs | `Upstream`, `FoldLemmas` |
| `ActiveDB` | the active database, shared by several processes | rests on what `SharedFile` promises |
| `ActiveDBProofs` | proofs | `ActiveDB` |
| `Session` | the sessions of several clients and the groups they share | rests on `ActiveDB`, `GroupDB`, `Upstream` |
| `NewsCache` | the daemon, its children and their sessions | `Session` |
| `NewsCacheProofs` | proofs | `NewsCache` |
| `FoldLemmas` | lemmas about the sums and concatenations of the community modules | – |
| `MCNVcontainer`, `MCPosting`, `MCGroupDB`, `MCUpstream`, `MCActiveDB`, `MCNewsCache` | instances for TLC | the module they name |
| `MCFilters` | another list of servers for TLC | `Upstream` |

Definitions marked *Mutant* are plausible faults of the definition that
follows; substituting one for it must violate the property `PROJECT.json` names.

### NVcontainer

Offsets and sizes count units of 16 bytes, the size of a `FreeList` record.
`w0` and `w1` are the two words of each unit: in a free block the words `next`
and `size`, in a used one the size word and the user's data.  They are the
memory image, so a fault that writes to the wrong place is a fault in the
model.  `freelist`, `size` and `bytes_free` are the header's fields; `prv`,
`cur`, `rsz`, `pb` are the locals of the running call.  `free` and `used` are
history variables: the addresses the calls have handed out and taken back.
One step of a walk of the list is one action (`NvallocStep`, `NvfreeStep`); the
end of a walk is one action per branch of the code (`NvallocResize`,
`NvallocFail`, `NvallocWhole`, `NvallocSplit`; `NvfreePrev`, `NvfreeBoth`,
`NvfreeNext`, `NvfreeLink`).  `Fill` is the caller's store to a new block.
The exclusive lock makes a call atomic for others, so there is one process.

### NVlock

Every process has a lock stack (`stack`), a record lock in the kernel (`held`),
a mapping (`msz`) and a position in `open`, `lock` or `resize` (`pc`).  The file
has a size (`fsz`), the size in its header (`hsz`), the end of the last free
block (`tail`) and data, of which only the last writer is kept (`data`).  A step
is a system call or a store that others can see.  `Relock` gives up the lock
and waits, `Acquire` gets it and runs `make_current`.  `leaked` counts frames
whose unlock was skipped by an exception (`ResizeFail`, disk full).  `Interrupt`
is only in the specification of the violation run.

`SharedFile` is what is left of this for a class that stores data: a lock per
process, a size, the data.  The lock (`Mode`) is the top of the stack while a
process runs and none while it waits, so an upgrade is a release and a new gain;
the size is the one in the header, so the three stores of `resize` are one
growth.  Creating the file in `open`, under a lock that is not on the stack, is a
step that only happens while nobody has the file.

### Posting

A child takes an article from its client (`NsPost`) and goes through the
servers of its newsgroups: `Stat`, `PostGoOn`, `Sent`, or one of the failures
(`StatFails`, `PostRefused`, `SendRefused`, `LostAnswer`, `LostArticle`).  `fate`
is the outcome per server, in the classes of the `catch` clauses; `Invalid` and
`Incomplete` are what `RServer::post` makes of them.  The end is `SpoolArticle`,
`SpoolFails`, `PostInvalid`, `PostAnswer` in a child and `PostSpooledEnd` in
updatenews, which starts with `GetSpooledArt`.  `acked` is a history variable.
Reconnects are part of `Retry`, which always comes to an end; that `connect` and
`issue` may call each other without end while a server keeps failing is a matter
of `Upstream` (`UpstreamRetries`).  A reconnect that finds the current group gone
counts as an error of the server (`err |= 4`), not as one to try again.  The order
of the servers is left open.

### GroupDB

`db` is what is in the file and beside it: range, table, blocks in use, what is
in each block, `.art` files.  Operations under the exclusive lock are operators
on it (`Setsize`, `Setarticle`, `Setover`, `Clear`, `DropDeleted`); the actions
take the locks, fetch from upstream and apply the operators.  A block keeps
its contents when it is freed, as in the file, so reading a stale entry is
visible.  `Getarticle` stands for `getarticle` and `printarticle`; fetching ends
in `Retrieved` (the upgrade gives up the shared lock) and `StoreArticle`.
`UpdateBegin` is `sUpdateGroupInfo` and `listgroup`; then one action per step of
the walk of `sUpdateOverview` or `prefetchGroup`.  The time to live is left out:
an update may start at any time.

### ServerList

A name is cut into pieces of text of which two that can stand at the same place
begin with different characters, so comparing pieces gives what comparing
characters gives; single characters are such a cut.  A group is the sequence of
its pieces, a rule a stem with or without a `*` behind it, accepting or rejecting.
`matchgroup` is the longest match, `server` is `MPList::server`.  `makeFilter` is
`FilterAll` for the argument `*` and `FilterWildmat` for any other.  `Advance` is
the comparison of the argument with one rule, `Positions` where `listp` stands
after each of the rules: it is not set back between two of them.  `Reject` puts a `!` in front of a rule: of a rule that
rejects already it makes one whose stem starts with `!`, which no group does.

### Upstream

`connect`, `issue` and `selectgroup` call each other, so the state has the stack of
the running calls (`stack`), each frame with its counter of retries; `Throw`
unwinds it to the frame that catches the exception.  `cs`, `cg`, `st` are
`_CurrentServer`, `_CurrentGroup` and `_pServerStream`; `sel` is the group that the
server itself has selected, which a reconnect forgets.  One action is one
exchange or one piece of code between two exchanges.  A fault is a lost or
refused connection, a 400 or 503 answer, an idle connection that the server closes,
or a group that it gives up.  After a 400 or 503 the stream stays good.  `adb` keeps, for each group, which server its
numbers came from; `got` what the last operation has read, and from where.

### ActiveDB

`tab` is the hash table, a bucket being the sequence of its records from the
first to the last; records are put in front and stay.  `hashtab` and `msz` are
what a process has mapped, `pages` is the size of the file.  `ActiveTest` and
`ActiveLock` are the two tests of `CServer::active`; the transfer is one step per
line, because a walk of LIST (`WalkBegin`, `WalkStep`, `WalkEnd`) takes no lock and sees the
table in between.  A record behind the mapping of the walking process ends it
(`WalkDies`).  `leaked` counts the frame that an unparsable line leaves on the
lock stack.  An end of file between two lines either counts as the end of the list
(`ReadEnd`) or is taken for an empty line that cannot be parsed (`ReadThrows`).
`fetched` is a history variable: when each list was last read to its end.
`GroupinfoGet`, `SelectAnswer`, `SelectSet` are `groupinfo`.

### Session and NewsCache

`ses[c]` is the `ClientData` of the child of client `c` with its point of control:
`name` and `nbr` are the selected group and article, `grp` is the group that is
open (`None` until a command needs it), `own` the records of an `RNewsgroup`,
`f`, `l`, `i` the locals of the command.  What a command asks of the shared
databases is one step each: `groupinfo`, `setsize`, `updateOverview`, the two
reads of `getsize`, every turn of the loop of NEXT and LAST.  `db`
is reduced to numbers and records per group; `GroupDB` has the details of those
steps, `ActiveDB` and `Upstream` those of `groupinfo`.  `kept` is a history
variable: the records the group of a child has had since its command began.

`NewsCache` adds the accept loop (`Fork` and `Increment` are two steps, the
handler may run between them), the signal handlers, and the ends of a child.
A decrement that the handler makes inside the increment may be lost (`Reap`), as
`nntp_connections` is a plain `int`.

## Runs

| Run | States | Shows |
|---|---|---|
| `NVcontainer` | 124,195 | list, tiling, counters, assertions, first fit, termination, refinement of `BlockStore` |
| `NVlock` | 51,333 | locks, mappings and stability under nesting, upgrades, growth and full disk; refinement of `SharedFile`; nobody waits forever for a lock that is granted when it can be |
| `NVlockSignal` | violation | an interrupted wait leaves stack and kernel in disagreement |
| `Posting` | 67,416 | nothing lost, sent twice at a time or sent needlessly; every article answered, delivered or kept |
| `GroupDB` | 130,291 | table, allocator and files agree; updates skip and lose nothing and end |
| `GroupDBFalling` | violation | `clear()` leaves a table of freed blocks |
| `GroupDBUnlocked` | violation | prefetching without the lock drops the wrong article |
| `Upstream` | 225,562 | the right server and the right group, whatever is lost in between; idle closes are invisible; once the faults have stopped, every operation ends |
| `UpstreamRetries` | violation | more attempts to connect are nested than the configured retries |
| `UpstreamFilters` | violation | the active database takes numbers from a server that is not responsible for the group |
| `ActiveDB` | 425,437 | no group lost or doubled; complete walks without a lock; no list transferred again before its time to live is over; operations end |
| `NewsCache` | 528,277 | the limit of connections holds, NEXT and LAST skip nothing, nobody waits forever |

Bounds, and why they are enough:

- `NVcontainer`: header of 3 units, pages of 7, at most 14 units, requests for
  1, 2 and 4 units.  Three blocks fit between header and tail, so a freed block
  can touch a free predecessor, successor, both or neither, the tail can be too
  small by one, and the file can grow and fail to grow.
- `NVlock`: 3 processes, stacks of depth 3, 2 sizes: two waiting writers and a
  reader; a nested upgrade; one growth.
- `Posting`: a child, two updatenews, three servers of which one is offline, an
  article for two servers, one for the offline server, one for none, one retry.
- `GroupDB`: 2 processes, article numbers 1..4 of which two are big, windows of
  3, ranges that move up, are taken back by a late `setsize` and become empty.
  With windows of 3 a window can hold an article that is present between two
  that are missing.  States that differ only in which block holds what are
  identified while the table is sound (`BlocksView`); likewise leftovers in free
  memory for `NVcontainer` (`LiveView`).
- `Upstream`: four entries (`*`, `comp.*` inside of it, `comp.lang.*` inside of that
  with NoServer, `local.*` offline), four groups of which one is carried by nobody,
  2 faults, 1 retry.  The first server
  lacks three commands, so every flag is cleared on one server and kept on the
  other; two faults break an operation and the reconnect of its retry.  `UpstreamRetries` is
  the same instance: two faults already nest three attempts to connect where one
  retry is configured, and every fault more nests another one.
- `UpstreamFilters`: the entries `comp.lang.*`, `comp.*`, `comp.lang.c.*` in this
  order, a group of `comp.lang.c.*`, 1 fault.
- `ActiveDB`: 2 processes, 3 groups of which two share a bucket, 2 servers, 2 records
  per page, times up to 2, 1 fault.  The file grows during a walk, and the time to
  live runs out between the tests of two processes.
- `NewsCache`: 2 clients (one reads, one brings the group up to date), a cached
  group that has changed since the cache last saw it, an uncached group, limits 1
  and 2, 5 events (lines, connections, signals, changes upstream).  Five are
  enough for two connections, GROUP, and NEXT beside a command of the other one.

`NewsCache` may stop: the daemon exits on a signal, and the children end.
`Posting` may stop: when all articles are answered nothing is left to do.

### Fairness

- `NVcontainer`: the running call goes on.
- `NVlock`: a process that does not wait goes on; sessions end (QUIT, end of
  input, or the ClientTimeout alarm); strong fairness on `Unlock` and `Close`
  because other steps are interleaved in between; a lock that stays grantable is
  granted, to some waiter.  So `WaitersServed` says that upgrades and growth do
  not make processes wait for each other; it is not about the queue of `fcntl`,
  which promises no order.  A process that holds a lock may wait for an upstream server; that
  it answers or times out is assumed.
- `Posting`: an exchange with a server ends somehow; updatenews is run again and
  again, as its manual says.
- `GroupDB`: the process that updates goes on, as above.
- `Upstream`: an operation that runs goes on, since every exchange ends by an
  answer, an end of file or an error.  Every behaviour has finitely many faults
  (at most `MaxFaults`), and `EndsAfterFaults` depends on it: a server that greets
  and then drops every `mode reader`, or answers it with 400 or 503, keeps
  `connect` and `issue` calling each other for as long as it does so.
- `ActiveDB`: an operation goes on once the lock is free.  Strong fairness on
  `Exit`: sessions end, though others interleave; that is what frees a leaked lock.
- `NewsCache`: the daemon, its SIGCHLD handler and each child are scheduled, and
  the alarm of ClientTimeout fires for a client that stays silent.  Nothing is
  assumed of clients, of upstream groups or of other signals.

## Proofs

All proofs are for arbitrary values of the constants under the named ASSUMEs;
some theorems about `Upstream` have a further hypothesis on the configuration,
stated with them.  Every inductive invariant also holds in TLC on the
instance of its run.  `TypeOK` of `NVcontainer`, `NVlock`,
`Posting` and `GroupDB` is proved with the rest.  That a nonempty set of numbers
has a least element, which the proofs about `GroupDB`, `ActiveDB` and `Upstream`
need, comes from the well-foundedness of the naturals in the library.

**Allocator** (`NVcontainerProofs`).  `IInv` is `TypeOK`, `FreeListOrdered`,
`Tiled`, `Coalesced` and `WalkSound`.  `Tiled` alone is not inductive: that a
split or a merge keeps the tiling rests on the order of the list, the order on
where the walk stands (`WalkSound`: `cur` follows `prv`, nvalloc has passed only
blocks that are too small, nvfree only blocks in front of the one to free), and
the merge on `Coalesced`.  From `IInv` follow the assertions in the code, first
fit, that no word of a user is written, and the refinement: every step maps to
`Alloc`, `Free` or a stutter of `BlockStore`.  `CounterIsExact` is about a sum:
`bytes_free` is the total of the sizes in the free blocks.  `FoldLemmas` shows
what `MapThenSumSet` does when an element is taken out or replaced (that the fold
does not depend on the order in which it chooses elements, along minimal
counterexamples, since the provers cannot use the library's induction); with it
each branch of `nvalloc` and `nvfree` changes the sum by what it adds to the counter.

**Locking** (`NVlockProofs`).  `LockInv` adds that record locks exclude each
other, that the stack never weakens towards its top, and that the file is
finished (`fsz = hsz = tail`) unless a process is inside `resize`, and how far
the sizes agree at each step of it.  `Refinement` needs two facts more (`GrowOK`:
`resize` asks for one unit more than is mapped; whoever has come out of `open` has
left a created file behind).  Then `Lock` and `Unlock` map to a release or a
stutter, `Acquire` to a gain, `ResizeSize` to the growth, `OpenCreate` to the
creation if the file is empty; every other step but `Write` and `Close` changes
nothing of `SharedFile`.  This is the exclusion that `GroupDB` and `ActiveDB` take
for granted.  It does not hold once a signal may interrupt a wait (`NVlockSignal`).

**Posting** (`PostingProofs`).  `PInv` adds who holds which article and what the
outcomes of the servers say about them: an outcome "posts" means that the server
has the article, every server a child was confirmed by is counted, and a server
that is being talked to and has the article has used up a retry.

**Group database** (`GroupDBProofs`).  `GroupInv` is `TypeOK`, `Sound(db)`,
`OneWriter` and `ProcInv` of every process.  `Sound` is `TableSound` and
`RightArticle` as a predicate of any database, so that each operator (`Setsize`,
`Setarticle`, `Setover`, `Clear`, `DropDeleted`) has a lemma of its own: a sound
database stays sound.  Neither of the two is inductive alone: that a new record
hits no other one needs that entries have blocks of their own, and that an index
computed when a walk began is still right needs `ProcInv` (a process that walks
has the exclusive lock, and the range it began with is the range of the table).
`BlockAssumption` says that the container never runs out of blocks: one more than
the table and the entries can take.  As in the specification, the first number
reported upstream only rises and prefetching keeps the lock; the runs
`GroupDBFalling` and `GroupDBUnlocked` show what happens otherwise.  Proved from it: `TableSound`,
`RightArticle`, `NoDowngrade`, `OnlyDeletedDropped`, and `NoneSkipped` for every
window.

**Active database** (`ActiveDBProofs`).  `ActiveInv` says that the table is a hash
table (a record is in the bucket of its group, no group has two), how the size
of the file tells a process whether there is a table (`FileInv`, `ProcInv`), and
for a walk that what it has listed lies in front of the record at hand and what
it still has to list is that record or lies behind it (`WalkInv`).  The relation
`Grows` (the old records are the last ones of their buckets) is what every step
does to the table; it keeps the order `Before`, so a walk of one process stands
while others insert.  From it follow `GroupsKept` and `WalkComplete`, for every hash function.
`NoRepeatedTransfer` is about the last time a list was read to its end, which the
code does not keep: `FetchInv` relates it to the time in the file (no list was
read later than that) and to the lock (a process that transfers holds it, and
the lists that it has yet to read are older than the time to live).

**Daemon and sessions** (`NewsCacheProofs`).  `ConnInv`: the children that run and
those that wait to be reaped are at most `nntp_connections`, plus the one between
`fork` and the increment.  A lost decrement only makes the counter larger, so
`ConnectionsBounded` holds whatever is lost.  `WalkInv` is for `NothingSkipped`:
the records of a table lie in its range, the active database is never ahead of
the first number upstream, and for NEXT and LAST the two numbers read by
`getsize`, though not read together, enclose every record that has been there
since the command began, and none of those lies among the numbers the loop has
passed.

**Connection** (`UpstreamProofs`).  `RightGroup` speaks of the moment an answer is
read; what makes it true is spread over the stack.  `GroupInv` says which call may
run inside of which (`On`), what each call relies on until it goes on (`FrameOK`:
a selectgroup that waits for its answer that its server is the current one, an
operation that waits for its answer that its group is the current one, active()
that its server is), that the group the server has selected is the current one or
none (`TopOK`), and that the current group belongs to the current server
(`CurrentOK`).  The step that matters is selectgroup: it may change server and
group under the calls below it, and `WhoSelects` shows that it then is the
operation itself or the first step of it; one that `connect` calls selects the
current group again.  `GoodThrow` shows the same for every place an exception
unwinds to.  Two more results rest on `GroupInv`:

- `IdleCloseIsInvisible`, for `Retries >= 1`: without a fault in the operation a
  call of issue has all attempts until it meets the broken connection, and one
  that reconnects meets no broken one (`HitInv`).  The hypothesis is needed: with
  0 retries, which the configuration accepts, the first command after an idle
  close fails.  The default is 3.
- `NumbersFromTheResponsibleServer`, if `FiltersAgree`.  This is a condition on the
  rules of the configuration alone, and TLC evaluates it for the one of the run:
  every server has a rule (`HasRules`), none that rejects (`NoRejects`: the filter
  for one rule leaves out the rejecting rules of its own server), no group has
  equally long rules at two servers (`NoTies`), and the rules of others that lie
  inside of a rule come in an order in which `makeFilter` finds them (`InOrder`: in
  front of the first of them no rule that begins like the argument does, between
  them no `*`).  Nothing in the code enforces the order, and `UpstreamFilters`
  shows that the property fails without it.

**Server list** (`UpstreamProofs`), for every list of servers and rules.
`LongestRuleDecides`: the result of `matchgroup` is the verdict of the longest rule
that fits, the first of equally long ones.  `BestServerIsResponsible`: the same for
`MPList::server` and entries.  From both and from what `FlattenSeq` contains
(`HasFlatten`) follow two facts about `makeFilter` of `*`.  `FilterKeepsOwnGroups`:
under `NoTies` a group that passes belongs to the server, for the rule that let it
pass is longer than every accepting rule of another one; the proof of
`NumbersFromTheResponsibleServer` uses it.  `FilterOfRuleKeepsOwnGroups` is the same
for the filter of a LIST ACTIVE with an argument, under `NoRejects`, `NoTies` and
`InOrder`: a longer rule of another server that fits a group of the argument lies
inside of the argument, and the scan finds it, because `listp` stays at the
beginning up to the first such rule and at the `*` from there on (`FoundInside`; as
there is no induction, a least rule that is not found is led to a contradiction).
`EveryServedGroupPasses`: if no rule
rejects, every group passes the filter of its server.

Only model-checked: the liveness properties (`Terminates`, `WaitersServed`,
`ClientAnswered`, `DeliveredOrBad`, `UpdatesEnd`, `EndsAfterFaults` of `Upstream`,
`OperationsEnd` of `ActiveDB`, `ClientsServed`), which need fairness.  Every other property of
the passing runs is a theorem.

## What the code does differently

Five runs show a disagreement between the code and what it says of itself; see
`findings` in `PROJECT.json` for the lines.

1. `NVlockSignal`: a wait for a lock that a signal interrupts, of a plain lock or
   of an upgrade, throws with the frame still on the lock stack; later nested
   locks believe it.
2. `GroupDBFalling`: `NVArray::clear` frees the records and keeps the table.
3. `GroupDBUnlocked`: without `--lock-groups`, the default, `prefetchGroup`
   uses an index computed from a range it read before it gave up the lock.
4. `UpstreamRetries`: the number of retries of the configuration bounds the loop
   of one `issue`, not the attempts: `connect` issues commands of its own, each
   with a counter of its own, and they connect again.
5. `UpstreamFilters`: `makeFilter` does not set `listp` back between two rules, so
   for `comp.lang.*` with the rules `comp.*` and `comp.lang.c.*` of others it does
   not exclude `comp.lang.c.*`.

Without a run of their own:

- A line of LIST ACTIVE that is cut off throws out of `NVActiveDB::read` past its
  unlock (`NVActiveDB.cc:188`): the process keeps the exclusive lock on the active
  database, and `close` finds the container locked (`NVcontainer.cc:715`).
  `ActiveDB` models it (`ReadThrows`, `leaked`); `OperationsEnd` holds all the same
  because sessions end.
- `postspooled` empties the spool in one attempt: an article whose server cannot
  be reached goes to `.badArticles`, from where nothing sends it (`NServer.cc:1386`;
  `NServer.h:583` has it kept for transmission).  `Posting` models it
  (`PostSpooledEnd`), and `DeliveredOrBad` names this end.
- `RNewsgroup::getover` returns NULL for a number without a record, and STAT,
  NEXT and LAST use the result: the child ends (`Stat`, `Walk`).
- A lost decrement of `nntp_connections` makes the daemon refuse connections
  below its limit from then on.
- An overview, an article or a list that the connection cuts off between two
  lines counts as complete.
- `makeFilter` puts a `!` in front of every rule of the other servers, those that
  reject included, but a second `!` is text: with `*` at one server and
  `a.*,!a.b` at another one, `MPList::server` gives `a.b` to the first, and no
  filter of a plain LIST ACTIVE lets it pass, so nobody lists it.  This is why
  `EveryServedGroupPasses` needs its hypothesis.

## Not modelled

- Crashes between two stores to the free list or inside `resize`: the code has no
  recovery to check.  A kill of updatenews between unlink and post.
- `rename_to_bad_and_close`, failing `mmap`, a throwing `nvalloc` inside
  `setarticle`.
- The age of an overview and of a partial one (`GroupDB` and `Session` let an
  update start at any time); the contents of articles and overview records.
- Who may connect, post or read: the login part of `connect`, AUTHINFO, access
  list, TCP wrappers.  A session may use every command.
- Groups of offline servers in `Session`; answers too short for a code; the
  static files of LIST; message texts.
- `newscacheclean`, which unlinks files without a lock and reads nothing back.
- The worker pool of updatenews: `main` has no case for the option, so the number
  of workers is always 0.
- Configuration, logging, `md5lib`, `crypt`.

## Plan

1. Allocator, locking, posting, group database – done as above.
2. `RServer` and the server list – done (`ServerList`, `Upstream`).
3. `CServer` and `NVActiveDB`/`NVHash` – done (`ActiveDB`).
4. The NNTP session and the daemon – done (`Session`, `NewsCache`).
5. Proofs of the safety properties of all modules – done (`GroupDBProofs`,
   `ActiveDBProofs`, `NewsCacheProofs`, `UpstreamProofs`).
6. Proofs about the operators of `ServerList`, about the counter of the allocator,
   and that `NVlock` gives its clients the exclusion that `GroupDB` and `ActiveDB`
   take for granted – done (`FoldLemmas`, `UpstreamProofs`, `NVcontainerProofs`,
   `NVlockProofs`).
7. Left: `newscacheclean` beside running processes; the time to live of overviews.
