# TLA+ models of libvigor

libvigor is a C runtime library: data structures, text helpers, wrappers of POSIX
and ZeroMQ, and a few services that run in threads or across processes. This
directory holds TLA+ specifications of it, TLC configurations that check them on
small instances, and TLAPS proofs for all instances. Paths like `src/ha.c` are
relative to the root of the repository.

## 1. Inventory

| Component | State | Operations | Interaction | What makes it correct |
|---|---|---|---|---|
| `src/ha.c` high availability | per peer: state, expiry, next heartbeat, two mutexes | `ha_new`, `ha_check`, `ha_startup`, the thread, `ha_shutdown` | two processes over PUB/SUB; a thread, the application's threads and a signal handler in each | one peer serves; a takeover only from a dead peer; never two passive; shutdown ends |
| `src/lock.c` lock files (with `src/proc.c`) | a file; per process `fd`, `pid` | `lock_acquire`, `lock_release` | any number of processes through one path | mutual exclusion; a dead holder's lock is broken |
| `src/signals.c` | one flag per process | handler, `signalled` | asynchronous handler; every loop of the process | a signal ends what it should |
| `src/hash.c` | 64 buckets of key and value arrays, a length, a cursor | get, set, unset, next, merge | under `cache.c`, `mq.c`, the trust database | a map; what loops visit |
| `src/cache.c` | fixed entries, an index (hash), options | get, set, unset, touch, purge, resize, options | calls a destructor of the application | bounded, no object lost or destroyed twice, expiry |
| `src/hb.c` | missed count, delay | init, ping, miss, alive, sleep | caller's loop | dead after `freshness + 1` misses; delay bounded |
| `src/list.c` | circular double links | push, pop, shift, unshift, delete, replace | under `mq.c`, `reactor.c`, `config.c` | links agree; a sequence |
| `src/reactor.c` | handler list, poll array | set, go | calls handlers, which may call `reactor_set` | every ready socket is served by its handler |
| `src/mq.c` PDUs | frames with a FINAL flag, address | make, extend, send, recv, reply, copy | ZeroMQ | one FINAL frame, the last; what is sent is received |
| `src/mq.c` ZAP | a thread on a REP socket | startup, the loop, shutdown | ZeroMQ handshakes, trust database | every handshake is answered |
| `src/config.c` | list of pairs | set, unset, get, read, write | list | the latest pair wins |
| `src/cert.c` | keys; trust database (list) | generate, read, write, sign, seal; trust, revoke, verify | libsodium, ZAP thread | a revoked key is not trusted |
| `src/strings.c` | array of strings | add, remove, sort, diff, intersect, split, join | - | each is the list operation it is named for |
| `src/path.c`, `src/basex.c`, `src/sha1.c` | buffers | canonicalise, push, pop; encode and decode; digest in pieces | - | agree with a reference, whatever came before |
| `src/daemon.c`, `src/run.c` | processes, a locked pid file, the environment | daemonize; run a command | fork, pipe, wait, signals | one daemon; the status comes back; the ids asked for |
| `src/log.c`, `src/time.c` | the log's name, stream and level; a stopwatch | open, close, level, log; start, stop | `syslog()`, the clock | no stale name; elapsed time |
| `src/rand.c`, `src/fqdn.c`, `src/mem.c` | none | thin calls of the C library | - | - |

Most of the library is sequential. What is hard to test is where several actors meet
(HA, lock files, signals, ZAP, daemon) and where one data structure is used in an
order nobody wrote down (hash cursor, cache and index, reactor, list nodes after
removal, PDUs after sending, the two forms of a key). `PROJECT.json` lists these
hazards with their lines and the properties that cover them.

## 2. Modules

| Module | What it is |
|---|---|
| `HA`, `Leadership` | the pair of `src/ha.c`: both threads, clients, shutdown, signals, crashes, the network; what the pair promises |
| `Lock`, `Mutex` | `src/lock.c` in several processes, one system call per step; what a lock promises |
| `Hash`, `HashMap` | `src/hash.c`, with the cursor of `for_each_key_value`; what a hash promises |
| `Cache`, `BoundedCache` | `src/cache.c`; its index is a map with the operations of `HashMap`; what a cache promises |
| `List`, `Lists` | the links of `src/list.c` and its safe loop; sequences |
| `Config`, `Settings` | `src/config.c` and the trust database of `src/cert.c`, with the file; maps, kept and saved |
| `Strings`, `StringLists`, `StringSeqs` | the arrays of `src/strings.c` with their gaps and capacity; sequences of strings; what both say of sequences |
| `Text` | `interpolate()`, `strings_split()`, `strings_join()`, `string()` and `src/basex.c` |
| `Path` | the buffer of `src/path.c` |
| `Sha1` | the block buffer, bit count and padding of `src/sha1.c` |
| `Timing` | `src/hb.c`, and the stopwatch and `sleep_ms()` of `src/time.c` |
| `Log` | `src/log.c` |
| `Cert` | `cert_t` of `src/cert.c`: two keys in two forms, a file, sealing |
| `Pdu` | the messages of `src/mq.c` between two peers |
| `Zap` | the authentication thread of `src/mq.c` and its host |
| `Reactor` | `src/reactor.c` with handlers that register sockets |
| `Runner` | `src/signals.c` and `src/run.c`, which a signal interrupts |
| `Daemon` | `src/daemon.c`: several processes start on one pid file |
| `Null` | the constant `NULL` that the modules share |
| `HAProofs` | theorems about `HA` |
| `TableProofs` | theorems about `Hash` and `Cache` |
| `ListProofs` | theorems about `List` and `Strings` |
| `FilesProofs` | theorems about `Lock` and `Path` |
| `LibraryProofs` | theorems about `Timing`, `Log`, `Sha1` and `Text` |
| `MCLibraryProofs` | theorems about all parts of `MCLibrary`, from those above |
| `PduProofs` | theorems about `Config` and `Pdu` |
| `ServicesProofs` | theorems about `Runner`, `Daemon`, `Zap`, `Reactor`, `Cert`, and about all parts of `MCServices` |
| `MCHA`, `MCLock`, `MCCache`, `MCLibrary`, `MCServices` | instances for TLC |

Definitions preceded by "Mutant:" are faulty variants of the operator after them. No
specification uses them; put in the operator's place, each makes TLC report a
property violated, which shows that the property can fail.

`MCLibrary` and `MCServices` each hold many parts that share no state. Their
variable `subject` is chosen at the beginning: the steps of a behaviour are those of
that part, and the others stay where they began, in one state (`Pinned`). So their
state spaces add up instead of multiplying, and no behaviour of a part is lost.

### HA

One peer is `Primary`, the other `Standby`: the state `ha_new()` gets. `pc` names
where `ha_thread` stands; each label is a point where another actor can come between
(`loop` is the test of `signalled()`, `poll` the `zmq_poll`, `recv` the receipt and
`ha_check()`, `extend` the write of `m->expiry`, `beat` the heartbeat). `ha_check()`
is the pair of operators `Fails` (it returns non-zero) and `After` (the state it
leaves); it holds `m->lock`, so it is one step. The write of `m->expiry` comes after
the unlock and is a step of its own: that is where `ha_race` finds its violation.
`m->exit` is the flag `exit` that `Shutdown` sets and `Join` takes back once the
thread has ended.

Times are count-downs, so that no clock needs a bound: only `expiry - now` and `next
- now` are compared in the code. With `Prompt` the clock moves only when no thread
has work and nothing ready is left unread; without it the clock and the threads are
independent, which covers every delay. `inbox` is the ZeroMQ subscription queue:
ordered, lossy at `HighWater` or at any time (`"loss"`), empty after a crash of the
receiver; what a dead peer has sent stays. `pdu_type() != "HA"` is the message
`"mistyped"`.

### Lock

`file` is the inode at the path, known by the process that made it, with its
contents either incomplete (`"partial"`: open() done, write() not) or complete.
`Read`, `Stat`, `Unlink` and `Reopen` are separate steps, as no lock protects them.
With `VIGOR_LOCK_SKIPEUID` the code compares `ps.euid`, which `proc_stat()` leaves
uninitialised when it fails: `Stat` allows both outcomes. A dead process may have
its pid given to another (`"foreign"`). `raced` is a history variable: some lock
file was made while another process stood between its read and its unlink.

### Hash and Cache

`Hash` keeps the order of entries in their bucket, since the cursor depends on it.
The variables `visited`, `owed` and `disturbed` record what the current loop must
still deliver. `MergeInto` stands for any complete loop over the same table inside
another. The hash function is the constant `HashOf`.

`Cache` keeps the age of entries, cut off at `OldAge`, where all have expired, so
that it needs no clock. `destroyed` records the objects given to the destructor by
the last call. A pointer of the index into a freed cache is `Stale`; what the
program does after using one is undefined, and the model has no such step.
`GrowsInUse` says whether a cache that holds objects may be resized. Callers store
an object under one id at a time.

### List

`next` and `prev` are functions on heads and nodes. `list_shift()` and `list_pop()`
leave the links of what they return; `LeftAlone` is what a caller must know to
delete such a node harmlessly, and with it the deletion, too, is an action.
`LoopStep` is the step of `for_each_object_safe`, which has read the next node
before the body runs; the body may delete the node it is at, and nothing else. The
refinement reads off the sequences by following `next` from a head.

### Config

The list of pairs is what `config_set()`, `config_unset()`, `trustdb_trust()` and
the readers make of it, in their order: a read puts pairs in front one by one and so
reverses the file; `config_write()` writes the first of each key, and
`trustdb_write()` every pair. `ReadBack` is what a value has become when it was
written and read (blanks at its ends are lost). `hidden` in `Settings` is that a
trust database holds a key twice, so that the older value may come back after
writing and reading.

### Strings and Text

`Strings` models slots, not contents: what a call frees becomes `NULL`,
`s_strings_reduce()` closes the gaps, and `Junk` lies behind an array. `overread`
records that the reading pointer has left the array, which it does when that is
full. `Text` has no steps of the library, only of the caller who builds a string:
the functions are operators, and `beyond` is what lies in memory behind the NUL,
where both passes of `interpolate()` go on after a brace that ends the string.

### Path, Sha1

`Path` is the buffer with its NULs: `path_canon()` wipes components in place and
compacts; `popped` records what `path_push()` should bring back, `residue` that
bytes were left behind the path, `pushed` that `p->n` may no longer be the length of
the path: `path_push()` puts the length of what it pushed there, from the slash on,
and 0 if there was nothing to push. `Sha1` keeps the blocks given to `s_transform()`,
the buffer, and the bit count in two words of `WordBits` bits; the digest is an
unknown function of the blocks, so two digests are equal when the blocks are. The
bytes of a message are numbered.

### Timing, Log

Delays are in milliseconds and the back-off is a fraction; the product is cut off to
an int whose largest value is `IntMax`, and what an overflow gives is the smallest
int. The clock may be set between two calls. `Log` keeps `tag`, the pointer that
`openlog()` was given: `Freed` once its memory is.

### Cert

A key is a name, its base-16 form a name with the case of its digits; illegal
characters and wrong lengths are keys of their own. Which binary forms fit the two
types of certificates, and which keys form pairs, is all that is known of libsodium.
`touched` records that a caller has set a key without translating it.

### Pdu, Zap, Reactor

`Pdu` sends frame by frame, and any of them may be the one that fails: the frames
sent are empty from then on, and those on the wire stay in front of the next message
(`partial`). `Flushed` and `Routed` are what ZeroMQ does with DEALER, ROUTER, PUB
and SUB. `intended` is a queue of what was meant, beside the real one.

`Zap` has the thread (`zapPc`) and the host (`hostPc`), which starts and ends a
change of the trust database in two steps. A look-up during a change may have any
answer or crash, since the list is not locked. `right` collects the answers that
were right at some time since the request was read. `zapSocket` counts
`zmq_close()`.

`Reactor` has the array of `reactor_set()` beside the list, an index in each item,
and the number of sockets that `reactor_go()` took once.

### Runner, Daemon

`Runner` splits `signalled()` into its read and its reset, with any number of loops
asking. `run2()` is the steps of the child up to `execvp()` and the wait of the
parent; a signal may end the wait. More arguments than fit end in `"overrun"`, after
which nothing is said.

`Daemon` has a parent and a child for each start; files are numbered, since a daemon
may remove the file and another start make a new one. `fcntl()` locks belong to the
process that asks, so the child does not have its parent's. `cleanenv()` works on a
sequence of names.

## 3. Runs

| Run | Shows | Result |
|---|---|---|
| `ha_async` | with any delays, losses, crashes, restarts and foreign messages: `NoProtocolSplit` (no two leaders before a client takeover or a restart), `NoDualPassive`, `ImplementsLeadership`, `TypeOK` | holds |
| `ha_prompt` | with prompt threads and a prompt network: `NoFalseTakeover`, and `NoRestartSplit` with crashes and restarts | holds |
| `ha_live` | `Elected`, `SplitNoticed`, `Failover`, `ShutdownReturns` under fairness, with any delays | holds |
| `ha_race` | `AlivePeerRejects`: "If peer is alive, reject connections" (`src/ha.c:156`) | violated |
| `ha_stale` | `NoRestartSplit` without promptness: "become active, peer will go passive" (`src/ha.c:130`) | violated |
| `lock_mutex` | processes that live on see a mutex (`ImplementsMutex`), and a free lock is taken (`FreeIsTaken`), short writes included | holds |
| `lock_die` | exits, crashes, short writes, reused pids: `ExclusiveUnlessRaced`, `HolderOwnsFile`, `PartialLockStays`, `AbandonedIsBroken` | holds |
| `lock_race` | `MutualExclusion`: "Failed to acquire a held lock" (`t/lock.c:36`), with normal exits only | violated |
| `lock_twice` | `UnheldReleaseFails`: "Cannot release an un-held lock" (`t/lock.c:39`) | violated |
| `cache_resize` | `ResizeKeepsContents`: "increasing the amount of memory in which the cache resides" (`src/cache.c:68-69`) | violated |
| `library_parts` | the single-threaded parts, see below | holds |
| `services_parts` | the parts that meet other processes, threads, sockets and files, see below | holds |

Properties of `library_parts`, besides the types:

| Property | Says |
|---|---|
| `WellFormed`, `ImplementsMap` | a key is once in its bucket, the length is right; a hash is a map |
| `LoopsRight` | a loop over a hash or a list visits what it must, once, whatever its body does |
| `Coherent`, `ObjectsDestroyed`, `ImplementsBoundedCache` | index and entries agree; an object is destroyed when it must be, and never while it can be found; a cache is a bounded map with expiry |
| `RingsClosed`, `ImplementsLists` | every node that is linked is linked both ways; lists are sequences, also when nodes are deleted that were shifted before |
| `ImplementsStringLists` | string lists are sequences of strings and end in a NULL, unless a full array was read over |
| `TextRight` | both passes of `interpolate()` agree with each other and with what the references stand for; split and join are inverse; base 16 in either case is |
| `PathRight` | `path_canon()` gives what the path stands for; a push undoes a pop; as long as nothing is pushed, pops take one component after another |
| `DigestRight` | the blocks are those of the standard, whatever the pieces |
| `TimingRight` | dead after `freshness + 1` misses; the delay grows and stays in its bounds; stopwatches |
| `LogRight` | no name is used that was freed; levels and their names |

Properties of `services_parts`, besides the types:

| Property | Says |
|---|---|
| `PduRight` | only the last frame is FINAL; what is received is what was sent, unless a send failed between frames or a PDU was sent twice or empty |
| `ZapRight` | the answer is the one that the last change of the key asks for; every good request is answered unless a bad one ended the thread; `zap_shutdown()` returns |
| `Served` | every message of a socket known when `reactor_go()` was called is read, whatever handlers register |
| `RunnerRight` | a signal is told unless it falls between read and reset; the result is that of the child unless a signal came; no program with other ids |
| `DaemonRight` | one daemon unless the pid file was removed; the file says its pid; the parent's status; the environment |
| `ImplementsSettings` | a configuration is a map that survives its file |
| `CertRight` | both forms of a key agree after every translation; a file gives back what was written; what the owner seals a reader unseals |

The conditions in these properties ("unless") are each a weakness of the code that
the property pins down: outside of it the code is right. What happens inside is
excused, so these properties do not catch the weakness itself; the notes of the
hazards in `PROJECT.json` say for which hazards that is so.

What the violations say:

- `ha_race`. The standby hears its first "active" and becomes passive; before it
  writes `m->expiry`, a client request finds the old expiry passed and makes it
  active, next to a primary that is alive.
- `ha_stale`. A peer crashes with a heartbeat of its first moments still on the way.
  It restarts, hears its peer and goes its way; the old heartbeat then arrives and
  makes the passive peer active, too.
- `lock_race`. A reads the details of a holder that then releases and exits; C takes
  the free lock; A finds the old pid dead and unlinks the file, which is C's.
- `lock_twice`. `lock->fd` survives a release, and a second one unlinks the path,
  where by now the file of another process is.
- `cache_resize`. The index is copied with pointers into the old entries, and
  `cache_free()` then destroys the objects and frees the entries.

Divergences between the code and its documentation that need no run:

- `hash_set()` returns the new value, not NULL, for a new key (`src/hash.c:113-114`
  against 126-129), and `for_each_cache_key` visits ids that have been removed, as
  their index entry stays with the value NULL (`src/cache.c:136`, 261).
- `strings_remove_all()` removes every occurrence of each string
  (`src/strings.c:581-589`); `strings_diff()` compares lengths and the sets of
  strings, in no order, and returns 0 when they differ and -1 when they do not
  (`src/strings.c:625-645`); `SPLIT_NORMAL` and `SPLIT_GREEDY` do what the text says
  of each other (`src/strings.c:719-720` against 746); an empty token at the end is
  dropped, and an empty delimiter never ends.
- `path_canon()` makes "/b" of "a/../b", so that a relative path becomes absolute
  (`src/path.c:74-103`); after it, or with empty components, `path_push()` may bring
  back bytes that were never popped.
- A `path_pop()` after a `path_push()` may not take the last component
  (`t/path.c:90`), as `path_push()` leaves in `p->n` the length of what it pushed, or
  0, instead of that of the path (`src/path.c:112`). "/path/to/thing" popped twice and
  pushed once is "/path/to" with `p->n` 3: the next pop finds no slash and returns 0.
  "/a/a/a" popped and pushed has `p->n` 2, and the next pop makes it "/a". The tests
  never pop after a push. `PathRight` excuses such pops (`pushed`), and no others; a
  push after one still brings back what it took.
- `sha1_update()` counts a piece of 2^29 bytes or more wrongly
  (`src/sha1.c:123-124`); `sha1_fd()` takes the -1 of a failed `read()` for a length
  (`src/sha1.c:240-243`); `sha1_hex()` is declared (`include/vigor.h:790`) and never
  defined.
- `cleanenv()` spares each variable behind one it removes (`src/daemon.c:180-199`);
  `daemonize()` leaves with 0 whether or not a daemon has started, and a failed
  write of the pid goes unnoticed, since its result is unsigned (`src/daemon.c:96`,
  135-138).
- `run2()` returns 0 when a signal ends its `waitpid()` (`src/run.c:46-53`), and
  more than 98 arguments run over its array (`src/run.c:83`).
- A trusted key that is written in upper case is never found by the ZAP thread
  (`src/mq.c:646`), and a trust database with a key twice has its older name back
  after it was written and read (`src/cert.c:370-373`).
- `hb_miss()` may overflow an int before it looks at the maximum (`src/hb.c:68-70`).
- `log_open()` frees the name that `syslog()` may still use (`src/log.c:50`).

### Bounds

- HA: two peers is what the code has. `Heartbeat` 1 suffices without promptness, as
  the order of expiry, heartbeat and messages is then unconstrained; with it 2 (3
  for `ha_race`), so that the instants inside a heartbeat differ. Queues of 2 or 3
  messages hold stale and fresh states of one peer together. The theorems have no
  such bounds.
- Lock: a race needs a dead holder, one that breaks its lock and one that takes it:
  three processes, four in `lock_mutex`; in `lock_die` one of them lives for ever
  and one passes the flag. The theorems hold for any set of processes.
- Hash: a bucket of three keys and one of a single key, with an empty one between
  them: entries move, and the cursor crosses buckets. A value and NULL suffice.
- Cache: three ids and objects for caches of one and two entries, so that they fill
  up and entries change hands; lifetimes -1 and 1 with ages -1 to 2 lie on both
  sides of every comparison. `cache_resize` has its own.
- List: two heads and three nodes: a node has neighbours on both sides, and may move
  to another list. Keys that collide, ids and nodes are interchangeable (symmetry),
  which is sound here since the run has safety properties only.
- Strings: two lists of up to three strings out of two, in arrays that begin with
  four slots and grow by two: lists fill their arrays, and strings repeat.
- Text: strings of up to four characters over letters, `$`, braces and backslash
  with four continuations behind them, delimiters of one and two characters; bytes
  0, 10, 171 and 255 for base 16.
- Path: seven characters of `/`, `.`, `a`, enough for "/a/a/.." and its relatives,
  and for components that are shorter than the path in front of them.
- Sha1: blocks of four bytes with a length of two, words of 6 bits, messages of up
  to 18 bytes in pieces of up to 9: a piece fills two blocks, padding needs one
  block or two, and the low word is carried.
- Timing: three heartbeats with a maximum that is no power of the factor, one of
  which overflows; instants on both sides of a second.
- Pdu: PDUs of two frames (messages of four), one message on its way.
- Zap: one key in both spellings, two requests, any changes. The theorem is for any
  number.
- Reactor: two sockets, three registrations, two messages each: a handler registers
  a socket before and after it was polled, and one twice.
- Runner: two loops, root and two users, one program. Daemon: three starts (two of
  root's), two files, pids of one to three digits with a buffer of four. Both have
  theorems for any number.
- Config: two keys, three values (one that is read back as another), two pairs, a
  foreign file of one line. Cert: a key for each type, texts that are upper case,
  illegal or short.

### Fairness

`FairSpec` of `HA`: the clock moves, each thread runs (weak), a message in flight is
reported by `zmq_poll` at last (strong: the queue may be polled early any number of
times), the application calls `ha_startup()`, joins a thread that has ended and
keeps making client requests, as a client that is rejected retries. Neither crashes
nor shutdowns are forced. `Elected` allows for a thread that is shut down first.

`FairSpec` of `Lock`: a process that lives keeps calling `lock_acquire()` and gets
through each call (weak); writes are not short every time (strong). Nobody has to
release. `AbandonedIsBroken` requires one caller that lives and does not pass
`VIGOR_LOCK_SKIPEUID`.

`ZapFairness`: the thread runs, one that was cancelled ends, and `zap_shutdown()`
goes on; requests and changes need not come, nor be completed. `ReactorFairness`:
the loop runs and handlers return; neither messages nor registrations are forced.
Both are weak: the operating system schedules threads that can run.

`CHECK_DEADLOCK FALSE` is set where a system may really stop: processes have all
ended, counters of calls are used up, or a program is past an undefined step.

## 4. Theorems

`HAProofs`, for every `Heartbeat`, `HighWater`, `Prompt` and set of faults, from
`HAAssumption` only:

- `TypeCorrect`: `[]TypeOK`. `recv` is reached only with a message in the queue,
  which `Head` needs, hence `ThreadInv`.
- `NoSplit`: `[]NoProtocolSplit`. By itself it is not inductive: two active peers
  can come from what is in the queues. `Following` says that the standby never
  leads, that it has heard "active" only from an active primary, and that no
  "primary" follows an "active" on the way to it; `ha_check()` of a passive standby
  would make it active on that. `IInv` (`TypeOK`, `ThreadInv`, `PairInv`) is
  inductive: theorem `Invariance`.
- `Refinement`: `ImplementsLeadership`. The election of a second leader would
  contradict `Following`; a takeover and a crash make the abstract pair unsettled.

- `NeverBothPassive`: `[]NoDualPassive`, crashes and restarts included. By
  itself it says nothing of what is on its way: a peer that has its configured role
  becomes passive by a message "active". `DualInv` says that of two peers of which
  none is active, one at most can still be made passive by its inbox, and none if
  the other is passive already; `DownInv`, that a peer that is down gets nothing.
- `NeverBothActive`: `[]NoRestartSplit`, under `PromptSystem` (threads and network
  take no time on the clock, and no foreign message ends a thread; losses, crashes
  and restarts at any moment). `ha_stale` shows that it fails without promptness.
  It rests on timing: between two ticks a peer publishes once and a running thread
  reads what it has (`InstantInv`), so a running peer has one message to read at
  most, sent by a peer whose next heartbeat is a whole period off. Hence the two
  heartbeats of a restarted pair do not cross (`CrossInv`), and when the standby is
  active, or will be by what is in its inbox (`Rising`), the primary is not, nor
  will it be (`SplitInv`).
- `TakeoverIsTrue`: `NoFalseTakeover`, an action property, under `LosslessSystem`
  (the same promptness, nothing lost). While both threads run, a passive peer has
  at least a heartbeat left beyond the next message of the other, or one to read
  (`LivingInv`): that is what makes `2 * heartbeat` long enough for `expiry`. The
  property excepts what it must: a peer that is about to write its expiry (which
  `ha_race` shows to be needed) or whose own thread has ended, and all that comes
  after a crash.

`FilesProofs`, for any set of processes, from `LockAssumption`, and for any
characters and lengths of paths, from `PathAssumption`:

- `TypeCorrect`: `[]TypeOK`, including that `proc_stat()` is asked about a real pid.
- `Exclusion`, `HolderOwns`, `PartialLock`: the properties of `lock_die`, if nobody
  releases twice. The invariant `UnracedInv`: as long as nothing is raced, who is
  past a successful open() has its file at the path, and who looks at details looks
  at a file that is still there or at nothing, of an owner that is dead before the
  unlink.
- `Refinement`: `ImplementsMutex`, if processes live on (`Faults` at most short
  writes).
- `PushesUndoPops`: `PushUndoesPop`, a part of `PathRight`. The invariant `PathInv`: unless `path_canon()`
  left bytes behind the path, the buffer is a path with a NUL over some of its
  slashes, each in front of the one popped before, `popped` has what was in front of
  each, and `p->n` is not behind the end of the path, wherever a push has put it. Canonical paths keep it because `path_canon()` gives a path that
  is not longer than the one before, with a NUL behind it.
- `PopsTakeTheLast`: `PopsTakeLast`, another part of `PathRight`, also where something
  was left behind the path. The invariant `PopInv`: until something is pushed, `p->n`
  is at the end of the path, or at 0 when no slash is left to pop.

`TableProofs`, for any keys, values, number of buckets and bucket function:

- `TableWellFormed`: `[](HashTypeOK /\ WellFormed)`. The invariant `HashInv` adds
  where a loop is: what it has visited is not still `ToCome`, and what it has still to
  visit is, as long as nobody changes the table meanwhile.
- `LoopsComplete` and `LoopsOnce`, the two halves of `LoopsRight` about hashes.
- `MapImplemented`: `ImplementsMap`; the map is that of the entries (`PresentMap`). The
  lemmas `ReplaceKeeps`, `InsertKeeps` and `RemoveKeeps` say what each change of a
  bucket does to it, the move of the entries behind a removed one included.

Also `TableProofs`, for any ids, objects, sizes and lifetimes, if `GrowsInUse` is FALSE:
`CacheCoherent` (`[](CacheTypeOK /\ Coherent)`), from it `ObjectsAccountedFor`
(`ObjectsDestroyed`, an action property), and `BoundedCacheImplemented`
(`ImplementsBoundedCache`). What the cache contains is read off the entries; the code
looks only through the index, and coherence is what makes both the same. With
`GrowsInUse` all are false, as `cache_resize` shows.

`ListProofs`, for any heads and any finite set of nodes, and for any strings:

- The invariant `SeqInv`: there is a sequence of nodes for each head, no node in two
  places, such that `next` and `prev` of what is linked are those of its neighbours
  in the ring (`LinksOf`), a node in none of them being free to link anywhere
  (`Unlinked`); and the safe loop holds two cells of one sequence with what it has not seen behind the first
  (`LoopAhead`). No property of the links alone is inductive: a shifted node
  points into a list that has gone on without it, and what its links say is true
  only of a past sequence.
- `RingsStayClosed` (`[]RingsClosed`), `ListsShareNothing`, `ListTypeCorrect` and
  `SafeLoopsComplete`, the third part of `LoopsRight`, follow from `SeqInv`.
- `ListsImplemented`: `ImplementsLists`. The module reads the sequence of a head off
  its links, by following `next` (`Ring`); a lemma shows that it is the one of
  `SeqInv`, by the least place where the two would differ, for want of induction.

- `StringListsImplemented`: `ImplementsStringLists`, for any initial length, growth
  and number of strings. The invariant `StringsInv` says that an array begins with the
  strings of the list, and has only NULLs behind them unless a full one was read over
  (`Array`); for every loop a lemma says what it leaves, also for
  `s_strings_reduce()`, whose reading pointer is followed round by round past the end.
  The loops over two lists, and sorting, are the same functions of sequences on both
  sides (`StringSeqs`).

`LibraryProofs`:

- `HeartbeatsRight` and `TimingCorrect` (`[]TimingRight`), for any intervals,
  factors and width of an int. It needs the products and quotients to be bounded,
  which lemmas on multiplication and division give.
- `LogNamesRight` (`[](LogTypeOK /\ LogRight)`), for any names, files and levels:
  the name `syslog()` has may outlive its log only after a log was opened over another
  (`LeftOver`); `LogRight` alone says nothing of a name that the next `log_close()`
  frees.

Also `LibraryProofs`, for any `BlockSize`, `FdBufSize`, `MaxChunk` and `MaxMessage`, and any
`Word` that is a multiple of the bits of a block (`Sha1Assumption` also says that `Word`
is a number, as the prover does not know `2^n`):

- `ChecksumsRight`: `[]DigestRight`. The invariant is that the context has taken in
  exactly the bytes there are (`Taken`): its blocks are those of the message
  (`BlocksOf`), the bytes behind the last whole block are at the front of the buffer,
  and the low word of the count tells how many those are (`LowWord`, for which a word
  has to be a multiple of the bits of a block); the high word is right as long as no
  piece was huge (`CountedRight`: the sum falls below the summand exactly at a carry).
  What is behind them in the buffer may be anything. `UpdatedHolds` says that
  `sha1_update()` takes in what it is given; `FinishedRight`, that the loop of
  `sha1_finish()` stops behind as many zeroes as the standard asks for.
- `Sha1TypeCorrect`: `[]Sha1TypeOK`, that is, `s_transform()` is given full blocks
  only, and both words of the count stay words, also where they overflow.

Also `LibraryProofs`, for any characters (the NUL is none of them), names and what they
stand for, delimiters, bytes, sizes of the buffer of `string()`, and whatever lies behind
a string in memory:

- `TextCorrect`: `[]TextRight`. A text has no property but that it is made of characters
  (`TextBound`); what there is to prove is what the functions compute, for texts of any
  length. `ExpansionIs`, `SplitIs`, `JoinIs` and `PassIs` say what the recursive functions
  are, place by place or round by round.
- The pass of `interpolate()` that counts keeps `InText`: what it has put out, followed
  by what the string stands for behind the place where the pass is (or from the reference
  or the escape it is in), is what the whole string stands for; until a brace at the end
  leads it over the NUL, and then what it has put out begins with all of that and a NUL
  (`Past`). `SameAgain` says, of anything in memory, that the second pass fills its buffer
  with what the first one counted: as long as there is room both are in the same state,
  and what the first puts out never becomes longer than what it has at its end. Up to its
  NUL that is what the string stands for (`UpToNUL`).
- `SplitRight`: at each place, from the end, the items from there on joined are the rest
  of the string, with or without a delimiter behind it (`AsJoined`), none has a delimiter
  in it, and the greedy split has those that are not empty. `Survives` and `Refused` say
  that decoding base 16 undoes encoding, in either case, and what it refuses.

`PduProofs`, for any keys, values and lines of a file:

- `SettingsImplemented`: `ImplementsSettings`, for any keys and values, whatever a file
  does to a value (`ReadBack`). Lemmas say what
  each change of a list does to the map of its first pairs (`MapOf`): a pair set in
  place or in front (`SetHere`, `SetInFront`), one list in front of another
  (`JoinedMap`), some pairs of a list (`PickedGet`), and a list reversed, which
  makes no difference if no key is in it twice (`ReverseOnce`). That last one is why
  `config_write()` has to write each key once.

Also `PduProofs`, for any contents of frames, and any bounds on frames and messages:

- `MessagesRight`: `PduSpec => PduRight`. The invariant is that all frames of a PDU but
  the last say that more follow (`WellFramed`), and that the messages queued for a peer
  match, one by one, what the other meant (`Kept`, `Says`), as long as that one has
  sent whole PDUs only; it has then left no message unfinished. A message says what
  was meant after the envelope of the sender and what a DEALER or ROUTER puts in front
  or takes off, and the first empty frame is then where `pdu_recv()` looks for it
  (`Envelopes`), whatever the frames behind it are, empty ones included. `ExtendedByIs`
  and `FlushedIs` say what the loops of `pdu_copy()` and `pdu_send()` leave. What a
  client's own PDU with an address says to the server is excepted, as in `PduRight`.
- `PduTypeCorrect`: `[]PduTypeOK`. What it takes is that the address of a PDU is none,
  empty, or a peer's, although `pdu_recv()` takes for one whatever is in front of the
  first empty frame. `AddressesKnown` says that what is sent begins with an address or
  an empty frame, and has another of them behind the client's name (`Enveloped`); so
  does a message of which the front was left by a send that failed.

`ServicesProofs`:

- `SignalsKept`, `RunsTold` and `RunnerCorrect` (`[]RunnerRight`), for any loops,
  ids, codes and limits. The invariant adds what the child carries from what was
  asked, stage by stage.
- `DaemonsRight` (`[]DaemonRight`), for any processes, files and environments with
  no name twice (as `setenv()` keeps them; of a name that is there twice `unsetenv()`
  takes out both, and more variables move up than the one that is passed over): whoever went on holds the lock of the file it has open; what such
  a file has is never longer than `buf[]`, so that a pid written over it ends its
  first line; and `Cleaned` is followed along `cleanenv()`'s loop, where the
  invariant is what was kept so far and whether a variable is being passed over.
- `AnswersJust` (`[](ZapTypeOK /\ ZapJust)`), for any keys and number of requests,
  with the invariant that the database has the lower-case text of a key exactly if
  the key is allowed, unless something was misspelt or a change is under way.
- `CertificatesRight` (`[](CertTypeOK /\ CertRight)`), for any keys, names and texts,
  if the two kinds of keys differ: a key and its text belong together unless the
  caller has changed one and not had it translated (`touched`).
- `StuckOnlyTwice`, the safety half of `Served`: the loop calls for one socket
  without end only if it was registered twice. `ReactorInv` relates the poll array
  to the list of handlers that has moved on since it was made: what a walk looks
  for is in the list, at or behind where the walk is (`Walking`), or has been
  registered over (`Overtaken`).

`MCLibraryProofs` and the end of `ServicesProofs`: each behaviour of `MCLibrary` and
of `MCServices` is a behaviour of each of its parts (`PartsOfSpec`), since a part moves
by its own actions while it is the subject and stays where it began otherwise. So
what is proved of the parts alone holds of the specifications of both runs:

- `LibraryTypeCorrect` (`[]LibraryTypeOK`) and `LibraryCorrect`, if `GrowsInUse` is
  FALSE; `LoopsCorrect` (`LoopsRight`), from the theorems about loops over hashes and
  lists.
- `ServicesTypeCorrect` (`[]ServicesTypeOK`) and `ServicesCorrect`, which use no
  fairness; `Spec` of `MCServices` asks the fairness of a part only while it is the
  subject.

Only model-checked:

- the liveness properties (the prover has no fairness): those of `HA` and `Lock`,
  `ZapAnswers`, `Served`;
- `CanonRight`, the rest of `PathRight`, which compares `path_canon()` with what a
  path means, component by component.

The prover has no induction over data. Recursive functions over places can be followed
all the same, by the least place where a claim would fail (`EveryRound`, `DownTo`);
`Cleaned`, `Picked`, `ExtendedBy`, `Flushed`, `Kept`, `WipeAll`, `Compacted` and those of
`Text` are written as such.

## 5. Not modelled

`PROJECT.json` lists each source file with its status. Not modelled are

- `src/rand.c`, `src/fqdn.c`, `src/mem.c`: no state. Allocation failure ends the
  program, and never happens in the models.
- What `printf()` and `strftime()` print: `lock_info()`, `time_strf()`,
  `pdu_fprint()`, log lines.
- Arithmetic with no state: the rounds of `s_transform()`, the value of
  `s_hash64()`, libsodium.
- Calls of the resolver and of ZeroMQ alone: `vzmq_resolve()` (which leaves IPv6
  addresses without brackets), `vzmq_connect_af()`, `vzmq_ident()`; `pdu_to_hash()`
  and `pdu_from_hash()`, which string calls together that are modelled.
- The parsing of `/proc/<pid>/status`.
- In `HA`, failures of `pthread_create` and `pdu_send`; `ha_check()`'s `m->event`,
  which only `ha_event()` reports; `ha_bind`, `ha_connect` and `ha_free`, which run
  before and after.
- In `Lock`, the file's uid and time, which decide nothing but the SKIPEUID test;
  `fopen` and `fscanf` of the details are one step.
- In `Cache`, a destructor that calls back into the cache, and the wrap of 32-bit
  seconds in 2038.
- In `Daemon`, system calls whose failure is an `assert()`.
- In `Zap`, `ca->verify` (`src/cert.c:412`), which nothing in `src/` clears: a trust
  database that does not verify answers as none at all does, and is the value `NULL`
  of `tdb`.
- In `Runner`, the redirection of streams, which only hands descriptors on.

## 6. Left to do

1. `CanonRight`, by proof.
2. A destructor that calls back into `Cache`.
3. The trust database as `Zap` reads it, pointer by pointer, in place of "any
   answer".
