# Funra: specifications, model checking and proofs

Funra is a C code base for game and network servers: a base library
(`src/source/rbase/common`), an entity-component-system (`ecs`), sockets and
codecs (`ipc`), an RPC layer (`rpc`), Lua bindings (`script`) and a server
program (`rserver`). Most of the files of the repository are third-party code
(libuv, jemalloc, gperftools, cmocka, Lua, protobuf-c) that it carries along.
This directory models the parts of Funra that carry state through long sequences
of calls, callbacks and network events, checks the models with TLC and proves
some of what they say with TLAPS. Of the third-party code only the streams and
the loop of libuv are modelled, because Funra's server runs inside them.

## 1. Inventory

| part | source | state it keeps | operations | what is hard | what makes it correct |
|---|---|---|---|---|---|
| dictionary | `common/src/rdict.c`, `rdict.h` | one array of buckets x capacity slots, `size`, `entry_null` | create, add (with expansions), remove, find, clear, release, iterate | an add expands and calls itself again; an expansion overflows and expands again; a removal moves another entry; iterators point into the array | it answers like a finite map; slots of a bucket are a prefix; each key once; `size` counts; add returns |
| byte buffer | `rbuffer.c`, `rbuffer.h` | a block, `offset`, `pos` | write, read, skip, rewind, seek, revert, clear | block-wise move of overlapping bytes; clamps at the end | it is a bounded queue of bytes |
| array | `rarray.c`, `rarray.h` | a zeroed block, `size`, `capacity` | add, remove by value and by index, clear, walk | growing and shifting under a walk | it is a sequence; nothing is left behind its end |
| strings | `rstring.c` | the table and the hits of a search, a block that doubles | split, replace | borders of the separator, exact fits of the block | tokens joined are the string; every place is replaced; the calls return |
| object pool | `common/include/rpool.h` | blocks of items, a free list per block, the chain of pools | create, get, free, destroy, destroy all | a block is released when the last of its items comes back; pools leave the chain in any order | no item is handed out twice; counters agree with the lists; the chain leads to the pools |
| log | `common/src/rlog.c` | a file for all levels, shared line buffers, a mutex | printf, flush, roll | lines formatted into a shared buffer before the lock; rolling locks the mutex its caller holds | lines are whole; one file; a call returns |
| default codec | `ipc/src/rcodec_default.c` | the two caches of a data source | encode into `write_buff`, decode from `read_cache`, echo | frames cut by TCP; partial sends; answers queued while decoding; caches at their limit | frames arrive in order, once, complete; nothing waits without `EPOLLOUT` |
| epoll wrapper | `ipc/src/repoll.c` | registered descriptors, the last batch of events | add, modify, remove, poll | items of a batch outlive the registration they came from | no item of a removed descriptor is dispatched |
| epoll server | `ipc/src/rsocket_epoll.c` 520-1190 | state, listening socket, `map_clients`, session id counter | init, open, start, check, accept, send, receive, close session, stop, close, uninit | a session closed, or the server stopped, by an earlier item of the same batch; descriptors reused; accept fails half way; sessions removed from the map that is iterated | map, epoll set and sessions agree; every session of a gone client is closed; closing closes all |
| epoll client | `rsocket_epoll.c` 35-518 | state, stream, two caches, one registration | init, open, start, check, send, receive, stop, close, uninit | connect with a timeout; it closes itself in the middle of a check; close leaves the caches dangling | state, stream, caches and epoll set agree; start answers; nothing that was freed is touched |
| libuv server | `ipc/src/rsocket_uv_s.c`, on `3rd/libuv/1.42.0/src/unix/stream.c`, `core.c` | state, `map_clients`, per session a handle and two caches; the queues of the loop | init, open, start, stop, close, uninit and the callbacks of the loop | callbacks of writes, shutdowns and closes come turns later; a stop closes what is closing; answers sent before the one in front is written | map and open handles agree; answers arrive once and in order; broken sessions close; a stopped loop ends |
| ECS | `ecs/src/*.c` | id counter, dictionaries of entities and components, array of systems | init, uninit, new/delete, add/remove systems, start/stop/pause, run | systems change the array the loop walks; ids wrap; hooks refuse | a phase calls each system once and in order; objects are found by their ids; run and new return |
| others | `rlist.c`, `rthread.c`, `rstring_ext.c`, `rtime.c`, `rfile.c`, `rmemory.c`, `rtools.c`, `script/*`, `rpc/*`, `rsocket_poll.c`, `rsocket_select.c`, `rsocket_uv_c.c`, `rpipe_s.c` | | | wrappers of system calls and libraries, or sibling transports with the interface of the epoll one | not modelled, section 8 |

How they interact. The thread that owns an epoll data source calls `check` again
and again. `check` polls the epoll container (repoll), takes the items of the
batch one by one, accepts new connections, lets the codec decode what was
received, which may queue an answer or stop the server, and sends what waits in
`write_buff`. With libuv the same codec runs inside the callbacks of `uv_run`.
Sessions live in an rdict; the caches are rbuffers; the systems of an ECS context
live in an rarray and its objects in two rdicts. Everything of one data source
runs in one thread: the interleavings that matter are those of the events in a
batch with the handlers' effects on the items that follow, of callbacks with the
calls that queued them, and of the two ends of a connection with the network
between them. Only the log is used by several threads at once.

## 2. Modules

| module | models | uses |
|---|---|---|
| `RDictMap` | what a dictionary promises: a finite map, and what each call answers | |
| `RDict` | `rdict.c` without iteration | refines `RDictMap` (`ImplementsMap`) |
| `RDictIter` | `rdict_it`, `rdict_next` between the calls of one dictionary | extends `RDict` |
| `RQueue` | what a buffer promises: a bounded queue of bytes, and how many bytes a call takes | |
| `RBuffer` | `rbuffer.c` | refines `RQueue` (`ImplementsQueue`) |
| `RSeq` | what an array promises: a sequence | |
| `RArray` | `rarray.c` for pointers | refines `RSeq` (`ImplementsSeq`) |
| `RString` | `rstr_split` with its search, `rstr_repl` | |
| `RAllocator` | what a pool promises: items that are nobody else's | |
| `RPool` | `rpool.h`, the pool of one type | refines `RAllocator` (`ImplementsAllocator`) |
| `RPoolChain` | `rpool.h`, the chain of the pools of all types | |
| `RLog` | printing, flushing and rolling of `rlog.c` by several threads, with the mutex of `rthread.h` | |
| `Codec` | `rcodec_default.c` at both ends of a connection, with queueing, sending and receiving of `rsocket_epoll.c` | |
| `EpollServer` | the server side of `rsocket_epoll.c` with `repoll.c` and the map of sessions | |
| `EpollClient` | the client side of `rsocket_epoll.c` with `repoll.c` | |
| `UvServer` | `rsocket_uv_s.c` with the streams and the loop of libuv | |
| `EcsRun` | `recs_run` and the adding and removing of systems | extends `RArray` |
| `EcsObjects` | the life of a context, its entities and its components | |
| `RDictProofs` | theorems about `RDict` and `RDictIter` | extends `RDictIter` |
| `MemoryProofs` | theorems about `RBuffer`, `RPool` and `RPoolChain` | extends all three |
| `RStringProofs` | theorems about `RString` | extends it |
| `RLogProofs` | theorems about `RLog` | extends it |
| `CodecProofs` | theorems about `Codec` | extends it |
| `EpollProofs` | theorems about `EpollServer` and `EpollClient` | extends both |
| `UvProofs` | theorems about `UvServer` | extends it |
| `EcsProofs` | theorems about `EcsRun`, `EcsObjects` and `RArray` | extends the first two |
| `MC_RDict`, `MC_RString`, `MC_Codec`, `MC_EpollServer`, `MC_EpollClient`, `MC_RLog` | the small instances | |
| `MC_Containers`, `MC_Streams`, `MC_Epoll`, `MC_Ecs` | several instances side by side (section 3) | |

`Codec` abstracts an rbuffer to the sequence of units between offset and pos
(what `RBuffer` shows it to be) plus the offset where the codec looks at it.
`EpollServer` keeps the slots of `map_clients` bucket by bucket, as `RDict`
describes them, because the loop that closes the server iterates over them, and
abstracts the contents of the caches to "something waits". `UvServer` takes an
answer for one unit of the cache and its number for its content. `EcsObjects`
takes a dictionary for the map `RDict` implements.

### How state and actions correspond to the code

*RDict.* `table` is `d->entry`, indexed by slot; `buckets`, `size`, `nullEntry`
are the fields of the same meaning. `rdict_add` is a recursion through
`rdict_expand` and `_expand_buckets`, so it is a control state `call` with one
action per turn: scan and store (`AddStore`), full bucket (`AddNoRoom`), failed
allocation (`ExpandNoMemory`), a refill that overflows and doubles again
(`ExpandOverflow`), a refill that fits (`ExpandRefill`, which places each entry
by its rank among those of its new bucket). No other call may come between,
which the guard `Ready` says. `ret` is what the last call answered, with its kind and its
key: in `RDictMap` a find of a stored key has only the answer of that key, and the answers of an
iterator are kept apart from those of a find. `wild` records a memory access outside the table
and ends the behaviour: what the program does then is not defined.

*RDictIter.* `iter` is the iterator: what `it.next` points at, plus three history
fields (keys returned, how many, what changed since `rdict_it`). A step of the
dictionary makes it dangle when the table is replaced.

*RBuffer.* `mem`, `offset`, `pos`; `moved` is the bytes the call moved, and `asked` a history: the
call and what it was given. The rewind copies block by block as the loop does (`MovedBlocks`). In
`RQueue` how many bytes a call takes follows from `asked`, the queue and the room in front of it (`front`,
which is `offset`): `WriteExt` leaves out the last byte exactly when the bytes reach the end of the block.

*RArray.* `items`, `size`, `capacity` are the fields, `code` is what the last call
returned. Closing up moves every slot behind the hole, in ascending order: the code does it
with `memcpy` on ranges that overlap, which is taken for the forward copy that C
libraries do here.

*RString.* A behaviour is one call. `pc` is the loop it is in, `i` and `j` are the
cursors, `borders` the table of the search, `hits` where it found the separator, `out`
the tokens or the characters copied so far, `room` the size of the block of `rstr_repl`.
`rarray_at` answers zero behind the block, which the search relies on (`Border`). The inner
`do-while` of `rstr_repl` doubles the block until the next piece fits, one action per
turn (`Expand`), the last of which also copies.

*RPool.* `blocks` maps the address of an allocated block to its record: `total`, `count`
and the pointers `next` and `prev` are the fields; `free` is the list that `head` starts,
as a sequence of item numbers. `first` is `free_head_block`; `Nth` follows the pointers;
`got` is what the last call returned. An item in use
(`InUse`) is one of a block of the pool that is in no free list: there is no other record of
it, and the user frees only such items. `lost` is what `rpool_create` forgets when
the node of the chain cannot be allocated.

*RPoolChain.* `next` and `prev` are the fields of the nodes, `ChainHead` is `rpool_chain`;
`newer` has the pools that exist (`Pools`), each with those that were created after it, and
`overtaken` are those that were newer than a pool destroyed on its own.

*RLog.* The one module with real threads: each step of `rlog_printf` between two
points where another thread may come in is an action (`FormatBegin`, `FormatEnd`,
`LockFile`, `Write`, `UnlockFile`, `Out`), `pc` is where a thread is and `back` where its
nested calls return to. `owner` and `depth` are the mutex of the log, `file` the
file pointer of each level, `open` the files that are not closed, `buf` the line
buffers, with the line they hold and whether it is whole. Sizes are counted in lines: `file_size`
leaves out the time and the level in front of a message (`rlog.c:650`, `:666`), so in bytes
a file grows past the limit by those prefixes too. A
line that finds the log rolling goes to the console and changes nothing here. It is
assumed that all levels get the same file name, which needs their names to be made
within the same second when the template holds the time.

*Codec.* `wbuf`/`woff`/`wanted` are the write cache, its offset and whether
EPOLLOUT is asked for; `pipe` is the TCP stream of one direction; `rbuf` the read
cache; `decoding` is set while `decode_process` loops, one action per turn.
`cuts` is chosen by the network at the start: whether receives may end inside a
frame and fill the cache. `queued` and `taken` are histories.

*EpollServer.* `pc` is where the thread is: in a call of the user, polling,
dispatching the batch, or in the accept loop. `sess` holds each allocated
session (descriptor, peer, bytes to read, whether something is pending,
whether EPOLLOUT is asked for); `clients` the slots of `map_clients`; `watched`
the epoll set; `batch` the items still to dispatch, an item with descriptor 0
having been removed. Every exit of `ripc_accept_server` is an action or a disjunct
of one (`AcceptNothing`, `Accept`, `AcceptUndone`). Open has three ends: `Open`, `OpenFails`, where the caller
stops, and `OpenUnset`, where `rsocket_setopt` failed but open answers `rcode_ok` and the caller goes on.
The loop of such a server ends with a poll that fails, and the close then reads the stream that is NULL (`CloseNoStream`).

*EpollClient.* `state`, `sock` and `caches` are the fields of the data source (a cache is
unset, held or freed: `close` frees the caches and leaves the pointers), `registered` and
`interest` what the epoll set holds, `at` where the thread is and `events` what is left of the item the
last poll reported. The polls of `ripc_start_c` are `StartError`, `StartDone`,
`StartWaits`, `StartTimeout` and `StartFails`; one check is `CheckPolls` and then the two dispatches of the
same item, send and receive, of which the first may close the client. `broken` says
that memory that is not the client's was freed or read.

*UvServer.* `stage` is where the caller is, `life` the state of the data source,
`sessions` the data sources with their streams (queues of requests, whether reading
ended, whether a shutdown waits), `registry` is `map_clients`. Of the loop, `turn` says
which part of an iteration of `uv_run` runs, `todo` which events it still has,
`fed` is `pending_queue` and `closings` is `closing_handles`. Each callback is an action
(`AcceptS`, `ReadFrames`, `ReadEof`, `ReadError`, `WriteS`, `CloseSessionS`,
`CloseListener`), and the decoder inside `after_read` takes one action per frame
(`EchoFrame`, `StopFrame`), so that what a frame does to the session is seen by
the next. The block of the cache is kept slot by slot, because libuv sends from it after
the code may have written over it. `overlap` is a history: an answer was sent while
an earlier one was under way.

*EcsRun.* `pc`, `index` and `cur` are the loop of `recs_run`: the phase, the iterator, and
the system whose function runs. `adding` is the stack of systems whose init runs
inside `recs_sys_add`. The user's code may call the interface in any of these.
*EcsObjects.* `ents` and `cmps` are the dictionaries from ids to addresses, `memory` the id
inside an object, `making` the object whose id is being looked for, one action per
id tried; hooks that refuse are choices. `held`, `out` and `again` are histories of what
the user's code was given and deleted. `recs_init` resets neither the counter nor `admin_entity`:
`EcsInit(zero)` chooses whether the user zeroed the context before, and `reused` says, while `recs_init`
runs, that it was not. The stale pointer may lead to an entity the last life could not delete, to
freed memory, or to an entity of the user that got the same address; `wild` says that freed memory was used,
and ends the behaviour.

## 3. Runs

Several instances share a run: the MC module has a variable `part`, chosen in the
initial state, a step is one of the chosen module, and the variables of the others stay as they were
created. The state spaces add up and do not multiply, and each invariant is checked in
its own part. Fairness is asked for the chosen part only, or of actions that are not
enabled in an instance that was only created.

| run | instance | shows |
|---|---|---|
| `Containers` | dictionary: 4 keys and NULL, two values for two of them and NULL, one for the others, buckets of 2 slots, up to 60 slots; iterator: 3 of the keys and NULL, one value, no finds and no removals of missing keys in between; pool: 4 addresses of blocks, a first block of 1 item, others of 2; chain of 3 pools; buffer: 4 bytes, chunks of up to 3, two byte values; strings over two characters: sources of up to 5, patterns of up to 4, replacements of up to 2 | `TypeOK`, `Placement`, `SizeExact`, `AddReturns`, `ImplementsMap`; `IterationSound`; `ListSound`, `ImplementsAllocator`; `ChainExact`; `ImplementsQueue`; `StringsExact`, `Returns` |
| `Streams` | codec: 3 requests of 2 or 3 units, caches and pipe of 6 units; libuv server: 2 connections, 3 frames in all, room for 2 answers | `NoLostWakeup`, `StreamIntact`, `InOrder`, `AllDecodedUncut`, `EventuallyTaken`; `SessionsAccounted`, `AnswersExact`, `BrokenIsClosed`, `StopEnds` |
| `Epoll` | server: 2 descriptors, 3 connections, 4 buckets, accept loop of 2; client: 2 chunks on the way | `NoStaleDispatch`, `Agreement`, `AllClosed`, `ClosedStaysClosed`, `GoneIsClosed`; `SafeOnceStarted`, `ClientAgrees`, `GoneIsLeft`, `StartReturns` |
| `RLog` | 2 threads of 3 calls, 2 levels, files rolled by the second line of a level, recursive mutex | `OneFile`, `LinesWhole`, `CallReturns` |
| `Ecs` | 3 systems in an array that begins with 2 slots, init functions nested twice; 3 entities and a component, ids 1 to 3 | `CallsInOrder`, `MissedByRemovalOnly`, `RunEnds`, `ImplementsSeq`; `Registered`, `StaleOnlyIfReused`, `NewEnds` |
| `RDict_scan` | the dictionary with one value | violation of `ScanStaysInTable` |
| `RString_split` | sources of up to 4, all patterns | violation of `SplitRoundTrip` |
| `Codec_cut` | the codec | violation of `AllDecoded` |
| `EpollServer_bucket` | 2 connections in one bucket | violation of `AllClosed` |
| `EpollClient_stop` | 1 chunk | violation of `EndsCleanly` |
| `UvServer_stop` | the libuv server | violation of `ClosedOnce` |
| `RLog_posix` | 2 calls, the mutex not recursive | violation of `CallReturns` |

Bounds and why they are enough. *RDict*: the hashes are chosen so that the table
grows 1, 3, 8, 14 or 25 buckets and keys collide in some of these tables and not
in others: refills merge buckets, fill the last slot of one, and overflow; any
allocation may fail, and a collision among 25 buckets can only be answered by an
allocation beyond `MaxCapacity`, which always fails. *RDictIter*: two keys share a bucket and a
third one forces the table to grow under the iterator. *RBuffer*: with 4 bytes every pair of
offset and size occurs, with one, two and three blocks per rewind. *RPool*: four addresses let
three blocks stand behind the first, one more than may be idle, and let an address come
back. *RPoolChain*: three pools are needed for one to be taken along by an older one and one to
stay. *RString*: patterns of four characters have borders that overlap, break off and repeat; a
block of two bytes needs none, one or several doublings. The table is told apart up to `MaxTable`
entries, and the patterns of `Containers` are those whose table is finished. *Codec*: the write cache takes two of the
three frames, so that frames are refused, queued behind others and partly sent; the read
cache takes one frame, two frames with a byte to spare, or exactly what fills it.
*UvServer*: two sessions let one stop the server while the other is in any of its stages
(answers queued, shut down, closing), three frames let an answer meet one under way and a
cache that is full. *EpollServer*: two descriptors
for three connections force the reuse of a descriptor within one batch; one byte
of data per session is enough to have "data and end" reported together. *EpollClient*: an item
holds at most three events, so two chunks are enough for every mixture of them. *RLog*: with
three calls a thread can print, roll and print again while another one, at the same level
or at another, is at any point of its own call; a flush prints while it holds the mutex,
and may roll in it. *EcsRun*: three systems let a callback of the middle one remove the one in
front of, at and behind the walk, and let the array grow in a callback. *EcsObjects*: of three ids one
is not used again after a wrap, so that the ids of three entities run out.
`CHECK_DEADLOCK FALSE` is set where the system stops: all requests sent, all calls made, every address
lost, the server uninitialised, or a memory access outside the table. `Ecs` stops nowhere but after
a use of freed memory (the disjunct `wild` of `MCNext`).

Fairness. `RDict` asks that a running `rdict_add` goes on, and `RString` that its loops
do (functions that never wait). `Codec` asks weak fairness of the client's sends and, on
each side, of decode, flush and receive: epoll is level-triggered, and the owner of
the thread calls `check` in a loop. `EpollServer` asks that the thread goes
on; `poll` has a time limit and no handler blocks. `EpollClient` asks that its caller goes on
checking and that the three seconds of `ripc_start_c` pass (strong fairness of
`StartTimeout`: each poll may report something else, the clock goes on all the same). `UvServer` asks that the
thread goes on: no callback waits, and epoll reports again what was not handled. Nothing
is asked of the peers or of the network. `EcsRun` asks that the loop goes on and that the
user's callbacks return, whatever they do before (strong fairness of `SysAdded` and `Return`, which the calls
of the user disable and enable again); `EcsObjects` that the search for an id goes on. `RLog` asks strong fairness of each thread's
steps within a call: the scheduler lets it run, and a mutex that is free again and again is had one day. No
thread has to make a call.

What the properties on libuv leave open. `AnswersExact` speaks of sessions on which no answer was sent
while an earlier one was under way. When one was, `send_data` hands the whole of `write_buff` to libuv
again (`rsocket_uv_s.c:307`), the first answer goes out twice, and `after_write` then skips more than
was put in: without `overlap` the property fails.

## 4. What the runs with a violation show

- `RDict_scan`. A refill may fill the last slot of a bucket, which `rdict_add`
  itself never does. The scans of `rdict_add` and `rdict_find` have no bound, so
  a lookup in such a bucket goes on into the next one, or past the table when the
  bucket is the last (`rdict.c:207`, "桶内元素长度受限").
- `RString_split`. `_kmp_next_array_init` makes no progress on a mismatch behind a border
  (`rstring.c:39`): for the separator "aab" it appends to its table for ever. A separator that
  overlaps itself gives hits that overlap, and `rstr_split` cuts a token of negative
  length between them. The test of `rstr_split` takes a separator for which neither happens.
- `Codec_cut`. A frame of which only a part has arrived is lost: the short read
  empties the cache and resets it, and going back by the length that was read
  (`rcodec_default.c:170`, `:192`) finds nothing. The comments there say that
  decoding goes back and keeps reading.
- `EpollServer_bucket`. `ripc_close_server` removes sessions from the dictionary
  it iterates over; a removal moves the last entry of a bucket to a slot that was
  passed. With two sessions in one bucket one is never closed.
- `EpollClient_stop`. A client that closed itself on an error or a timeout inside `ripc_check_data_c` is
  stopped, closed and freed by the caller, as `rtest_rsocket_epoll.c:202-205` does: stop
  sets a state from which close runs again (`rsocket_epoll.c:298`), on caches that are freed.
- `UvServer_stop`. `ripc_stop` closes the listening handle and every session of the map, whatever
  happens to them already. In the trace one client sends two messages that stop the server and
  both are read at once: the second closes the listening handle, which the first left closing.
  libuv asserts that this never happens (`core.c:113`). Longer behaviours get there through a
  session that is closing and still in the map, or one whose shutdown is cancelled by the close
  and which is then closed again by its callback.
- `RLog_posix`. `rlog_printf` calls `rlog_rolling_file` with the mutex locked, which calls
  `rlog_flush_file` with the mutex locked. A `CRITICAL_SECTION` allows that (run `RLog`); a
  pthread mutex made with default attributes does not, and the first roll waits forever.

Seen while modelling, kept in the modules, and without a run of their own:
`rdict_create` ignores that it got no table, and the first lookup divides by zero
(`RDict!AddNoTable`); `rbuffer_seek` stops at capacity - 1, so a receive that fills the block loses its
last byte (`RBuffer!WriteExt`, `Codec!Received`); `rbuffer_revert` sets offset to
pos where `rbuffer.h:75` says the reverse; the result of `ripc_send_data_server` is
ignored, so a broken connection stays until `recv` notices (`EpollServer!SendError`);
a session on descriptor 0 is taken for a removed item (`SkipItem`); the close after
an error closes a freed socket object (`CloseAtEnd`, `wild`); destroying an older pool
takes the newer ones out of the chain (`RPoolChain!TakeOut`, `overtaken`); a system that is
removed in front of the walk of `recs_run` makes another one miss the phase
(`MissedByRemovalOnly` bounds how many); the id counter goes one past `sid_max`
(`EcsObjects!NextId`); a context that is initialised again without being zeroed keeps its old
`admin_entity`, which `recs_uninit` frees a second time when `on_init` fails (`EcsObjects!Uninit`;
`StaleOnlyIfReused` says that this is the only way); when `rsocket_setopt` fails `ripc_open_server` answers the
`rcode_ok` of the call before it (`rsocket_epoll.c:650-655`), the caller starts a server that listens to
nobody, and its close reads a NULL stream (`EpollServer!OpenUnset`, `CloseNoStream`); a stop of the libuv server clears the map before the close callbacks,
which then free nothing (`UvServer!CloseSessionS`, handle "lost"); a connect that
fails while `ripc_start_c` waits leaves it reading a stream that is NULL (`StartFails`).

## 5. Proofs

Every theorem holds for all values of the constants that satisfy the assumptions of its
module. They are no more than the code needs: sizes are positive, addresses, levels, types of pools and
systems are finitely many, the marks for NULL are not among them. Each proof is the same
in outline: an inductive invariant, a lemma for the initial states, one for each kind of step, one
that joins them, and the property from the invariant.

| module | theorem | statement |
|---|---|---|
| `RDictProofs` | `TypeCorrect`, `StructureCorrect`, `SizeCorrect` | `Spec => []TypeOK`, `[]Placement`, `[]SizeExact` |
| | `MapRefined` | `Spec => ImplementsMap` |
| | `IterationCorrect` | `IterSpec => []IterationSound` |
| `MemoryProofs` | `QueueRefined` | `BufferSpec => ImplementsQueue` |
| | `ListsAreSound` | `PoolSpec => []ListSound` |
| | `AllocatorRefined` | `PoolSpec => ImplementsAllocator` |
| | `ChainIsExact` | `ChainSpec => []ChainExact` |
| `RStringProofs` | `StringsAreExact` | `StringsSpec => []StringsExact` |
| | `OthersNeverReturn` | `StringsSpec => []SearchesRepeating` |
| `RLogProofs` | `LevelsShareFile`, `OnlyClashesMix` | `Spec => []OneFile`, `[]LinesWhole` |
| `CodecProofs` | `CodecTypeCorrect` | `CodecSpec => []CodecTypeOK` |
| | `WakeupKept`, `StreamIsIntact` | `CodecSpec => []NoLostWakeup`, `[]StreamIntact` |
| | `FramesInOrder`, `UncutIsWhole` | `CodecSpec => []InOrder`, `[]AllDecodedUncut` |
| `EpollProofs` | `ServerTypeCorrect`, `DispatchIsCurrent` | `Spec => []TypeOK`, `[]NoStaleDispatch` |
| | `ServerAgrees`, `CloseIsComplete` | `Spec /\ []OnePerBucket => []Agreement`, `[]AllClosed` |
| | `ClosedForGood` | `Spec /\ []OnePerBucket => ClosedStaysClosed` |
| | `FewSessionsClose` | with `MaxSid <= Buckets`: `Spec => []Agreement /\ []AllClosed /\ ClosedStaysClosed` |
| | `StartedIsSafe`, `ClientAgreement` | `ClientSpec => []SafeOnceStarted`, `[]ClientAgrees` |
| `UvProofs` | `SessionsAreAccounted`, `AnswersAreExact` | `UvSpec => []SessionsAccounted`, `[]AnswersExact` |
| `EcsProofs` | `ObjectsRegistered`, `StaleAdmin` | `ObjectsSpec => []Registered`, `StaleOnlyIfReused` |
| | `SequenceRefined` | `ArraySpec => ImplementsSeq` |
| | `SystemsInOrder`, `OnlyRemovalMisses` | `Spec => []CallsInOrder`, `[]MissedByRemovalOnly` |
| | `SystemsAreSequence` | `Spec => ImplementsSeq` |

### The inductive invariants, and why each part is needed

*Dictionary.* `IInv` is the type, `InOwnBucket`, `NoHoles`, `KeysUnique` and `SizeExact`. None is
inductive alone: that a store keeps keys unique needs that the scan of `k` sees every
entry of its bucket (`NoHoles`) and that no entry of `k` is anywhere else
(`InOwnBucket`); that a refill keeps the count needs that the walk of the old
table meets every entry (`WalkedAll`) and that entries go to different slots
(`TargetFacts`, from `KeysUnique`). The lemmas follow that order: buckets do not overlap
(`HomesApart`), ranks within a new bucket are an initial segment of the naturals (`RanksTaken`),
hence a refill is a bijection from entries to slots that leaves no hole
(`RefilledFacts`); then one lemma per kind of step. The refinement adds what each kind makes of the
bindings (`StoreMaps`, `RemoveMaps`, `RefillMaps`). `AnswerType` says which answers there are.

*Iterator.* Two facts of the dictionary are missing in `IInv` (`RoomInv`): a refill always makes the table
larger, otherwise an iterator would not notice it; and with buckets of one slot nothing is ever stored,
which matters because `rdict_next` never looks at the last bucket of such a table. `WalkInv`
then says that the keys returned are those of the slots passed (`Passed`), and that none of
them is still ahead (`Ahead`). The second stays true when entries are removed on the way, because a
removal moves an entry only backwards, which is why nothing is returned twice but something may be missed.

*Buffer.* The loop of `rbuffer_rewind` is a recursive function. `AfterTurns` says
in closed form what the block holds after `j` turns; a least counterexample to it is refuted
by `OneTurn`. `Slice` is what lies between two offsets, and a few lemmas say what appending
and taking do to it. With them every call is the step of the queue with the same name and arguments; `CallType`
keeps `asked` among the calls there are.

*Pool.* The blocks form a chain (`Chain`): there is an order `p` of the blocks of the pool in which
`next` leads from the first to the last and `prev` back. `ChainGrown` and `ChainShrunk` are the
relinking of `rpool_expand` and of `rpool_free`; `NthOfChain` says that following the pointers
enumerates the order, hence `Listed` are all blocks. The counters are sums over the blocks;
`SumOf` recurs over sets, so `SumsExist` first shows, for finite domains, that there is such a
function. `FewIdle` is the part that `CountsExact` needs and does not say: a third block can never
become idle, because when the last item of it comes back there is more free than one block
has. For the refinement `Used` says which items a set of blocks has in use; a step changes it by one item or not at all.

*Chain of pools.* `ChainInv` says that some order leads through the pools that were not overtaken, that `prev`
of each of them is the head, and that those in front of a pool are the ones that are newer. With that,
taking out a pool cuts off exactly its newer ones, which is `overtaken`.

*Strings.* The table is told apart up to `MaxTable` entries, and every separator is at most that long, so
the bound cuts only a table that is never finished. `Tabled` is the form of a table in the making: among the first `d`
characters the first one does not come again, from there on the separator has the period `d`, and the
border behind `k` characters is `k - d`, or empty up to `d`. A mismatch behind a border leaves that form, and
`TableInv` says that `i` and `j` then stand at two different characters for good: the loop never ends,
so no search runs with another table. With a finished one, falling back (`FallBack`, `AfterHit`) skips only
offsets at which the separator cannot lie. Hence `SearchInv`: what matched so far does lie where the search stands (`Begins`),
and the hits are exactly the places in front of it, in ascending order (`HitsTo`). `CutInv` says of each token that
it lies between two hits, from which `Joined` is the source by a least counterexample over `FlattenSeq`; where a
token would have negative length, two places overlap. `ReplaceInv` says that what was copied, followed by the
replacement of the rest (`out \o Replaced[i]`), is the replacement of the whole, and that `out` and the `rstr_end` fit
in the block. What `rstr_split` makes of other separators is `OthersNeverReturn`: it gets past its table only with those that
repeat themselves (`RepeatsFrom`), which are the ones for which TLC checks `Returns`. `RebuiltSkips` is the lemma behind it: between two places the recursion of `Replaced` copies characters.

*Log.* `MutexInv` relates the depth of the mutex to the calls each thread is nested in (`Held`), so that
a thread at one of the places in between owns it. `FilesInv` needs that: levels get the file one by
one nowhere but under the mutex, and a level is over its limit only while the call that wrote
the last line is on its way to close the file (`Due`). The size of the file is the number of pairs of
a level and a line (`Written`). `BuffersInv` gives a call of `rlog_printf` its buffer as long as no other thread
prints at the level (`clash`).

*Codec.* The units of a direction that its sender has not handed over (`Ahead`), then those its
receiver has not decoded, are in the order of the frames (`DirInv`); what is ahead is the end of the queued frames
(`Ends`), which is also what `StreamIntact` says by reversing. `FullInv` holds as long as nothing cuts frames: what is cached
begins with a frame, and each queued frame is taken, in the cache or ahead. Lemmas are about one direction
(`DirQueue`, `DirReceive`, `DirDecode`, `DirDrop`); an echo is a decode of one direction and a queue of the other.

*Epoll server.* `ConnectionsInv` (descriptors are distinct, an id is in the bucket of its hash, ids are not used
twice, map and epoll set name the sessions), `BatchInv` (an item that still counts stands for a live registration)
and `Stages`. The premise `OnePerBucket` of three theorems is that no bucket of the map holds two
sessions; without it they are false (run `EpollServer_bucket`). `FewSessionsClose` states them
for a server to which no more connections come than the map has buckets: there the premise holds by
itself (`FewConnections`), and the run `Epoll` is such an instance. A server without its stream has no session and
watches nothing, which `Agreement` says and its proof carries from `OpenUnset` on. `DispatchIsCurrent` needs no premise.

*Epoll client.* `ClientPlaces` and `ClientStates` relate where the thread is to what is allocated: only
a started client owns its caches, and an item that is dispatched comes from a registered descriptor.

*libuv server.* Of a session, `Sound` says what a send, the kernel and `after_write` keep: requests lie
in the cache; and, as long as there was no overlap, at most one is under way and what is not sent of it are
the last answers. Of the server, `UvInv` joins eight parts: the map names the open sessions until
a stop and none after it (`MapInv`), each closing handle is queued once (`ClosingsInv`), what the loop still
has to handle concerns open handles (`LoopInv`), and a loop that ended behind a stop has closed all (`EndedInv`).

*ECS.* `ObjectsInv`: what is found under an id carries it (`FoundInv`), what was handed out and
not deleted is found, unless its id was handed out again after a wrap (`KeptInv`), and an object whose id
is being looked for has none (`BirthInv`). `LivesInv` says where `admin` may be stale: only inside a `recs_init` that got a
context that was not zeroed, from which `StaleAdmin` follows. `RunInv`: systems called and not removed are behind the walk, in
their order (`WalkInv`); the places the walk passed without calling who stands there (`Holes`) are no more than the removals
at or in front of it (`MissedInv`).

## 6. Model-checked only

Liveness (`AddReturns`, `Returns`, `EventuallyTaken`, `GoneIsClosed`, `GoneIsLeft`,
`StartReturns`, `BrokenIsClosed`, `StopEnds`, `CallReturns`, `RunEnds`, `NewEnds`): fairness and
ENABLED are out of the prover's reach. Every safety property that a passing run checks is a theorem.
The runs that find a violation refute what they state, and there is nothing to prove.

The library's theorems on induction take an operator as a parameter, which no installed prover can
instantiate. Where a proof needs induction over a loop (`Nth`, `Link`, `MovedBlocks`, `FlattenSeq`, `SumOf`, `Replaced`) it
takes the least counterexample instead: `WFMin` and `NatLessThanWellFounded`
have no such parameter.

The models were changed for the proofs in three places. `RString` was restated without RECURSIVE operators: the doubling
of a block is a loop of the state machine, as it is in the code, and what `rstr_repl` should return a
recursive function. `RPoolChain` keeps for each pool the set of the newer
ones instead of a sequence of the pools, which allows the same behaviours. `UvServer` counts the answers of completed
requests in `done` instead of keeping those requests, which `after_write` tells apart by nothing else, and its stop
takes the sessions of the map in any order: that is more than the one order of the hash, so that
what is proved does not depend on the hash.

## 7. Plan

Models: done are all the modules of section 2. Next would be `UvClient` (`rsocket_uv_c.c`): a
connect that fails leaves the state pending, a close before the connect frees caches that were never
made, and sends repeat those of the server; then attaching components to entities, once some
code creates the array that is for.

Proofs: every safety property that a passing run checks is a theorem. What could be added: that
`EpollServer` handles a batch as an abstract set of sessions would (open, reported, closed),
which `Agreement` and `NoStaleDispatch` say in two parts.

## 8. Not modelled, and why

Third-party code is most of the repository. libuv is modelled where `UvServer` runs in it: the streams and the loop
on Linux; timers, files, processes and everything for Windows are not. `rpc/src/rrpc_client.c` is a copy of
the client of protobuf-c-rpc that no build file of the repository compiles; the rest of `rpc` is
declarations and a table of pointers. `script` are bindings to the Lua interpreter.

Of modelled parts: a `rdict_add` that fails for want of memory, where its caller ignores the result
(`rsocket_epoll.c:997`, `rentity.c:46`, `rcomponent.c:53`): the session or object is then in no map.
`rlog_printf_cached` has no caller; `rlog_uninit_log` frees under another mutex
what a printing thread uses, so the log of `RLog` lives as long as its threads.
`recs_cmp_add`, `recs_cmp_get` and `recs_cmp_remove` work on an array that no code creates.
Copies, comparisons and conversions of single strings are one loop or one call of the C library. Pipe
streams of the libuv server, a read cache that is full and bad frames (which are in `Codec`), and the exits of
`on_connection` behind calls that never fail in libuv on Linux. The capacity of a dictionary is a `uint32`
that wraps only after the allocations it asks for have failed. A connection of the user's own that
shares an epoll container with another. The result of `getaddrinfo` is not set when the call
fails, and `freeaddrinfo` gets it (`rsocket_epoll.c:112`): `OpenFailsC` sets `broken`. `rsocket_send` and
`rsocket_recv` store eight bytes through the address of an int (`rsocket_epoll.c:840`): what is
overwritten depends on the stack layout of the compiler. A line printed while another thread rolls goes to the
console (`rlog.c:607`): nothing in the source promises otherwise.

`rlist.c`, `rthread.c`, `rstring_ext.c`, `rtime.c`, `rfile.c`, `rtools.c`, `rmemory.c`:
sequential wrappers and conversions without a protocol of their own (the map of allocations of
`rmemory.c` is used by all threads without a lock, and only for a report). `rsocket.c`: system
calls, whose results appear as choices in `EpollServer`, `EpollClient` and `Codec`. `rsocket_poll.c`,
`rsocket_select.c`, `rpipe_s.c`: transports with the same interface as
the epoll one. Contents of headers, byte order and formatting are abstracted to lengths
and identities. Threads of the user that share one data source: the code has no lock
there and expects one thread per data source.
