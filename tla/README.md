# A verification project for TAYGA

TAYGA is a stateless NAT64 translator: it reads IP packets from a TUN device,
maps every address between IPv4 and IPv6, rewrites the headers and writes the
packets back. These modules model and check the daemon, and prove parts of it:
the address mapper with its cache, the dynamic pool and its database, the
handshake behind the statistics, the dispatcher that gives packets to workers,
the asynchronous writes, the set-up of the device and the life of the process
around them, and what translation does to a packet.
All paths below are relative to the repository (`src/addrmap.c` and so on).

## 1. Inventory

**Address mapper** (`src/addrmap.c`).
State: `map4_list` sorted by prefix length, `map6_list`, the cache (two hash
tables over entries from a fixed `cache_pool`), `map_mutex`, `cache_mutex`.
Operations: `map_ip4_to_ip6`, `map_ip6_to_ip4` (any worker, or the main thread),
`addrmap_maint` (age the cache), `addrmap_reload` (SIGHUP), `cache_insert`,
`report_ageout`.
Hard: lookups probe the cache under one lock, then read the tables under the
other, then fill the cache; reloads and maintenance come in between.
Correct if: the cache never answers what the tables would not; the lists never
hold overlapping entries; a reload is a transaction.

**Dynamic pool** (`src/dynamic.c`).
State: per lease a host, a last use and a pointer to its cache entry;
`free_list` (runs of free addresses), `mapped_list`, `dormant_list`.
Operations: `assign_dynamic` (from a lookup), `dynamic_maint` (age, free).
Hard: the true last use is in the cache entry while there is one; exhaustion;
reactivation; a list that must stay sorted; runs cut and merged in any order.
Correct if: one lease per host, never taken from a host in use, taken over only
when nothing is free and then the longest idle, and an idle lease is released.

**Lease database** (`src/dynamic.c`, `dynamic.map`).
State: the file, `map_write_pending`, `last_map_write`.
Operations: the snapshot and write at the end of `dynamic_maint`, `load_dynamic`.
Hard: lookups go on during the write; a write fails; the daemon dies anywhere;
`tayga.conf` or the clock changed before the next start.
Correct if: no assignment is forgotten, the file is always whole, a restart
brings every lease back.

**Main loop and signals** (`src/tayga.c`).
State: `now`, `g_shutdown`, the times of the last passes.
Operations: event loop, SIGHUP, SIGUSR2, SIGTERM, worker start gate, shutdown.
Hard: the order of last save, shutdown flag and join; failures before the gate
opens; a descriptor that fails while others run. Correct if: workers run only
after set-up commits; start and shutdown end and lose nothing.

**Configuration and map-file parser** (`src/conffile.c`, `src/addrmap.c`).
State: the mappings, with origin and line. Correct if: no conflicting pair is
accepted, and a file that does not parse changes nothing.

**Translator** (`src/nat64.c`).
State: the IPv4 identification counter, shared by all workers. Operations:
`tun_process_frame` and the handlers under it.
Hard: a decision about the MTU that shows as a loss hops away; fragments of
fragments; an ICMP error that must come back to the right host and mean the same.
Correct if: everything a host sends arrives or the host learns why not; fragments
come together as they were; nobody learns an MTU smaller than the path's.

**Segmentation offload** (`src/gso.c`).
State: none of its own, besides ranges of the identification counter.
Hard: the segments are cut by the kernel, after tayga has chosen one header, one
limit and one range of identifications for all of them.
Correct if: an aggregate is treated as its segments would be.

**Software flow dispatch** (`src/experimental_io.c`, `src/flow_dispatch.h`).
State: a pool of frames, a queue and an event counter per worker, a table of
fragmented datagrams, the worker of each flow. Operations: `dispatch_submit`,
`dispatch_take`, `dispatch_wait`, `dispatch_release`, `dispatch_expire`,
`dispatch_stop`, `dispatch_destroy`.
Hard: fragments before their first; a full pool; expiry; shutdown with frames in
flight; a wake-up that comes before the sleep. Correct if: a frame has one owner
and always comes back, one flow's packets stay in order, no worker sleeps over work.

**Asynchronous TUN transmit** (`src/experimental_io.c`,
`src/packet_io_lifetime.h`).
State: per worker a ring of frames, the queue of those to be written, at most one
write given to the kernel. Operations: `async_tun_init`, `_submit`, `_service`,
`_finish`, `_destroy`.
Hard: a submission reported as failed that the kernel took; a completion after the
deadline; storage the kernel may still read. Correct if: the kernel never reads a
frame that was reused or freed, packets of a worker stay in order, each is counted
once.

**Statistics and telemetry** (`src/stats.c`, `src/stats_exporter.c`).
State: per-thread and global counters, a request generation, acknowledgements,
the export lock. Hard: an exporter waiting for workers that exit; the main loop
and the exporter waiting for each other; late acknowledgements.
Correct if: a synchronised snapshot misses nothing counted before it was asked
for; nobody needs the 100 ms deadline to go on; the last status is exact.

**TUN device setup** (`src/tun.c`, `src/netlink_io.h`).
State: the device, its queues and offload mask, the transaction: saved addresses,
routes and flags and what was done so far; the lock file. Operations: `tun_setup`,
commit, abort, `--mktun`, `--rmtun`.
Hard: taking the interface down loses routes and addresses; every request may fail
or take effect unconfirmed; another process waits. Correct if: a failed set-up
leaves what was there, a successful one keeps it and adds its own.

**TUN packet I/O** (`src/tun.c`, `src/tayga.c`): reads and writes as they show to
the parts above: a packet, no packet, a write that is lost, a descriptor that fails.

Left aside: queue steering (emits a BPF program), the PREF64 discovery helper (a
program of its own), logging, installers, packages, containers, tests and release
tooling.

How they interact: the translator calls the mapper for each packet, on as many
threads as there are workers. The mapper calls the pool when a host is unknown.
The main thread runs the maintenance passes of cache and pool, the reload and
the save, sharing only the two locks, the clock `now` and the shutdown flag with
the workers. Workers, main loop and exporter meet in the statistics handshake.
With `--dispatch=flows` the main thread reads and the dispatcher's frames carry
packets to the workers; each worker writes its own, at once or through its ring.
Start, gate and end of the process decide when any of these may run or be freed.
`PROJECT.json` lists the hazards, each at the line where it bites.

## 2. Modules

| Module | What it is | Code |
|---|---|---|
| `LeaseTable` | what the pool promises: free, mapped, dormant leases and how they move | abstract specification |
| `AddrMap` | tables, cache and leases with the interleavings of all threads | `addrmap.c`, lease states of `dynamic.c` |
| `DynPool` | free runs, the two lists, the search, the ageing pass | `dynamic.c:26-185, 369-399` |
| `DynDatabase` | `DynPool` with snapshot, write, signals, crash and load | `dynamic.c:187-439`, `tayga.c` |
| `StatsSync` | counting, flushes, the synchronised snapshot, the status file, shutdown of the threads | `stats.c`, `stats_exporter.c`, `tayga.c` |
| `PacketFrame` | the table of frame states and who may move a frame on | `packet_io_lifetime.h` |
| `FlowDispatch` | the dispatcher's operations | `experimental_io.c`, `flow_dispatch.h` |
| `OrderedLink` | what a flow sees: loss, but no duplicates and no reordering | abstract specification |
| `DataPath` | `FlowDispatch` with the loops of the main thread and the workers | `tayga.c` |
| `AsyncTun` | one transmit context per worker and the kernel that answers | `experimental_io.c` |
| `TunSetup` | the set-up transaction, for several processes | `tun.c`, `netlink_io.h` |
| `Lifecycle` | `TunSetup` and `AsyncTun` in the life of the daemon | `tayga.c` |
| `Translator` | what becomes of one packet | `nat64.c` |
| `Segmentation` | what becomes of an aggregate | `gso.c` |
| `PathMtu` | `Segmentation` between two hosts, links and routers | the environment |
| `AddrMapProofs`, `DynPoolProofs`, `AsyncTunProofs`, `LifecycleProofs`, `DataPathProofs`, `StatsSyncProofs`, `PathMtuProofs` | theorems and their lemmas | |
| `SequenceLemmas` | lemmas about sequences, folds and least elements for the proofs | |
| `MCAddrMap`, `MCDynPool`, `MCDynDatabase`, `MCStatsSync`, `MCDataPath`, `MCLifecycle`, `MCPathMtu` | values of the constants for TLC | |

`AddrMap` and `DynPool` look at one pool from two sides and both implement
`LeaseTable`: `AddrMap` has the threads, locks and cache, and leaves open which
free address is assigned; `DynPool` has the lists and the search, with each
operation as one step, which is what `map_mutex` makes of it.

### AddrMap

| State | Code |
|---|---|
| `now` | `now`, stored by the main loop |
| `fileMaps` | entries of `MAP_ORIGIN_MAPFILE` in both lists |
| `lease` | `struct map_dynamic`: list, `map6.addr`, `last_use`, `cache_entry` |
| `linked4` | leases whose `map4` is in `map4_list` (`insert_map4` may refuse it) |
| `cache` | the entries of `cache_pool` |
| `mapLock` | holder of `map_mutex` |
| `pc`, `job` | a lookup between its probe, its resolution and its publication |
| `touched` | history: the last packet of each lease |

A lookup is three steps, for that is where the code lets others in: `Probe4/6`
(under `cache_mutex`), `Resolve4/6` (takes `map_mutex`; `Forward` and `Backward`
are the switches over the entry's type, `Assign` is `assign_dynamic`), `Publish`
(`cache_insert` under both). `map_mutex` is a variable since it is held from
`Resolve` to `Publish`; `cache_mutex` is innermost and nothing waits under it,
so each section under it is a step. `AgeCache`, `AgePool`, `Reload` and `Tick`
are the main thread's.

Addresses are model values; a mapping is its two ranges and its conversion
functions. Hash chains are sets. The configuration has a pool or a map-file:
without either `maps_immutable` is set and lookups read tables nobody writes.

### DynPool and DynDatabase

Addresses are host parts `0..N-1` of the pool's prefix. `free` is `free_list`
with `free_head` first; `Split` and `Merge` are what assignment and release do
to a run; `Search` is the pair of passes over the circle, `FiledBy` the insertion
of `move_to_dormant`, `Age` the first half of `dynamic_maint`. The IPv6 hash is
the constant `Home`. Of the cache, `entry` keeps each lease's last use there.

`DynDatabase` adds the rest of `dynamic_maint`: `Maint` ages and takes the rows
in one critical section, `WriteDone` or `WriteFails` ends the write, and lookups
run between them. The clock does not: the main thread, which writes, sets it.
`StopSignal` is SIGTERM's save, `Exit` the end of `main` when the workers have
been joined, `Crash` an end at any other point. `Start` chooses any of the
configurations and clock readings and runs `load_map` on every row (`LoadRow`).
A data directory is configured: without one nothing is read or written. The text
of the file and malformed lines are not modelled.

### StatsSync

Threads are named by their `slot_idx`: main loop 0, workers 1 to `W`, telemetry
thread -1. `priv`, `batch` and `pub` are one counter per slot for all of
`struct worker_priv_stats` and `worker_pub_stats`; `req`, `ack`, `active` and
`registered` are the globals of the handshake, `lock` the export mutex, `status`
the file.

`pc` gives every atomic load or store another thread can come between a step of
its own: in `stats_check_sync_request` load, flush, acknowledge; in
`stats_sync_slots` the two loads of targets, the new generation, the caller's own
flush and acknowledgement, the wait. The whole of a flush, of the scan of the
active flags, of a pass of the waiting loop and of the reading of the counters are
single steps, as what they read only ever moves one way. Every caller is there:
`telemetry_start`, SIGUSR2 (three synchronisations), the telemetry thread,
the final dump and the final status. `Deadline` may come at any time in a wait, and
the temporary file may fail to open or to be renamed. Left out: the signals that
wake idle threads (they only save time), the JSON text and the path of the file.

### FlowDispatch and DataPath

| State | Code |
|---|---|
| `frameState`, `frameHolds`, `freeSlots` | `packet_pool`: states, packets, the stack of free slots |
| `queues`, `wake` | the ring of each worker, its eventfd |
| `flowQueue`, `nextQueue` | `flow_queues`, the round robin |
| `fragments` | the fragment table: datagram, worker, held frames, deadline |
| `stop`, `clock`, `lastExpire`, `drops` | the fields of those names |
| `pc`, `taken`, `shutdown`, `ended` | the worker loops, `g_shutdown`, the end of `main` |
| `arrived`, `processed`, `delivered` | history and the packet counters |

Every operation takes `dispatch.lock`, so it is one action; `Turn`, `Woken`, `Process`
and `Leave` are the points where a worker comes back for it. Reading the event
counter is apart from the look into the queue, as `dispatch_wait` is from
`dispatch_take`. A packet is a record of what `flow_parse` extracts, hashes are
constant functions, and one event counter signal stands for any number of them.
`PacketFrame` leaves out generations and pool identities: no caller keeps a token
beyond the frame's life.

### AsyncTun, TunSetup and Lifecycle

`ring[w]` is a context of `async_tun`; what a call does to it is a function of it
(`Serviced`, `Submitted`, ...), and `wire` is what the device has taken. The kernel is
`KernelWrites`, with one of the `Results`; a submission may be taken, refused, or
taken although reported as failed.

`tun[p]` is the transaction of a process: its `stage` is the point in `tun_setup`, and
each stage is one request, with its failure and its lost answer. `net` is the network
interface and the routes, `lock` the lock file, `before` the network when `p` got the
lock. The kernel takes routes (and perhaps IPv6 addresses) away with an interface that
goes down, and the interface with the last descriptor unless it persists. A daemon,
`--mktun` and `--rmtun` are modes of a process.

`main` is the point in `main()`, `gate` the start gate, `pc` the workers' points. The
failure paths (`startup_failed`, a worker that cannot be created, chroot, commit) are
`main = "failed"`, then `CloseGate`, the join of the workers that exist, the end of
the contexts and the abort of the transaction, in the code's order. `Kill` may come at
any point.

### Translator, Segmentation and PathMtu

`Translate` maps a packet to its `Effect`: the packets written, in order, and how many
identifications were reserved. Below it there is one operator per handler, in the
order of the code's checks (`FirstOf`): answers of tayga itself, mappings, hop limits,
sizes, fragmentation, errors with the packet they quote. `Segmentation` adds aggregates:
limits, the split of a short tail, software segmentation, and `KernelSegments`, what
the kernel will make of one. Lengths are bytes of payload, an address is a node, a
payload is a range of bytes of a flow, the identification counter wraps at 16 bits.

`PathMtu` gives them something to be right about: hosts that send packets, segments,
aggregates or fragments and believe errors, a link behind each side, routers that
fragment, answer, or answer without a size, as many workers as wanted, writes that
fail. Hosts, links and routers are the environment, mapped as external.

## 3. Runs

| Run | Question | Bounds | States |
|---|---|---|---|
| `addrmap` | Do cache, tables and leases agree with a worker and the main thread looking up while the main thread ages and reloads? | 2 threads, 2 cache entries, 2 leasable addresses, 3 map-files, clock to 2 | 213,865 |
| `addrmap_pool` | Are leases exclusive and protected, is `LeaseTable` implemented and an idle lease released, when three clients compete for two addresses and one cache entry? | clock to 2: leases rest at different ages and expire | 98,748 |
| `addrmap_all_or_nothing`, `addrmap_inside_host` | violations, see section 6 | | |
| `dyn_pool` | Are runs, search, passes and takeovers right, and `LeaseTable` implemented, when hosts outnumber addresses? | 4 hosts, 4 addresses of which tayga.conf overrides 2, clock to 6 | 57,746 |
| `dyn_database` | Is no assignment forgotten, is the file whole, do leases come back and reach the file, through failures, crashes and restarts? | 2 addresses, 2 hosts, 3 configurations, 2 clock readings at start, any number of restarts | 56,195 |
| `dyn_database_stop` | violation, see section 6 | | |
| `stats_sync` | Do synchronised snapshots and the last status miss nothing, can an old snapshot replace a newer one, and can main loop, worker and telemetry thread wait for each other? | one worker (2 packets, a batch of 2), the main loop (1), one SIGUSR2, one export, any two of these | 168,647 |
| `data_path` | Has every frame one owner, is every packet counted once, does a datagram stay together, does a flow stay in order, does nobody sleep over work? | 2 workers, 2 frames, 3 packets of 5 kinds, one fragment cell, clock to 1 | 286,927 |
| `lifecycle` | Is set-up a transaction of every process that lives to end it, does the kernel only read what is alive, are writes ordered and counted, do start and stop end? | a daemon with 2 workers (2 packets on one), an administrator with `--mktun` or `--rmtun`, 4 networks, 2 frames | 187,884 |
| `lifecycle_frees_twice` | violation, see section 6 | | |
| `path_mtu` | Does everything arrive or its source learn why not, with estimates the path justifies, and are fragments, segments and errors what they should be? | 1 or 2 flows, link sizes 68 to 65535, every ICMP error, one lost write, one refusal | 40,743 |

Why the bounds are enough to be interesting: two threads already give each pair
of critical sections every order, and a third would wait for the same lock; two
cache entries allow a full `cache_pool` and an entry for another pair; two
addresses with three or four hosts reach exhaustion, reactivation and takeover;
the clock passes minimum and maximum lease with a second to spare. The
overrides of `dyn_pool` lie before and between its usable addresses, and the
hosts start their search at an override, a usable address, the last address and
the reserved one. The
database's file can be empty, hold either lease or both, be older than the
lists or newer than the clock. In `StatsSync` a
worker can be asked by two callers at once, late for either, and gone for both;
the telemetry thread exports at any point of the main thread's life, before,
during and after shutdown included. `MaxEvents` keeps the run to two packets, reports or
exports: a packet with either of the others, or the two writers of the status file
together. In `data_path` three packets are enough for a
datagram whose first fragment comes before, between or after the others, twice or too
late, with another flow's packet in between; two frames are fewer than packets, so the
pool runs dry and held fragments meet the reserve. In `lifecycle` the networks are: no
device, a device that is up with addresses and an administrator's route, one whose route
is elsewhere, one that is down; one of the queues takes fewer offloads; two frames
with two packets fill a context, queue behind an outstanding write, and lap it.
`path_mtu` chooses its scenarios at the boundaries: 68, 576, 1259 and 1280 bytes,
silent routers, an identification counter about to wrap, aggregates that do not add up
to an IPv4 packet, aggregates to and from addresses that are refused or dropped or that may
go no hop further, every type and code of error that the RFCs name. Symmetry is used for cache entries only, and not
in the liveness or refinement runs. No run switches the deadlock check off.

Each property has a mutant: a named operator beside the real one that makes a
mistake the code might have made (`Merge_OffByOne`, `Report_ForgetsLastUse`, ...)
and under which TLC finds the property violated.

Some properties say the most. `CacheCoherent`: whatever pair the cache holds, the
tables would answer the same in both directions, through reloads and leases that
change hands. `ImplementsLeaseTable`: `AddrMap` with its interleavings and
`DynPool` with its lists each do only what the six actions of `LeaseTable` do. In
`DynPool` the refinement mapping takes a lease's last use from its cache entry
when there is one, so it shows that a lease never rests, expires or moves on while
packets still use it through the cache. `ImplementsOrderedLink`: whatever the table of
datagrams, the buckets and the queues do, a flow's packets leave in the order they came.
`SetupIsTransaction`: what a failed set-up leaves is what was there, at each of its
failures, for every process that lives to take it back (a daemon may die before it does,
see section 6). `DeliveredInTheEnd` and `LikePackets`: no size is lost between the
MTU arithmetic of headers, fragments, aggregates and errors.

## 4. Fairness

`AddrMap!Fairness`: a thread that wants `map_mutex` gets it (strong fairness of
`Resolve`, as of a pthread mutex that others keep releasing), a lookup that holds
it finishes, and the main loop runs `addrmap_maint` and `dynamic_maint` for ever:
its poll has a timeout and both passes are paced by the clock only. Packets are
not assumed to come.

`DynDatabase!DbFairness`: the main loop comes back to `dynamic_maint`; a snapshot
whose memory is not there, or a write that fails, is tried again and works in the
end. Without the last assumption (a disk that stays full) no lease need ever be
saved. No signal is assumed to come.

`StatsSync!Fairness`: a thread with a step to take takes it: packet loops come back
to `stats_check_sync_request` since their polls have timeouts, and pthreads are
scheduled. `Deadline` is possible but not fair: what the liveness properties promise
does not rest on it. Nor do packets, signals or intervals have to come.

`Lifecycle!Fairness`: the main thread and the workers run, and `async_tun_finish` gives
up after three seconds (`LeaveDrain` needs nothing of the kernel). No packet, signal
or completion is assumed to come; `EndsInTheEnd` holds with a kernel that never answers.

`PathMtu!Fairness`: hosts go on sending what did not arrive, receivers give up
incomplete datagrams, workers take and write. Losses are bounded by `MaxLoss`: over a
link that loses everything nothing arrives.

## 5. Proofs

The theorems hold for every value of the constants that the assumptions allow: any
number of workers, frames, packets, addresses, reports and seconds.

**Address mapper.** `AddrMapProofs` proves of `Spec`, for every configuration allowed by the
assumptions, and any number of threads, cache entries, addresses and seconds:

- `TypeCorrect`: `[]TypeOK`;
- `OneLeasePerHost`: `[]OneLease`;
- `TablesStayDisjoint`: `[]TablesDisjoint`.

None of them is inductive. The invariant is `IInv`, the conjunction of
`TypeOK`; `LockHeld` (`map_mutex` is held by exactly the thread about to publish);
`JobsOK` (what a lookup remembers from its earlier steps is still true when it is
used, above all that a publishing lookup's lease still belongs to the host, for
nobody else could change it without the lock); `LeasesOK` (a lease has a host
unless free, and only mapped leases are linked); `OneLease`; `TablesDisjoint`.
`OneLease` needs `Resolve6` to look the host up again under the lock; `TablesDisjoint`
needs `Conflicts` to see leases as well as `tayga.conf`. There is one lemma per
group of actions, and lemmas about `Find4`, `Find6`, `Forward`, `Backward`.

It goes on to what cache and leases know of each other, under two
conditions on the configuration: no map-file has a /32 for a leasable address
(`FilesLeaveLeases`, the case of the finding `addrmap_inside_host`), and a mapping
yields IPv6 addresses of its own range or of one in `tayga.conf` (`Embedding`; a
generated `local_addr6` is such an address). The configurations of `addrmap` and
`addrmap_pool` satisfy both.

- `LeaseTrackedAlways`, `LastUseKnownAlways`, `RoundTripAlways`: the three invariants;
- `LeaseProtectedAlways`: the action property `LeaseProtected`;
- `LeaseTableImplemented`: `Spec => ImplementsLeaseTable`, step by step: a lookup
  leaves the table alone, refreshes, gives or returns; an eviction brings last uses up
  to date; a pass rests and frees; a reload stutters or evicts.

Their invariant `LeaseInv` adds to `IInv`: `Linked` and `Unclaimed` (`insert_map4` has
refused no lease and will refuse none that comes back), `Singles` (no pair is cached
twice, so a lease's entry is *the* entry of its pair), `StaticPairs` (a pair that
reports to no lease belongs to a static mapping, in the cache or on its way there),
`Past`, and `Recent`: the entry has the later use, except while a lookup that has
refreshed the lease is about to publish. An age-out may therefore overwrite the
lease's last use with the entry's and loses nothing.

It ends with `CacheCoherentAlways`: `[]CacheCoherent`, when map-files stay
outside the pool or cover all of it and `tayga.conf` has no second entry with the pool's
range (`PoolApart`), and when the conversions that `cache_pair` lets into the cache pair
the addresses of two ranges one to one (`OneToOne`). The second leaves out `tayga.conf`
without `ipv6-addr`, whose generated address is in no range of its own. `CacheInv` adds
`Promised` (what a lookup is about to publish is still what the tables answer), `Bare`
and `Apart` (nothing more specific than the pool covers an address that has been leased,
so no static pair of it is cached when it is leased again). A step either leaves all
answers alone (`QuietStep`) or is one of three: an address is given, whose pair nobody
can have cached; a pass moves leases without an entry, hence without a cached pair by
`StaticPairs` and `LeaseTracked`; a reload empties the cache.

Assumed (and evaluated by TLC in each run): the names are distinct, the constants
have their types, CIDR ranges nest (`Nesting`), and neither `tayga.conf` nor a
map-file contradicts itself (`Loaded`): the parser and the staging loop reject such.

**The set-up transaction.** `LifecycleProofs` also proves `SetupIsTransaction`, the action
property, of the whole process. It speaks of the failures whose undo runs (`Undoes`): those
of `tun_setup`, and those of `main` unless the daemon dies on the way, which is a finding. What a set-up has done cannot be read off the network: an
unconfirmed request may or may not have taken effect, and a link that went down may have
lost its addresses. So `TxInv` does not say what the network is but what it can be: for the
process that holds the lock (`Held`), the network is `Loose`, that is, what is there and was
not before is in the log of inverse requests, and what was before and is not there is in
what was saved. That alone makes `tun_setup_abort` bring everything back (`AbortsBack`),
from every stage; a route that is not saved must not need it, which is why routes of the
daemon are only at destinations of `tayga.conf` (`Legal`), even those a killed daemon left
behind. The stages on the way know more (`Lowered`, `Extended`), so that the daemon's network
is exactly `Wanted` at the end. A process without the lock has nothing to take back
(`Apart`), and whoever ends or is killed leaves a `Settled` network to the next. The inverse
requests are replayed newest first, any number of them (`RolledBack`, by `Iterates`).
Assumed in `SetupAssumption`: at first the network is `Settled`, that is, a device nobody has
open persists, one that does not exist has nothing, one that is down has no routes. TLC
checked `TxInv` on the instance of `lifecycle` before it was proved.

**Asynchronous writes.** `LifecycleProofs` proves `[]KernelOwnsFrame`, `[]WireInOrder`
and `[]PacketsCounted` of the whole process. `IInv` says of each context (`Good`) that it
has its types; that a frame the kernel has or has answered is the one outstanding write
and submitted, and a queued frame is queued once (`Owned`); and that the packet with
the kernel was accepted after all that is written and before all that is queued, in
queue order (`Ordered`). `InSetup` adds that no storage is alive before
`async_tun_init`, which may therefore free and allocate as it likes. The counters need
`CInv` on top: every waiting frame is in the queue (`Filed`), what was accepted is
written, failed or in a frame not counted yet (`Tallied`, by cardinalities), and no
frame of a running thread is counted (`Open`); that the last of these holds whenever a
thread writes follows from the gate. `AsyncTunProofs` has one lemma for each call on a
context, so `LifecycleProofs` only follows the calls. Assumed: `AsyncAssumption`,
`LifecycleAssumption`, `SetupAssumption`.

**Dynamic pool.** `DynPoolProofs` proves of `DynPool`'s `Spec`, for a pool of any size,
any number of hosts and any lease times:

- `PoolTypesAlways`, `RunsPartitionAlways`, `SearchIsCircularAlways`: the invariants;
- `PassCompleteAlways`: the action property `PassComplete`;
- `PoolIsLeaseTable`: `Spec => ImplementsLeaseTable`, step by step.

The invariant `PoolInv` describes the data structure. `Chain`: the runs follow one
another, each starts with its lease and ends where the next starts, so every address
is in one run and every lease heads one (`Split` and `Merge` keep this, and two runs
of one lease would break it). `ListsApart`: a lease is in one of the lists, once.
`Holders`: leases and hosts belong to each other one to one. `Clocks`: nothing was used
in the future, and only a mapped lease has a cache entry, which is no older.
`Descending`: the dormant list goes from the latest use to the earliest. The ageing
pass needs it: it stops at the first dormant lease that is young enough, and frees
*all* that are too old only because none of those follows it. `FiledBy` keeps the list
so although it looks for the place from the old end. A pass, a reload and a filing are
folds over the lists; `ThoseKeeps`, `FiledKeeps` and `FreedKeeps` say what
they reach from what one step does, for lists of any length.

The same module proves of `DynDatabase`'s `DbSpec`, with all crashes, failed writes and
restarts:

- `SavedOrPendingAlways`: a lease that no file knows is remembered as pending;
- `DatabaseConsistentAlways`: the file never gives an address or a host twice;
- `RestartKeepsLeasesAlways`: the action property `RestartKeepsLeases`;
- `LoadedPoolAlways`: the invariants of the pool, when leases come from a file as well.

`DbInv` is `PoolInv`, which `load_map` establishes row by row; that the file and the rows
being written are databases (the latter since an unsaved snapshot becomes the file later);
`SavedOrPending`; and that a dead daemon has no rows, entries or pending change.
That `RestartKeepsLeases` holds needs more than `Database(file)`: that loading a row
leaves the leases of the rows before it where they are.

Assumed: `Sizes`, `Names`, `Delay`, `NoRowsApart` (constants have their types, a name for
"none" names nothing else) and `AfterEpoch`: the clock at a start is past the shortest
lease, as it is on any machine whose clock has been set (`PROJECT.json` has the hazard).

**Dispatch.** `DataPathProofs` proves of `DataPath`'s `Spec`, for any number of workers,
frames, packets and buckets:

- `DataPathTypes`, `FrameOwnedOnceAlways`, `EveryPacketOnceAlways`, `DatagramTogetherAlways`,
  `NoLostWakeupAlways`: the invariants;
- `DataPathIsOrderedLink`: `Spec => ImplementsOrderedLink`: the pool of workers loses
  packets but neither repeats nor reorders those of a flow.

`NoLostWakeup` is inductive with the shapes of the arrays (`WakeInv`): only its worker
empties a queue and only it goes to sleep, and it does so when the queue was empty under
the lock. The others rest on `DispatchInv`:

- `Owned`: the state of a frame says where it is (free stack, one queue, one worker, one
  chain of a fragment cell) and it is there once. This is `packet_frame_transition` seen
  from the containers, and every other part needs it: a frame taken out is nowhere else.
- `Reserved`: fragments that wait leave `Reserve` frames to the others.
- `Numbering`: frames hold packets that arrived, each a number of its own, none of a flow
  that is past it.
- `Counted` and `AtEnd`: a packet that arrived is dropped, processed or in a frame in use;
  at the end no frame is.
- `Together`: a held fragment is in the cell of its datagram; of a fragment that is queued
  or with a worker, the cell is still its datagram's and names that worker.
- `Ordered`: what a worker has or will take of a flow is in the order of arrival, in the
  bucket of the flow, whose worker does not change while anything of it is queued. With
  one worker per bucket a delivery can only move the flow on: this is the step of the
  refinement.

Assumed: `DispatchAssumption` (sizes; the reserve is no larger than the pool),
`HashAssumption` (a hash yields an index of its table), `NullAssumption`.

**Path MTU.** `PathMtuProofs` proves of `PathMtu`'s `Spec`, for any MTUs, links, flows,
payloads and number of workers, and for any packets and errors in the device's queue at
first:

- `EstimateJustifiedAlways`: `[]EstimateJustified`;
- `ErrorsKeepMeaningAlways`: `[]ErrorsKeepMeaning`;
- `AllInPlaceAlways`: `[]AllInPlace`, the first part of `ReassembledRight`;
- `LikePacketsAlways`: `[]LikePackets`.

The first follows an MTU around the whole loop, so the invariant `PathInv` says what may be
under way at each place. `Asked`: what waits at the device is a packet of its host's
version, or an error from the far side that is `Honest`, which quotes a packet in the far
side's version. `Made`: what tayga is about to write is a packet of the other version, or an
error that is `Told`: its MTU is no less than what a path of that version carries. `Flowing`:
no estimate is below `Carried`; it is therefore large enough that segments and fragments are
not empty. `GoodTranslate` is the step from `Asked` to `Made`: one lemma for each handler of
`Translator` and `Segmentation` says of all that it writes that it is `Made` and `Keeps` what
an error says. A router that names no MTU is where it could fail: `EstMtuIs` shows that the
plateau below the size of the packet it refused is no lower than the one below its link.
`Meaning46` and `Meaning64` go through the tables of types, codes and pointers.

`AllInPlace` says that every packet in the network lies where it says in the transport packet
whose part it is: fragments at multiples of 8 bytes, none past the end, only the last one
reaching it. Fragments of fragments and of segments cut by the kernel are where it could
fail; `PathInv` says the same of what waits at the device and of what is about to be
written, and each of the three fragmentations keeps it.

**Aggregates.** `LikePacketsAlways` compares two ways through the code: segments that come
one by one go through `xlate_4to6_data` or `xlate_6to4_data`, the aggregate through
`gso_translate_*`, which chooses one header, one limit and one way of cutting for all of
them, and then perhaps through the kernel's segmentation. The proof follows both up to what
is in the middle. `Arrived(p, i, x)` says that `x` is the i-th segment of `p` beyond tayga,
whatever its identification; `ArrivedSame`, that it is then determined.

- *Cutting.* `GridIs` and `WidthIs` do the division: segment `i` starts at `(i - 1) * gso`,
  all but the last are full, the last one is what is left. `SegmentsCut` and `KernelCut`: the
  kernel, `Cut` and the pieces of a split make the same segments.
- *One by one.* `SegmentApart`: a segment is dropped, refused with one error or `Arrived`, and
  which of these depends on the addresses, the hop limit and the size of the first segment.
- *At once.* `Whole46Arrives`, `Software46Arrives`, `Whole64Arrives`, `Software64Arrives` and
  `Split64Arrives`: each way of writing an aggregate yields all its segments. `Whole64Arrives`
  needs that they get the same DF (`SameHeader`), which fails exactly if `Mixed`; then
  `Split64` writes the last one apart, and `FullIs` says where it starts. `Tcp46AtOnce` to
  `Udp64AtOnce` put the handlers together from their checks; on the
  way it turns out that the length check of `gso.c:1341` never decides anything.

If the segments pass, then the aggregate becomes the same packets in the same order. If they
are answered by errors, the aggregate is answered by one. If they are dropped without an
answer, no part of it passes, but it may be answered: sizes and hop limits are looked at
before addresses. What is compared leaves out identifications, which differ, and IPv4
aggregates without DF that are larger than a fragment (`Comparable`, see section 6).

Assumed: `ScenarioAssumption`. The kernel hands over aggregates that are `WellFormed`: whole
TCP or UDP packets whose segments fit an IP packet, for UDP with their header too, and with
at most 128 of them (`gso.c:237`, Linux's `UDP_MAX_SEGMENTS`); what is not `Unfit` for tayga. No MTU exceeds 65535, and no packet is sent with
hop limit 0. `tun_setup` (`tun.c:756`) and the parser
(`conffile.c:680, 1114`) refuse an MTU or an `ipv6-offlink-mtu` below 1280; links carry what
IP requires of them (68 and 1280 bytes); routers and hosts of the far side answer about
packets that do not fit with the MTU of their link, with 0 or with another error, but not with
a Packet Too Big or Fragmentation Needed that is invented; what is in the queue at first
belongs to none of the flows.

`SequenceLemmas` has the induction these proofs need. The library's induction theorems
take an operator, which the provers cannot instantiate; `NatSet` says instead that a *set*
of numbers with 0 and with every successor is `Nat`, and `Iterates` that a sequence of
states each made from the one before keeps what each step keeps. What the folds of the
models do to sequences of any length is proved with these two.

**Statistics.** `StatsSyncProofs` proves `[]SyncedSeesCounted`, `[]StoppedIsExact` and the
action property `StatusMovesOn`. The first rests on `SInv`: for each slot, what is
published is no more than counted, and all of it once its thread has ended; for each
pair of a waiting caller and a slot (`PairInv`), why the caller may go on: the slot was
not a target and had ended, or an acknowledgement of the caller's generation or a
later one implies a flush after the caller fixed what it needs, even when the slot's
thread loaded the request before another caller raised it. `EInv` adds who is left at
the end of `main`, so that after the last join and flush everything is published;
`LInv` that one writer at a time holds the export lock and that its number and its
counters are no lower than the file's. Assumed: `Workers64`.

Only model-checked: liveness (out of the prover's reach: `EndsInTheEnd` and its like); and
the second part of `ReassembledRight`, that fragments taken for parts of one datagram are
parts of one datagram. It is no theorem: 16-bit identifications come round when enough
packets are under way, and a host may choose one that meets another flow's, so it holds within
the bounds of the run.

Not checked either: that `cache_mutex` is taken last everywhere, since what it guards is one
step of its holder in `AddrMap`; the hash that gives a host its first address (`Home`); the
order of the later fragments of a datagram among themselves, which `ImplementsOrderedLink`
knows as packets of no flow.

## 6. Findings

- `addrmap_all_or_nothing` (`addrmap.c:966`): the manual promises that a map-file in
  conflict with an active lease or a retained entry is rejected as a whole; the code
  skips the entry and publishes the others.
- `addrmap_inside_host` (`dynamic.c:122`): a map-file /32 installed over a dormant
  lease's address. When the host returns the lease is reactivated, `insert_map4`
  refuses its entry unnoticed, and the two directions disagree.
- `dyn_database_stop` (`tayga.c:167`): SIGTERM saves the leases before it stops the
  workers; what they assign meanwhile is lost although the save succeeds.
- `lifecycle_frees_twice` (`experimental_io.c:204`): set-up is documented as a
  transaction. When `async_tun_init` fails at a later context it frees the storage of the
  earlier ones without clearing the pointers, and `startup_failed` destroys them once more,
  before `tun_setup_abort`. `FreesTwice` makes it an abort of the process at that point: a
  route that set-up replaced does not come back (`FailedStartUndone`).

`AddrMap` and `MCAddrMap` keep map-files that stay outside the pool apart from those
that do not: the properties of `addrmap` hold for the first kind.

Observations made on the way, modelled as the code has them:

- `experimental_io.c:101, 159`: held fragments stay in their frames until
  `dispatch_destroy` when their first fragment found no frame and another one then
  contradicts it: expiry passes over cells that are marked dead already.
- `experimental_io.c:162`: a cell of the fragment table whose datagram expired is never
  used again, so later datagrams that hash there are dropped and counted. No property is
  about it.
- The offload mask of a persistent device is not restored by an abort.
- `gso.c:627`: segments of an IPv4 aggregate without DF are neither fragmented nor
  checked against the MTU, packets of the same size are (`Comparable` leaves them out
  of `LikePackets`).
- `nat64.c:1092`: fragments that are translated keep the low 16 bits of their source's
  identification, which may meet one from the counter between the same hosts with the same
  protocol; the run keeps them in different protocols.
- Aggregates are checked for size and hop limit before the destination is looked at,
  packets after.
- `gso_software_segment_and_send_4to6` for TCP has no caller but tests.

## 7. Not modelled, and what could follow

Left out of modelled parts. `Translator`: checksums, IPv4 options, IPv6 extension headers
with the routing-header error, packets too short to parse, the length of quotes.
`Segmentation`: the validation of virtio headers, checksum seeds. `TunSetup`: NAPI, the
steering program's attachment, the check of the device's MTU, routes the kernel derives
from addresses, anyone else who changes the interface meanwhile. `DynDatabase`: the text
of the file. `StatsSync`: the JSON text. Reads of the device with EINTR and short reads
show as no packet.

Not modelled: the parser of `tayga.conf` and of map-files (what it guarantees is
assumed by `AddrMap` as `Loaded` and `Nesting`); the queue steering program (a BPF
program, no state of the daemon); the PREF64 discovery helper (a program of its own);
logging; the shell and container tooling around the daemon; tests.

What could follow, by weight:

1. The staging and validation of map-files, as an algorithm against `Loaded`.
2. Under which bounds on packets under way identifications stay apart, as a theorem.
3. The retries of the PREF64 discovery helper.
