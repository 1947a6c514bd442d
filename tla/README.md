# A verification project for the 2.11BSD kernel

2.11BSD is a complete Unix for the PDP-11: a kernel (`src/sys`), its device
drivers, libraries and several hundred user programs. This project models the
parts of the kernel whose correctness depends on interleaving: the block buffer
cache, the resource maps, the callout table, sleeping, signals and swapping, the
text table, pipes and select, and the inode and name caches with the allocation
of inodes. It checks them with TLC on small instances, and proves the central
invariants of the buffer cache and of the callouts, and one refinement, with
TLAPS for all values of the constants.

`PROJECT.json` lists components, runs, mutants, hazards, findings and theorems,
and maps every definition to the lines it models.

## 1. Inventory

| Component | State | Operations | What is hard |
|---|---|---|---|
| Buffer cache (`sys/ufs_bio.c`, `h/buf.h`, `sys/ufs_dsort.c`) | buffers with flags and block name, hash chains, the LRU and AGE free lists, drive queues | `bread breada bwrite bawrite bdwrite brelse getblk geteblk getnewbuf biowait biodone blkflush bflush binval disksort` | processes sleep for busy or free buffers; `biodone` releases buffers at interrupt level; B_WANTED wakeups; delayed writes; stale searches |
| fsync and last close (`sys/ufs_subr.c`, `sys/sys_inode.c`) | position in the walk, `u.u_error` | `fsync syncip iupdat closei` | walks that sleep; errors over several transfers; a device reused while its writes are queued |
| Resource maps (`sys/subr_rmap.c`) | `coremap`, `swapmap`, `ub_map`, `freemem` | `malloc malloc3 mfree mapalloc mapfree expand` | coalescing, undoing half an allocation, overflow of the map, retries that sleep |
| Callouts (`sys/kern_clock.c`) | list of increments, free list | `timeout untimeout hardclock softclock` | overdue entries, ticks inside softclock, entries due when the CPU is at high priority |
| Sleep and scheduling (`sys/kern_synch.c`) | sleep queues, run queue, `p_stat`, `p_wchan`, `p_flag` | `tsleep sleep wakeup setrun unsleep endtsleep swtch` | stop, signal, time limit and wakeup racing |
| Signals and job control (`sys/kern_sig.c`, `sys/kern_exit.c`) | `p_sig`, `p_stat`, children | `psignal issignal stop postsig exit wait1` | a process stopped or killed in the middle of going to sleep; a parent that looks and then sleeps |
| Swapper (`sys/vm_sched.c`, `sys/vm_swap.c`) | SLOAD, SLOCK, `runout`, `runin` | `sched swapin swapout` | a victim chosen before, and unloaded after, interrupts; two sleeping flags |
| Text table (`sys/vm_text.c`) | texts, `x_count`, `x_ccount`, XLOCK, free list | `xalloc xfree xexpand xuntext xuncore xccdec xumount` | waiting for a lock on an entry that is no longer what it was |
| Pipes and select (`sys/sys_pipe.c`, `sys/sys_generic.c`) | pipe inode, IREAD and IWRITE, selectors | `readp writep pipe_select pipe_close select selwakeup` | three kinds of sleeper; interrupted and restarted writes; the offset and the size changed by two routines |
| Inode table (`sys/ufs_inode.c`) | inodes with flags and counts, hash chains, free list | `iget igrab iput irele iupdat` | a slot renamed while somebody waits for its lock; the last reference to an unlinked file |
| Name lookup (`sys/ufs_namei.c`, callers in `sys/ufs_syscalls.c`, `sys/vfs_vnops.c`) | name cache, directories | `namei direnter dirremove`, open, creat, unlink, close | a cache entry used after a sleep; errors half way through a creation |
| Inode allocation (`sys/ufs_alloc.c`) | `fs_inode`, `fs_ninode`, `fs_ilock`, `fs_lasti`, `fs_nbehind` | `ialloc ifree` | a scan that sleeps while inodes are freed and allocated |
| Block allocation, ttys, networking, drivers, user programs | see `PROJECT.json` | | |

How they interact. A process in the kernel is not preempted: it runs until it
sleeps. Interrupts run between any two of its instructions unless it has raised
the priority (`splbio`, `splclock`). The buffer cache and the maps block with
`sleep(chan)` and go on after `wakeup(chan)`. Drivers take requests through
`d_strategy` and hand them back through `biodone`. Raw transfers take UNIBUS
registers from `ub_map` and return them from `biodone`. `malloc` on `coremap`
calls the text table, which may sleep. `tsleep` uses `timeout`. The text table
and the pipes live in inodes and take their locks; the inode table reads and
writes through the buffer cache.

What makes each part correct:

* buffer cache: a buffer is free or has one owner; a block is in one buffer; a
  read sees every update; no update and no wakeup is lost; what is started ends;
* maps: every unit is in one place; abutting entries are joined; a refusal is
  justified;
* callouts: never early, in order, exact under cancellation, and in the end made;
* sleep: a process is on the run queue or on a sleep queue exactly when it should
  be; what ends a sleep is what it reports; nobody sleeps through what it waits for;
* text table: a process runs its own file's text; counts agree with the users;
* pipes: data arrive once and in order; whoever waits is woken when it can go on;
* inodes and names: a file has one slot, a slot one file; references are counted
  exactly; no file is lost or given out twice; a lookup returns its name's file.

## 2. Modules

| Module | What it is |
|---|---|
| `FreeLists` | linked queues as sequences: insert, unlink, head and tail |
| `BufferCache` | the buffer cache and its callers |
| `MCBufferCache`, `MCBufferCacheCalls` | instances; the second bounds the calls of each process, for liveness |
| `FreeLists_proofs`, `BufferCache_proofs` | the theorems on the buffers, their lists and owners |
| `BufferCacheCallers_proofs` | the theorems on the callers: sleeps, searches, fsync, last close, and the data |
| `Rmap`, `MCRmap`, `Rmap_proofs` | resource maps, their instance and the theorems on them |
| `Timers` | abstract: calls with the ticks left to each |
| `Callout`, `MCCallout`, `Callout_proofs` | the callout list, instance, invariants and refinement of `Timers` |
| `Synch`, `MCSynch`, `Synch_proofs` | sleep queues, run queue, signals, stops, wait and the swapper, instance and theorems |
| `Stream` | abstract: bytes that come out once and in order |
| `Pipe`, `MCPipe`, `Pipe_proofs` | pipes and select on them, instance, invariants and refinement of `Stream` |
| `Text`, `MCText` | the text table and its callers |
| `InodeCache`, `MCInodeCache`, `InodeCache_proofs` | inode table, name cache, inode allocation, and the calls that use them, instances and theorems |

Each module stops where the next begins. `Text` sees core only as "there is
enough or not" (`Rmap` has the map), `Pipe` and `InodeCache` see a transfer as one
step that sleeps (`BufferCache` has the buffers), `Synch` sees a time limit as a
set of pending timers (`Callout` has the list).

### BufferCache

State: `flags`, `blk`, `bq_lru`, `bq_age` and `flwanted` are the fields and list
heads of the code. A hash chain holds exactly the buffers whose name hashes
there, so looking one up is a comparison of names. `ioq` is the drive's queue.
`pc`, `frame`, `bp` and `wb` are a process's place in the code, its arguments and
the buffers it has in local variables; `wchan` is its sleep channel. `cur` is
the process that has the CPU inside the kernel.

Steps: code between `splbio` and `splx` is one action; between two actions the
completion interrupt (`Biodone`) may run. Another process runs only when `cur`
is `NoProc`, that is after a sleep, at the end of a call, or where the process
leaves the cache for a while with a buffer in hand (`hold`).

Abstractions:

* data are two history booleans: does the buffer (`latest`), does the disk
  (`dlatest`) hold every update of the block. An update makes all other copies
  out of date; a transfer copies the boolean;
* all `Devs` share one queue, in which `disksort` places a request by its
  direction and its cylinder (`Cylin`). They may be partitions of one drive or
  drives of their own, so requests may end in any order, except that two for one
  block are served in queue order;
* if a block is in two buffers a lookup may find either;
* `ilock` is a guard: operations on the file of `fsync` exclude each other;
  `DKF_CLOSING` is a guard on calls for the device;
* B_LOCKED is never set; B_PHYS, B_RAMREMAP, tracing, accounting, MNT_ASYNC and
  the clearing of B_DELWRI for pipes are left out;
* `RaheadHit` models lines 83-85 of `breada`, which can only run if `getblk`
  slept after `incore` said no.

### Rmap

State: `map` is the sequence of entries with nonzero size. The entry that ends
the map is moved with them, so it is implicit. `held`, `cached` and `lost` say
where the units not in the map are: in use, in a text nobody executes, or
dropped by an overflow. `which` is chosen in the initial state, so one run
covers the three maps.

`malloc3` offers each entry to the three requests in turn; `Scan3` states what
each request gets from that: the first entry with room for it after what the
requests before it took. If all three are found, `Resolve3` hands out the
addresses in turn, each from where the one before left its entry, and squeezes
out the entries that were used up. Which cached text `xuncore` finds first is left
open, and so is where its walk ends: a text it slept for may have left the free
list, and others may have come to it. While it runs every other client may act.

### Callout and Timers

State: `calltodo` is the list; `callfree` is its length. The masked loop of
`timeout` is modelled step by step, so the invariant also says why the loop is
right; nothing interrupts it. `hardclock` has a parameter: was the CPU at base
priority? Only then is `softclock` run, whose turns interleave with ticks,
timeouts and cancellations. `left` and `called` are history: the ticks each
entry has left, and the call just made. `Timers` is the promise: no list of
increments, only the ticks left.

### Synch

State: `k` is the proc table and the queues as one record, because the routines
call each other: each is an operator from a state of `k` to the state it leaves
(`Wakeup`, `Setrun`, `Unsleep`, `Endtsleep`, `Psignal`, `Stop`, ...). `cur` is
`u.u_procp`, `pc` the place of a process between two points at which it may lose
the CPU or be interrupted, `fr` the arguments of `tsleep`, `sw` the process sched
is moving. `ret` and `woken` are history: what `tsleep` returned, and who was
woken. Steps of `cur` are the code between two such points; wakeups, signals and
time limits come between any two steps, as interrupts do.

Abstractions: signals are one of each kind (caught, terminating, SIGKILL, a stop
signal, SIGCONT, SIGCHLD), and what each process does with them is fixed
(`Action`). Priorities and `p_slptime` only order choices, and the choice is left
open. Left out: tracing, vfork, SA_NOCLDSTOP, changes of handlers and masks, the
death of a parent, the text locks that swapping takes (they are in `Text`).
schedcpu, which runs once a second and wakes `runin`, does not come between two
sleeps of sched that have no sleep between them.

### Stream and Pipe

State: `s` is the inode (size, offset, count, ILOCKED, IWANT, IREAD, IWRITE,
`i_rsel`, `i_wsel`, IRCOLL, IWCOLL), what each process sleeps on, and its select
flags. `io` is a call's arguments and what is left of it; `next`, `got` and `ret`
are history. A byte is its writer and a number. `rwip` moves its bytes in one
step and sleeps with the inode locked; it may stop early, on a bad block or with
no disk space left.
`Stream` promises that bytes come out once, in order, and in the pieces they went
in; `StreamSpec` is the refinement.

Abstractions: FNONBLOCK is a choice at each call. A process that selects on other
descriptors as well may sleep in the middle of its scan (`Elsewhere`). Running
out of inodes or files in `pipe()` and time limits of select are left out.

### Text

State: `x` is the table, `free` the list from `xhead`, `itext` and `linked` are
`i_text` and `i_nlink`, `pr` is what a process runs and whether it is in core.
`image` and `copy` are history: whose text is in the core and in the swap space
of an entry. Steps are the code between two sleeps; a frame has the return points
`back`, `then` and `more` because xuntext, xfree and xuncore have several callers.
Core that runs short is a choice allowed to the actors the load names.

Left out: XTRC, overlays, a fork that finds no core, vfork, the failure of
`malloc(swapmap)`, sizes, and the overflow of the u_char counts. `Umount` is
`xumount` at one entry.

### InodeCache

State: `x` is `inode[]` (a slot with number 0 is on no hash chain), `free` the
list from `ifreeh`, `nc` and `lru` the name cache, `disk` the inodes on the disk,
`dir` the directories, `fs` the super-block's part on inodes, `file` the file a
process has open. The id of a cache entry is the boolean `ok`: it is the id of
its slot. `slp` is the inode whose lock a process waits for; a directory's lock
and `fs_ilock` are waited for in the guard. A directory stays in core, so its
reference count only goes up and down. `fr.back` and `fr.then` say where the
callers of iget and of irele go on.

Steps are the code between two sleeps, split where a routine is shared (iget,
irele): `cpu` keeps the process running over those splits. Every transfer is a
place to sleep: the inode read in iget, iupdat's, itrunc's two (the blocks it frees,
and the inode it writes, still with its mode), the directory search, direnter,
dirremove, ialloc's scan, and rwip with the inode locked.

Errors: the read in iget, the reads in ialloc's scan and in the directory search,
the read before dirremove's write and before direnter's, access that is refused
(namei's EPERM under a sticky directory, unlink's own, and open's),
and two errors the code does not see: a directory write that fails
(`dirwrite`; bwrite's result is not looked at, and brelse takes the buffer off
its block) and an iupdat that cannot read its block (`iupdat`).

Left out: symbolic links, paths of several components, `..`, link, rename, mkdir,
inodes that are mounted on, read-only file systems, quotas, O_TRUNC, the text an
unlink drops (it is in `Text`), the wrap of `i_id` (cacheinvalall) and iflush.
Bounds: `fs_tinode` and `i_nlink` are kept one beyond the range in which they are
right; one open file for each process; a sync visits one inode; NBEHIND is 1 or 4
instead of `4 * NICINOD`.

## 3. Runs

| Run | Instance | States | Shows |
|---|---|---|---|
| `safety` | 2 processes, 2 buffers, 2 blocks, `bread breada fsync`, failing transfers | 625,000 | ownership, free lists, wakeups, no `dup biodone`, late B_AGE, fsync's large-file walk |
| `coherence` | 2 processes, 2 buffers, a disk and a tape, closes | 286,000 | reads see every update, no update lost, no delayed write survives a close |
| `small` | 2 processes, 4 buffers, one-block file, failing transfers | 187,000 | fsync's small-file path |
| `live` | 2 processes (2 calls and 1), 3 buffers, 3 blocks | 471,000 | every call returns |
| `rmap` | 2 clients, 5 units, 2 slots, each map | 218,000 | conservation, coalescing, justified refusals, no client asleep beside free registers |
| `callout` | 2 functions, table of 4, times 0, 1 and 3, at most 2 ticks late | 32,000 | refinement of `Timers`, no leaked entry, calls are made |
| `synch` | a shell and its job, one event, the swapper | 330,000 | exact queues, no stale time limit, right returns, no lost `runout`, no lost stop |
| `pipe` | 2 readers, 1 writer, 2 bytes, writes of 1 and 3, errors in `rwip` | 137,000 | refinement of `Stream`, every kind of sleeper woken, restarts only before the first byte, hangups seen |
| `text` | 2 processes and the swapper, 2 texts, 2 files, 4 loads | 101,000 | the right text in core, exact counts and free list, locks with one owner |
| `inode` | 2 processes, 2 files, 2 inodes, 1 or 2 slots, 2 cache entries, 6 loads | 618,000 | exact references and free list, no file lost or shared, right lookups, no call stuck |

Two runs TLC must find violated: `duplicate` (a block in two buffers) and
`inode_lookup` (a lookup that returns another name's file). `PROJECT.json` quotes
the lines they disagree with.

Further configurations, not part of the regular runs because each shows one
disagreement between the code and what it says or means. TLC finds each property
violated (`tlc -config X.cfg MCModule`):

| Configuration | Property | What the code does |
|---|---|---|
| `BufferCache_close` | `Coherent` | a read after the device is opened again returns stale data: binval does not wait for buffers that are busy (`ufs_bio.c:485`) |
| `BufferCache_deadlock` | (deadlock) | as many `breada` calls as there are buffers, each with the buffer of its first block, wait in getnewbuf for one another (`ufs_bio.c:82`) |
| `BufferCache_fsync_small` | `FsyncFlushed` | the small-file path converts block numbers twice (`ufs_subr.c:119`) |
| `BufferCache_fsync_error` | `FsyncErrorReported` | a later sleep overwrites `u_error` |
| `Rmap_limit` | `MapInArray` | `m_limit` lets the end of the map leave the array |
| `Synch_stop` | `NoLostStop` | wait1 looks at its children and then sleeps; a stop between the two is missed if the parent ignores SIGCHLD (`kern_exit.c:269`) |
| `Synch_panic` | `NoPanic` | wakeup finds a process on its chain that is running, when `runout` hashes there (`kern_synch.c:302`) |
| `Pipe_partial` | `WriteReports` | a write interrupted after its first chunk reports all its bytes (`sys_pipe.c:195`) |
| `Pipe_select` | `SelectorsWoken` | a selector that is still scanning is replaced and never woken (`sys_pipe.c:241`) |
| `Text_reuse` | `TextIsMine` | xalloc overwrites an entry that came into use while it waited for its lock (`vm_text.c:198`) |
| `Text_stale` | `NoDoubleFree` | xumount frees a text that was freed while it waited (`vm_text.c:334`) |
| `Text_irele` | `LockRespected` | an entry without an inode is taken though it is locked (`vm_text.c:357`) |
| `Text_swapper` | `SwapperLives` | the swapper waits for the lock of a process it has swapped out (`vm_text.c:375`) |
| `InodeCache_entry` | `LookupRight` | while igrab waits, the cache entry goes to another name and the slot to another inode; the check "that the inode that we got did not change" reads both through the entry and passes (`ufs_namei.c:314-318`); no name is in the cache twice |
| `InodeCache_count` | `FreeCounted` | namei's false hit frees an inode that was freed already: `fs_tinode` counts it twice (`ufs_namei.c:319`) |
| `InodeCache_list` | `ListFits` | ialloc starts a second scan while another runs, and `fs_inode` is filled past NICINOD (`ufs_alloc.c:168-175`) |
| `InodeCache_space` | `NoSpaceTrue` | an inode freed during a scan is put on no list and is still in core: ENOSPC though one is free (`ufs_alloc.c:199`, `296`) |
| `InodeCache_close` | `CloseiSees` | vn_closefile calls irele before closei: for an unlinked device i_mode is 0 by then, and the close routine is not called (`vfs_vnops.c:219`) |
| `InodeCache_write` | `NamesLead` | a directory write that fails goes unnoticed: unlink frees the file and leaves its name, creat leaves a file without one (`ufs_namei.c:1021`, `1033`, `989`) |

Bounds and why they are enough. Two buffers for two processes make every hazard
of a full pool happen: no free buffer, a dirty oldest buffer, a wanted busy
buffer. The third block in `live` and `duplicate` lets a block be evicted while
two others are in use. Four buffers are the fewest for which a one-block file is
"small" (`lastlbn < nbuf / 2`). `coherence` has the constraint `UniqueBlock`:
it explores every behaviour up to the first duplicate, which `duplicate` shows,
and says that nothing goes wrong before. Errors are off there, because a failed
write drops the update by design. Two slots for five units make maps overflow;
`OneTwo` and `Triples` let requests need one entry, share one, and fail half way.
`MaxLate` bounds how late softclock runs; the entries behind an overdue one, and
two overdue entries, occur with 2. Symmetry is used on processes and clients,
in runs without temporal properties.

`Hash` in `synch` gives `runout` a chain of its own: where it shares one, wakeup
may panic, which `Synch_panic` shows. The shell catches SIGCHLD; if it ignores
it, `Synch_stop`. The job sleeps with and without PCATCH and with a time limit,
which with the four signals gives every way into and out of `tsleep`. A pipe of
two bytes makes writes of three fill it and sleep half way, and two readers
compete for what is there. The loads of `text` keep apart what goes wrong
together: unmounting while others are swapped or while irele writes, and core
running short for processes and swapper at once, are the further configurations.
`inode` has as many names as inodes, so a slot, an inode number and a cache entry
are each used again for another file; one slot makes iget fail and rename. Its
loads are: two slots with sync; a process that opens what the other creates,
writes, closes and removes; two that write the same file; and failing inode
reads, directory and scan reads, and writes. `FilesKept` and `LookupRight` are
about loads without silent write errors, which `TableExact` and `SomeoneRuns`
hold under as well. The constraint `CachedOnce` explores every behaviour up to the
first name that is in the cache twice, which `inode_lookup` shows, and says that
nothing goes wrong before. Only `LookupRight` needs it: the theorems on the other
three hold without. It also needs an entry that is not used again while its finder
sleeps in igrab, which is why `inode` has two; `InodeCache_entry` has one.

Deadlock is checked in all runs but `live`, where the calls come to an end,
`callout`, where `timeout` may panic, and `synch` and `pipe`, where processes exit
or have closed their ends. The instance of `live` has one buffer more
than processes: with no more buffers than processes, `breada` calls that each
hold a buffer while they wait for another can stop for ever. With more units
`ub_map` can lose registers to an overflow, after which a large request sleeps
for ever; the code accepts the loss, so no property forbids it.

Fairness. `live`: a process that can run is run (`swtch` picks every runnable
process in time) and the controller ends each transfer (the drivers retry and
then report an error). `callout`: the masked loop runs on (weak fairness);
`softclock` gets on between interrupts and the clock again and again finds the
CPU at base priority (strong fairness: interrupts and masked sections disable
both for a while, again and again). `pipe`: every process that can go on is run
(weak fairness of its steps, as `swtch` gives it), and one that waits for the
inode lock gets it in time (strong fairness of `Locked`): it sleeps at `PINOD`, so
`wakeup` sets `runrun`, and the process that released the lock gives way when it
returns to user mode (`trap.c:308`, `382`), before its next call. Nothing makes a
process call.

Every property of a passing run has a mutant, a plausible slip in one mapped
definition, under which TLC finds the property violated.

## 4. Proofs

`BufferCache_proofs` proves, for all processes, buffers, devices and blocks,
`TypeOK`, `FreeIffNotBusy`, `OneOwner`, `NoDupBiodone` and `LateAgeHarmless`.
The only assumptions are those of `BufferCacheAssumption`. None of the five is
inductive. That `brelse` puts a buffer on a list it is not on already needs
ownership; ownership needs to know which buffer a process has at each point of
the code (`LocalBufs`) and that the frame fits the place (`FrameOK`); that the
interrupt releases only the driver's buffers needs B_ASYNC to be set only while
the request is queued (`AsyncAtDriver`); that the late B_AGE is harmless needs
the process to keep the CPU from `d_strategy` to that line (`AgeKeepsCpu`).
`IInv` joins them. Two lemmas carry the induction, `LocalStep` for steps that
move no buffer and `BufStep` for steps that change one; each action is an
instance of one of them. `FreeLists_proofs` has what the list macros do.

`BufferCacheCallers_proofs` goes on from `IInv` to what the callers rely on:
`NoLostWakeup`, `SearchHolds`, `NoStaleDelwri`, `FsyncFlushed` of a file that
is not small (`SmallFile`, whose case `BufferCache_fsync_small` refutes), and
`Coherent` and `NoLostUpdate`. There is one assumption more, `FileAssumption`: a
file's blocks are on its inode's device. The invariant `CInv`, which needs no
constraint on how many buffers a block has, has
 - `AwaitedAt`: the transfer a process waits for is queued or has ended. A sleeper
   in `biowait` has its wakeup to come only because of this;
 - `SearchAt`: from the search that failed to the taking of a buffer a process
   keeps the CPU unless it sleeps, and the block stays out of the cache;
 - `NamedAt`: which block the buffer in a process's hands is of. It bounds what a
   process can make a delayed write of to the blocks it was called for;
 - `FileAlone`, `CloseAlone`: one process at most uses the file, and nobody uses a
   device during its last close. With `NamedAt` nobody dirties the file behind
   fsync, or the device behind `bflush`;
 - `PassedAt`: the buffers fsync's scan has passed are clean, all of them when it
   comes to the inode, and all of the device when `binval` begins;
 - `DelwriDone`: a delayed write has B_DONE, so that it cannot become a transfer
   somebody awaits without going through `bwrite`.

`Effect` says what a step of one process leaves alone; `OneGoesOn` and `OneEnds`
are its two forms, for a process that stays in its call and one that returns, and
`BrelseWakes` is the step that hands a buffer on. Each action is an instance.

`Coherent` and `NoLostUpdate` have three hypotheses: no transfer fails
(`DiskErrors`), the driver's close routine waits for its queue (`CloseWaits`), and no
block has come to be in two buffers, which is the temporal hypothesis
`[]UniqueBlock` of `DataInvariance`. TLC refutes both properties without any one of
the three: these are the failed write of `ufs_bio.c:184`, `BufferCache_close` and
`BufferCache_duplicate`. On top of `IInv` and `CInv` the invariant `DInv` has
 - `DataAt`: a valid buffer with B_DONE holds every update of its block, and so does
   one that is being written; what holds them has B_DONE or is being written;
 - `Carried`: what the disk lacks is in a delayed write or in a write under way, and
   nothing else counts. A buffer that is only busy may be released without a write;
 - `Closers`: between `binval` and the end of the close routine a device has no valid
   buffer, and only there is an invalid buffer written. This is what makes the block
   stale, if the routine does not wait, when the device is opened again;
 - `ReaderAt`: who comes out of bread or breada has a buffer with B_DONE.

`DataStep` reduces a step to what it does to each buffer and each process (`Still` or
`Changed`, `Stays` or `Moves`) and to `Carried`; each action has a lemma that
applies it.

`Callout_proofs` proves `TypeOK`, `IncrementsExact`, `PanicOnlyWhenFull` and the
refinement `TimersSpec`, for every table size, function set and set of times,
from `CalloutAssumption`. The invariant `CInv` adds to `IncrementsExact` that
the calls are in the order they are due (`Ordered`), what the middle of
`timeout`'s loop has established (`InsExact`), and that every entry is on one
list or about to be linked in (`AllCounted`). The one step that is not local is
`CountsMeansDue`: hardclock's loop goes on to an entry exactly if the one before
it was due. It takes the least entry that is not due. For the refinement the
tick, the cancellation, the expiry and the link each map to one abstract action
and the rest to `Rest` or a stutter.

`Pipe_proofs` proves `TypeOK`, `NoLostWakeup`, `RestartSafe` and the refinement
`StreamSpec`, for all sets of readers and writers, every MAXPIPSIZ and all sizes
of calls, from `PipeAssumption`. The invariant `IInv` joins
 - who may be where (`Places`), and that one process at most is between the lock
   and the unlock (`LockOwned`), so that what a process found under the lock
   still holds at its next step under it;
 - that `pipe_close` is the last of its end, and what `i_count` then says
   (`LastCloses`): a sleeper with `i_count` 2 has somebody to wake it;
 - that the offset is at the end of the file only in an empty pipe or just before
   `readp` truncates it (`Bounded`), and that a write is in its first chunk or has
   less to do than it was asked (`ChunksCounted`, which gives `RestartSafe`);
 - that a sleeper has its flag set, and what it waits for has not come, or
   somebody is about to say so (`SleepersFound`);
 - the numbering of the unread bytes (`Numbered`), which is the refinement's: the
   bytes of each writer in the file run from `got` to `next`.

The selectors need an invariant of their own, `SelectorsFound`: one that waits is
the one `i_rsel` remembers, or a collision is. It fails if a second process
selects the same end while the first is still scanning other descriptors: that
is what `Pipe_select` shows of `sys_pipe.c:241`. So `PipeNoLostWakeup` has the
hypothesis `ElsewhereAlone`, that such a process does not share its end;
`PipeSleepersWoken` states without it what holds of everybody but selectors.

`Rmap_proofs` proves `SortedApart`, `UnitsConserved`, `SleepersBlocked` and the
action property `RefusedOnlyWhenFull`, for any clients of the three maps, every size
of map and array and all requests, from `RmapAssumption`. `SortedApart` is not
inductive: `mfree` keeps the map in order only if what comes back is not free
already, so it needs the ownership of every unit. `RInv` says that the map is
sorted with every two entries apart, not just neighbours (`MapSorted`), that the
segments in use or cached are disjoint (`SegsApart`), that free, owned and lost
units partition the space (`Partition`), what the meter counts (`Meter`), and
what each client waits for (`Asked`). The lemmas follow the code: `CutMap` for
`malloc`, `MapFreed` for the cases of `mfree` (joined on the left, the right,
both or neither, and the overflow), `Restored3` (a `malloc3` that fails has put
back the sizes it took, whichever entries they came from), and for one that
succeeds `GrantMalloc3`, which takes the three requests one at a time through
maps that may have empty entries until these are squeezed out. `RunFits` is the
reason for joining: a run of n free units lies within one entry, so the scan's
failure means there is no such run. Refusals and sleepers rest on it.

`Synch_proofs` proves `QueuesExact`, `NoPanic`, `NoStaleTimer`, `NoLostRunout` and
`NoLostStop`, for any processes and tree of parents, any dispositions and any
hashing of the channels, from `SynchAssumption`. The routines call each other in
the middle of a step, so the proof goes routine by routine: `Sound(s, c, m)` is
the invariant of a state of `k` in which `c` has the CPU and `m` is in the masked
part of `tsleep`, on a sleep queue though it runs. Each routine has a lemma that
says what it makes of such a state (`WakeupSound`, `SetrunSound`, `PsignalGood`,
`IssignalGood`, `ExitGood`, ...), and each action is a composition of them.
`IInv` has
 - `Core`: the queues, with where each process is linked (`Place`). `QueuesExact`
   is not inductive without the places of the processes (`Places`) and of those
   that are being swapped (`Swapping`): that `remrq` finds the victim, and that
   `swapin` does not queue a process twice, rests on them;
 - `Announced` and `Served`, the two halves of sched's handshake: while it sleeps
   on `runout` the flag is set, and nobody needs it. `KickSchedSound` shows that
   whoever breaks the second half and tests the flag restores it;
 - `Limits`, which gives `NoStaleTimer`;
 - `Heard`: a parent that has news is not asleep in `wait`, and if it is on its way
   there, a SIGCHLD is pending that the CURSIG of `tsleep` will find.

Two theorems have a hypothesis that the code needs. `SynchNoPanic` has `HashApart`:
no other channel shares the queue of `runout`. A process that stops in the masked
part of `tsleep` signals its parent, which may be swapped out, and so walks that
queue while it is itself on a queue in state SRUN (`Synch_panic`). `SynchNoLostStop`
has `ParentsHear`: a parent catches SIGCHLD (`Synch_stop` shows why) and does not
stop by default, unless it is an orphan, which ignores the stop. If it stopped in
that CURSIG with the SIGCHLD still pending, SIGCONT would let it sleep on.

`InodeCache_proofs` proves `TableExact`, `SomeoneRuns` and `FilesKept`, for any number
of processes, slots, cache entries, names and inodes and every load, from
`InodeAssumption`. There are two invariants, the second on top of the first.
`TableInv` is about the table, and holds whatever is lost on the way to the disk:
 - `CallsOK`: for every place in a call, the slots and directories it has locked are
   these and no others (`HeldSlots`, `HeldDirs`). The shared routines make this the
   long part: inside iget and irele what is held depends on where they return
   (`At`). It gives the owner of every lock, and with it `LastAlone`: while irele
   truncates or writes the inode its count stays 1, though others may wait;
 - `RefsExact` and `FreeExact`: counts are the open files and calls that have the
   slot, as cardinalities, and the free list is what has none;
 - `SleepersOK`, `CpuOK`, `IlockOK`: a sleeper waits for an inode that is locked and
   has `IWANT` set, and `fs_ilock` is taken only while somebody scans.

`SomeoneRuns` follows by the order of the locks: who holds an inode waits for
nothing, who holds a directory waits for an inode or for `fs_ilock` at most, and who
scans waits for a transfer. `FilesInv` ties the three copies of what is known of a
file together, where `DiskSound`, which is part of `FilesKept`, rules out the two
writes that are lost in silence:
 - `CoreOK` and `DiskOK`: an inode in core that has been read, or one that is only
   on the disk, has a name exactly if it has a link; in core with two exceptions,
   the file maknode is making and the file that was unlinked and is still in use;
 - `CleanOK`: what is not marked `IUPD` is on the disk, and who drops the last
   reference has written it. Without this an inode that leaves the table would
   come back as it was;
 - `FilesOK`: what a call knows of its file after each sleep, such as that the
   entry it searched for still leads to the inode number it fetched. It is the
   directory's lock that keeps this true, and the reason `NamesApart` survives
   two creations at once.

The steps fall into few shapes, each a lemma: `Quiet` for one that leaves the table
alone, `Edited` for one that changes a slot its process has locked, `Lock`, `Taken`,
`PutBack` and `DroppedOK` for those that lock, take, unlock or drop one; `FilesSame`
and `FilesEdit` for a step that leaves the files as they are or changes one. Each
action is an instance.
`LookupRight` is not proved: `InodeCache_entry` shows that it does not hold for every
number of entries.

Model-checked only: `TsleepReturns` of `Synch` (for a process that catches the stop
signal a SIGCONT may take away the signal that ended the sleep), all of `Text`,
`LookupRight` of `InodeCache`, and the liveness properties, which like ENABLED and
induction over recursive definitions are out of this prover's reach.

## 5. Plan

1. Proofs: `TableSound`, `LocksSound` and `TextIsMine` of `Text`.
2. The list of free blocks: balloc, free and bmap under `fs_flock`, with the
   blocks itrunc gives back, joined to `InodeCache`.
3. The hard cases of namei: rename, link and `..`, and their lock order.
4. Character lists and the terminal's sleeping readers and writers.

## 6. Not modelled

Networking (ported 4.3BSD code), terminals (data transformation), block
allocation, register programming of the drivers, user programs: libraries and
commands are most of the repository's lines, and are sequential programs that
neither share state nor wait for each other. The kernel's own concurrency, which
this project is about, is in the files of section 1.

Smaller things left out, beside those each module names: the 16-bit width of
`c_time`, which matters after 32768 ticks without softclock; the registers
`ub_map` loses to an overflow, after which a large request sleeps for ever; that
syncip passes over buffers whose write is already under way, so that fsync may
return before it ends; priorities, `nice` and the choice among runnable
processes.
