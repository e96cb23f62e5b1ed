# TLA+ models of librseq

TLA+ specifications of the stateful parts of librseq: the per-CPU memory
pool allocator (`src/src/rseq-percpu-alloc.c`) and the reference-counted
per-thread rseq registration (`src/unnamed/part_000`, i.e. `rseq.c`). All of
them are checked with TLC. `PROJECT.json` lists the components, the runs, the
mutants that show each property can fail, the map from every definition to the
lines it models, the findings and the hazards.

## The system

### Inventory

| Component | State | Operations | Interacts with |
|---|---|---|---|
| Per-CPU pool (`struct rseq_percpu_pool`) | `free_list_head` (intrusive list threaded through the CPU 0 copies of the items), `next_unused` (bump pointer), `free_bitmap`, the mapped memory, `lock` | `__rseq_percpu_malloc` (malloc / zmalloc), `rseq_percpu_zero_item`, `rseq_percpu_free`, `__rseq_percpu_ptr` | client threads, robust bitmap, pool directory |
| Robust free bitmap | one bit per item in `unsigned long` words | `create_free_bitmap`, `mask_free_slot`, `unmask_free_slot`, `destroy_free_bitmap` | pool malloc/free/create/destroy |
| Pool directory | `rseq_percpu_pool[MAX_NR_POOLS]`, `pool_lock` | `rseq_percpu_pool_create`, `rseq_percpu_pool_destroy` | mmap attributes, handles |
| Handles | `(pool index << POOL_INDEX_SHIFT) \| offset` | encoded by malloc, decoded by free and `__rseq_percpu_ptr` | pool directory |
| Pool set | `entries[order]`, set `lock` | `add_pool`, set malloc/zmalloc with retry on ENOMEM, set destroy | pools |
| NUMA placement | which node holds each page of each CPU's range | `rseq_percpu_pool_init_numa` (one `move_pages` per page) | kernel, the writes that fault the pages in |
| mmap attributes | none the allocator reads | `mmap_attr_create/destroy`, default mmap/munmap | kernel |
| Thread registration (`rseq.c`) | `__lib_rseq_abi.refcount`, `__rseq_abi.cpu_id`, the kernel's registration, the signal mask | `rseq_register_current_thread`, `rseq_unregister_current_thread`, `signal_off_save`, `signal_restore` | kernel, signal handlers of the same thread |
| Queries | none | `rseq_available`, `rseq_fallback_current_cpu` | kernel |
| MIPS assembly helpers (`part_001`) | registers | `RSEQ_ASM_*` macros | kernel restart of critical sections |
| `mempool.h` | none (API) | documents malloc/zmalloc/free/ptr | clients |

What makes the code hard to test:

- Pool operations run concurrently. `pool->lock` covers each malloc and free,
  but zmalloc clears the item on every CPU *after* unlocking.
- The free list lives inside the items, in memory the application also writes.
- The robust bitmap mixes `1ULL <<` (mask) with `1 <<` (unmask).
- In the pool set, the pool is picked under one lock and allocated from under
  another, with a retry loop.
- `init_numa` moves one page per `move_pages` call and checks only the
  call's return value. The kernel reports a page it did not move in the
  status array, which the code never reads.
- Registration is re-entered by signal handlers of the same thread. The kernel
  answers ENOSYS, EBUSY, EINVAL or success.

## Modules

| Module | Models | State | Actions |
|---|---|---|---|
| `FreeBitmap` | the robust bitmap (`create_free_bitmap` … `destroy_free_bitmap`) | `bitmap` (Null or word → set of 1 bits), `inUse` (what a correct client holds), `status` (running, destroyed, or the function whose `assert` failed) | `Mask(i)`, `Unmask(i)`, `Destroy` |
| `PercpuPool` | one pool used by several threads | `freeListHead`, `nextUnused`, `freeBitmap`, `mem[c][o]` (the word at offset `o` of CPU `c`), per-thread `held`, `pc`, `zeroItem`, `zeroCpu`, `ret`; `status`; `pageNode[c][pg]` (the node of a page, Null until first written), the loop indexes `numaCpu`, `numaPage`, and the history flag `numaOk` | `Malloc(t, zeroed)` (whole critical section: `MallocFromFreeList` / `MallocNoMem` / `MallocBump`), `ZeroItem(t)` (one CPU's memset per step, then the return), `Free(t, o)` (unmask + `FreeLink`), `Write(t, o, c)` (an application store through `__rseq_percpu_ptr`); `InitNuma(t)`, `MovePage(t)` (one `move_pages`, then the early return or the next page), `NumaReturn(t)` |
| `PoolAllocator` | the contract of `mempool.h`: malloc gives an item nobody holds and returns NULL only when the pool is full | `allocated`, `result` | `Malloc(t)`, `Free(t, s)` |
| `PoolDirectory` | `rseq_percpu_pool_create` / `rseq_percpu_pool_destroy` under `pool_lock`, and the handles of the pools' items | `pool[i]` (the slot's base, index, geometry; `base = Null` is an empty slot), `allocated[i]` (offsets handed out), per-client `owned` pool pointers, `handles` | `Create(c, ...)` (argument checks, then `CreatePool`: first empty slot from `FIRST_POOL`, mmap success or failure), `Destroy(c, s)` (ENOENT, munmap success or failure, always 0), `Malloc(c, s)`, `Free(c, r)`; composed with the pool set: `poolSet`, `entries`, and `SetCreate`, `AddPool(c, s)` (EBUSY or hand-over), `SetDestroy` (the real pool destroy of every pool from `POOL_SET_MIN_ENTRY` up, each munmap succeeding or failing, then free the set) |
| `PoolSet` | the pool set | `set`, `entries`, the pools the application still owns (`spare`) or that were destroyed (`gone`), `used`/`held` item counts, per-thread `pc`, `len`, `minOrder`, `order`, `found`, `ret` (the code's `addr`) | `SetCreate`, `AddPool(t, p)` (EBUSY or take), `SetMalloc(t, l)` (entry), `SetLookup(t)` (scan under the set lock; NULL if nothing fits), `PoolMalloc(t)` (outside the set lock; ENOMEM retries at `order + 1`), `Free(t, p)`, `SetDestroy` |
| `RseqRegistration` | `rseq_register_current_thread` / `rseq_unregister_current_thread` on one thread | `refcount`, `cpuId`, `kernel`, `supported`, `blocked`, `active` (stack of running calls), per-user `pc`, `saved`, `ret`, `holds` | `Call`, `SignalOffSave`, `RegisterInc`, `RegisterSyscall`, `RegisterUndo`, `UnregisterDec`, `UnregisterSyscall`, `SignalRestore`, one per statement group of the code |

Data is abstracted as follows:

- Memory words hold `Null` (zero), `AppData`, or an item offset (a free-list
  link).
- Bitmap words are *sets of bit positions*. This keeps the real 64-bit width
  without 64-bit integers. The undefined `1 << n` for `n >= 32` is a
  nondeterministic choice between the count taken mod 32 and a widened shift.

`PercpuPool` instantiates `FreeBitmap` (as `BM`) for the bitmap operators. It
also instantiates `PoolAllocator` with this refinement mapping:

- `allocated[t]` = the items `t` holds, or is zeroing;
- `result[t]` = the item being zeroed, else the last malloc's return.

`AllocatorRefinement` checks `PoolAllocator`'s `Spec` as a temporal property.

The first store to a page (`FirstTouch`) faults it in on the node of the CPU
the storing thread runs on. The thread does not choose that CPU, so the node
is a nondeterministic choice. Each `move_pages` call in `MovePage` has one of
the outcomes its manual page lists (`MovePagesResults`):

- -1 for a call error;
- 0 with the page left where it is and an error in status: ENOENT for a page
  never written, EBUSY, ENOMEM;
- for a page in memory, 0 with the page moved;
- for a page in memory, a positive count of pages not migrated.

`numaOk` records that some call returned 0, so that `NumaPlacesPages` can be
stated as an invariant.

`PoolDirectory` and `PoolSet` build on that result. A pool in
`PoolDirectory` hands out any free offset. A pool in `PoolSet` is its item
order and item count: its malloc is one atomic step that fails with ENOMEM
only when the pool is full. `PercpuPool` shows the real pool behaves this way.
The directory uses a scaled build, with the real encoding done by `Bitwise`:

- a 2-bit pool index (slots 1 to 3, with slot 0 reserved);
- a 5-bit offset field;
- 16-byte pages and 4-byte pointers.

Every check of create is still reachable at that size: an item below pointer
size, an item above the range, a range past `MAX_POOL_LEN`, and CPU counts
of -1, 0 and 1. `PoolSet` uses the same build, so `POOL_SET_NR_ENTRIES = 5`
and `POOL_SET_MIN_ENTRY = 2`.
The mapping length `percpu_len * max_nr_cpus` is computed modulo
`2^BITS_PER_LONG` (7 bits in this build), as `size_t` does. `1UL << order`
(`Shl1`) shifts by `order` modulo the width, which is what x86-64 and
AArch64 do for the undefined shift by `BITS_PER_LONG`.

`PoolDirectory` also holds one pool set: `poolSet`, and `entries`, the slots
the set took over with `add_pool`. `PoolOwnership` counts the set as a
pool's owner, so it covers set destroy as well.

The set's destroy loop is one step: each pool destroy takes `pool_lock` on
its own, but no other client can reach the set's pools, so nothing in
between can change what the loop does. The model has one set at a time, and
clients free their items before a set destroy, as they must.

A set-malloc call under concurrent frees and adds takes effect at no fixed
step of the code. So the header's "smallest pool with space" and its NULL
condition are stated over two history variables of `PoolSet`:

- `ruledOut`: the size classes the call found empty, too small or full.
  `NullMeansNoneFits` is stated over it.
- `noSpace`: some state of the call had no fitting pool with space.
  `NullLinearizable` is stated over it. `noSpace` is updated by a conjunct of
  `Next`, as history variables are.

`RseqRegistration`'s refcount wraps at `RefcountBits` bits. The runs use 3
bits: one decrement from 0 wraps the count the same way at 32 bits.

## Runs

| Run | Expect | Bounds | What it shows |
|---|---|---|---|
| `bitmap32` | pass | 32-bit words; items 0, 1, 31, 32, 63 of 64 (both words, both word edges) | the bitmap records exactly the allocated items, raises no false double free, and destroy catches every leak in every word |
| `bitmap64_abort` | violation of `NoSpuriousAbort` | 64-bit long, 32-bit int | freeing item 31 asserts (sign extension) |
| `pool` | pass | 2 threads, 4 items, 1 CPU, symmetry over threads | the free list stays a NULL-terminated chain of handed-out items, every item is in exactly one place, and the pool refines `PoolAllocator` (ENOMEM only when full) |
| `pool_cpus` | pass | 2 threads, 2 items, 2 CPUs on 2 nodes, both threads may run `init_numa` | zmalloc returns memory zero on every CPU despite writes, frees and page migrations between the memsets |
| `numa` | violation of `NumaPlacesPages` | same | `init_numa` returns 0 with CPU 0's page still on node n1: move_pages returned 0 with EBUSY in status, and CPU 1's page gave ENOENT |
| `pool_robust` | violation of `NoSpuriousAbort` | robust pool, 2 items | recycled items are never re-marked, so their free asserts |
| `directory` | pass | 2 clients, 3 slots, every argument class, default backend, symmetry | every live slot has one owner and none is slot 0, every handle decodes to its pool and an allocated offset, and every live pool has power-of-two items that hold a pointer and index a set's entries and a mapping that covers all its CPU ranges |
| `directory_munmap` | violation of `PoolOwnership` | custom backend whose munmap fails | destroy returns 0 although the pool is still mapped; the caller drops it and it is leaked. Set destroy trusts that 0 and orphans its pools the same way (4 steps: create, set create, add_pool, set destroy), although `mempool.h` says it returns -1 on partial failure |
| `directory_overflow` | violation of `PoolGeometry` | default backend, 16-byte ranges, item_len 100, 9 CPUs | create's `size_t` arithmetic is unchecked: `1UL << 7` in the 7-bit build is 1, giving 1-byte items of order 7; and `percpu_len * max_nr_cpus` wraps to a 16-byte mapping for 9 CPUs. TLC shows whichever it meets first; each argument alone (item_len 100 with 1 CPU, or 9 CPUs with item_len at most 16) violates `PoolGeometry` |
| `poolset` | pass | 2 threads; pools of 8-byte items (two of them, competing for one entry) and of 16-byte items; sizes 0, 5, 16; weak fairness of set-malloc steps | set malloc returns NULL only when every large enough class was empty or full during the call, and every set malloc returns |
| `poolset_null` | violation of `NullLinearizable` | same, safety only | a set malloc returns NULL although a fitting pool had a free item at every moment of the call: the retry never looks below `order + 1` |
| `registration` | pass | 3 users (thread code, a handler, a nested handler); every kernel start state | the refcount equals the number of holders between calls, the area stays registered while anyone holds it, and `cpu_id` is FAILED only when the kernel does not maintain it |

Why the bounds are enough:

- Four items give a free list of several nodes in both orders while both
  threads own items, and they reach ENOMEM on both the free-list path and the
  bump path.
- Two CPUs are what make "every CPU" differ from "CPU 0". Only CPU 0 holds the
  links. With two nodes, a page can sit on the wrong node. One 4 KiB page per
  CPU is enough for `init_numa`: its loops only change position at a page or
  CPU boundary.
- The one-CPU runs leave `init_numa` out (`NumaThreads = {}`). It does not
  touch the free list or the bitmap.
- Three nested users reach a handler that registers while the thread's own
  registration is in its system call. They also reach one that unregisters
  while another user holds a registration.

- Two pools of the same order make `add_pool` EBUSY reachable. Three size
  classes (2 empty, 3, 4) make a call skip an empty class, fall back from a
  full class, and find nothing. The sizes 0, 5 and 16 start at the minimum
  class, at class 3, and at the top class.

The pool's item counts are powers of two because `percpu_len` is page aligned
and `item_len` is rounded up to a power of two.

Every property of a passing run has a mutant in `PROJECT.json`: a plausible
coding slip in a mapped definition that TLC finds the property violated by.

## Fairness

Only `SetMallocReturns` is a liveness property. It assumes weak fairness of
each thread's own set-malloc steps (the lookup and the pool malloc), because
a thread inside a call that holds no lock, or holds only the short set lock,
keeps running. Nothing forces frees, adds or new calls, so a full pool may
stay full forever. The other runs check safety only and assume no fairness.

## Not modelled, and why

- `PoolSet` assumes the default backend, where munmap succeeds. Set destroy
  with a failing munmap is checked in `PoolDirectory`, which composes the set
  with the directory (`directory_munmap`).
- `NullMeansNoneFits` allows a concurrent `add_pool` at an order below the
  scan, because that class was empty when it was scanned. `NullLinearizable`
  does not allow it; `poolset_null` shows it happens.
- The best-fit part of the `mempool.h` promise (the *smallest* fitting pool)
  is not checked. Whether a call that got a larger pool could have taken
  effect at a moment when that pool was the best fit depends on a prophecy of
  the rest of the call.
- `rseq_mmap_attr_create` and `rseq_mmap_attr_destroy` are not actions. They
  calloc and free a record of three pointers. Create copies the pointers into
  the pool (lines 280-288, 313-315), so no later call reads the attr, and
  destroying it at any point after create returns changes nothing the model
  could observe. What the callbacks answer is modelled: `MmapResults` and
  `MunmapResults`, with the default or a custom backend per run
  (`CustomBackend`).
- `init_numa` is modelled for the libnuma build. Without libnuma the code
  defines it as `void` with `return 0`, which changes no state.
  `numa_node_of_cpu` is taken to know every CPU below `max_nr_cpus`. For a
  CPU it does not know, it returns -1, `move_pages` fails, and `init_numa`
  returns -1 at that CPU, which the header allows.
- A second destroy of a pool already destroyed is a client error, and the
  directory's clients do not make it. The ENOENT check at line 330 reads a
  directory slot, which create may have reused for another client's pool.
  That hazard is listed in `PROJECT.json` and no run checks it.
- `rseq_available` and `rseq_fallback_current_cpu` are stateless.
- The MIPS assembly macros work at instruction level.
- Registration is per thread: the thread's own code and its signal handlers.
  Threads do not share `__rseq_abi`, so several threads add nothing.
- An unregister without a matching register is API misuse, and the modelled
  users keep the pairing. The refcount still wraps as a `__u32` does. An
  unregister from a count of 0 wraps it to `0xffffffff` and returns 0 without
  a system call. The next register then sees a non-zero count, returns 0
  without registering, and brings the count back to 0, so only that one
  register is lost.
- Two consequences of the same code are not run separately:
  - the zero-CPU pool that a caller-supplied mmap of 0 bytes allows, since
    `directory_overflow` violates the same `PoolGeometry` with the
    default backend;
  - the bit that the `int` shift clears for item 32 (`BitmapTracksUse`),
    which has the same cause as `bitmap64_abort`.

## Plan

Done:

1. `FreeBitmap`
2. `PercpuPool` with `PoolAllocator`
3. `RseqRegistration`
4. `PoolDirectory`: create, destroy, the handle codec, the mapping-length
   and item-length overflows
5. `PoolSet`: create, `add_pool`, set malloc with retry, set destroy
6. `NullLinearizable`, the header's NULL condition
7. `init_numa` inside `PercpuPool`, composed with the page faults of the
   allocator's writes (`numa`)
8. Set create, `add_pool` and set destroy composed with the directory in
   `PoolDirectory`

Left open:

- The robust pool whose bitmap calloc failed (`create_free_bitmap`,
  line 219). The comment at lines 215-217 makes it a choice: every bitmap
  path is a no-op on NULL. `mempool.h` (lines 421-426) still promises that a
  robust pool detects double frees and leaks. The model already starts
  robust runs with a NULL bitmap, and `NoSpuriousAbort` checks that the NULL
  paths do not abort. A run showing the lost detection would only repeat
  what that comment already says.
- Larger `PercpuPool` instances. Four items on two CPUs took 15 minutes and
  10.7M states. Each hazard `pool_cpus` checks needs two threads and one
  item reused across CPUs, and the two items it has are enough for that.
