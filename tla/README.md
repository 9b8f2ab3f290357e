# TLA+ specifications of cxkernel

cxkernel is a small x86-64 kernel in C++ with a multiboot2 loader. This
directory holds TLA+ models of its core, TLC configurations that check them on
small instances, and TLAPS proofs about the parts everything else rests on: the
mutex, the spinlock, the intrusive list, reference counts, the physical memory
manager, the tree of regions, the page tables and the loader. The models are
written from the code; where a comment, an assert or a declaration says something
else than the code does, a run shows it (see *Disagreements*).

## 1. The system

| part | state | operations | used by |
|---|---|---|---|
| Intrusive list (`lib/ebl/linked_list.h`) | `root` of a list, `next` and `prev` of a node | push, pop, insert, remove, iterate | run queues, wait queues, free pages, regions, slabs |
| Reference counts (`lib/ebl/memory.h`) | `ref_count_` of an object | copy, move, drop, make; list of references | regions, threads, address spaces |
| Spinlock (`core/spinlock.cc`, `arch/x86-64/interface.h`) | one word, saved interrupt flags | lock, unlock, by a `Guard` | pages, memory objects |
| Mutex (`core/mutex.cc`) | spinlock word, `state_`, `owner_`, `wait_queue_` | lock, unlock, by a `Guard` | slab caches, address spaces |
| Scheduler (`core/sched.cc`, `core/thread.cc`) | per CPU: current thread, run queue; per thread: state | yield, preempt, switch | mutex |
| Physical memory (`core/pmm.cc`) | list of free pages | allocate and free one page, or several | page tables |
| Regions (`core/vmregion.cc`) | tree of regions with base, size, rights | allocate first fit, destroy, search | address spaces |
| Page tables (`arch/x86-64/mmu.cc`) | four levels of tables, reached by a recursive entry | map pages | - |
| Slab allocator (`core/slab.cc`) | caches with three lists of slabs | alloc, free | everything that allocates |
| Loader (`loader/x86-64-multiboot2`) | memory map, page frame database, first page tables | find memory, build tables, load the kernel, hand over lists | boots the kernel |
| Start-up (`core/main.cc`, `arch/x86-64/init.cc`, `interrupts.cc`) | per-CPU data, interrupt gates | check what the loader left, initialise, break | - |
| ELF parser (`lib/elf`) | a context: image, sections | load, find a section or a symbol | loader |
| Output (`lib/ebl/stdio.cc`, `platform/pc/console.cc`) | two buffers, next to each other | format, write, flush | everything |
| Strings (`lib/ebl/string.cc`) | none | copy, compare, search | loader, ELF, output |
| Bit fields, results, type traits | none | - | everything |

How the parts meet. The mutex calls the scheduler (`schedule_next_thread`) and
appends to its run queue; both move `Thread` objects between intrusive lists,
and a thread has a single pair of links. The loader builds the list of free
pages that the physical memory manager takes over, and shifts its pointers to
their kernel addresses. The page tables call the physical memory manager in
the middle of a mapping. Regions are reference counted and sit on lists of
references. The slab allocator would serve `MakeRefPtr`, but the x86-64 port
has no heap yet (`grow_heap` returns null).

What is hard here:

* *Interleavings.* A mutex is handed to a sleeping thread while the record of
  its owner still names the previous one, and a thread that goes to sleep is
  on a wait queue before it has left its CPU. Reference counts are shared
  without a lock. Interrupts arrive between any two instructions outside a
  spinlock.
* *Sequences.* Intrusive lists are corrupted by an operation that is wrong in
  one size of list only, and the damage shows several operations later. The
  list of children must stay sorted when holes are refilled.
* *Partial failure.* Requests for several pages, and mappings that need page
  tables, can run out of memory half way.
* *Boundaries.* Empty lists, lists of one, zero pages, the last page, addresses
  that wrap around.
* *Liveness.* Every thread that waits for a mutex must get it.

There is no persistent state and there are no messages or timers, so crash
recovery, lost messages and timeouts have no counterpart in this code.

## 2. Modules

| module | what it is |
|---|---|
| `Sched` | scheduler and threads; extended by `Mutex` |
| `Mutex`, `MCMutex` | the mutex on top of the scheduler, its properties, instances |
| `FifoMutex` | abstract: a mutex handed over in order of arrival |
| `MutexProofs` | invariants and refinement of `Mutex`, proved |
| `IntrusiveList`, `MCIntrusiveList` | pointer-level lists, their properties, instances |
| `ListSpec` | abstract: lists as sequences, with the results of the operations |
| `IntrusiveListProofs` | invariants and refinement of `IntrusiveList`, proved |
| `SequenceLemmas` | facts about `InsertAt`, `RemoveAt`, `Min` and the like that several proofs share |
| `VmRegion`, `VmRegionProofs` | tree of virtual memory regions; its invariants and searches, proved |
| `Pmm`, `PmmSpec`, `MCPmm` | physical memory manager, loop by loop; abstract: calls are atomic |
| `PmmProofs` | conservation of pages and the refinement, proved |
| `Spinlock`, `SpinlockProofs` | spinlocks, interrupt flags and interrupts; exclusion and flags, proved |
| `RefPtr`, `MCRefPtr` | reference counts and the list of references |
| `RefPtrProofs` | exact counts, no leak, and no use after free but through `pop_front`, proved |
| `Paging` | entries, indices and the walk of the processor, for the next three |
| `PageTables`, `MCPageTables` | the kernel's `map_pages`, composed with `PmmSpec` |
| `Loader` | the multiboot2 loader |
| `Boot`, `MCBoot` | `Loader` followed by the kernel's start-up; the machines |
| `PagingProofs` | what becomes of the kernel's pages, and what the lists, images and page tables of the loader keep to, proved |
| `CString`, `Stdio`, `Elf` | strings, formatted output, ELF parser |
| `MCLibrary` | these three, one at a time |
| `MCSequential` | lists, physical memory, regions and `MCLibrary`, one at a time |
| `MCAtomics` | reference counts and spinlocks, one at a time |
| `MCPaging` | the loader with the start-up, and the kernel's page tables, one at a time |

The last three only put parts next to each other that share no state: a
variable says which part a behaviour is about, the others rest. Within one
model initial states, steps and errors have names of their own (`VmrInit`,
`PmmNext`, `RefSpec`, ...).

The core is modelled over the contract of `core/include/arch/interface.h`
(`spin_lock`, `spin_unlock`, `switch_thread`, `halt`) rather than over one port
of it. Where the x86-64 port does something else, a constant selects what the
port does (`ByValue` in `Spinlock`; the run `spin_by_value` shows what comes of
it).

### Sched and Mutex

A thread's program counter is `at[t]`, a label and the mutex it works on. It
says where the CPU that runs `t` is, or where `switch_thread` will return to
when `t` runs next. Each step inside the internal spinlock that reads what
another thread may write is an action of its own: `LockSpin`, `LockTest`,
then `LockTake` or `LockQueue`; `Sleep` is the call of `schedule_next_thread`,
`WakeSpin` and `WakeOwn` what follows it; `UnlockSpin`, `UnlockTest`, then
`UnlockFree` or `UnlockHandOff`. A failed assert stops its CPU (`halted`).
The run queues belong to one CPU each and are used in one step.

`switch_thread` and `schedule_next_thread` do not change `Thread::state`, so a
thread that runs may be marked `READY`; the model keeps this, and
`NoThreadLost` speaks of `BLOCKED` only.

Clients are threads that hold mutexes through `ebl::Guard`: they release what
they hold, and they take mutexes in increasing order (lock ordering is the
clients' business, nothing in the mutex prevents a cycle). No code creates
threads, so `InitCur` and `InitQueue` say where each starts.

From a state in which two CPUs run the same thread (`OneCpuPerThread` false)
nothing is defined, and the model stops there. All other invariants are checked
and proved up to and including such states; that they can be reached on two
CPUs is what `mutex_two_cpus_switch` shows.

### IntrusiveList

`root`, `next` and `prev` are functions on pointers, `next[Null]` being the
memory at address 0; `fault` records that a null pointer was dereferenced. One
action per public operation, each through the `..._unsafe` operator it calls.
The history variable `seq` gives the sequence each list should be; the pointer
code never reads it. It also states what callers promise: a node that is
inserted is on no list, a node that is removed is on the list.

Two operations are wrong in one case each: `remove` of the only node leaves
`root` pointing at it with null links, and `pop_back` of an empty list reads
through a null `root` (its test comes one line later). The constants
`RemoveSole` and `PopBackEmpty` let callers reach these cases. They are FALSE
in the run and in the theorems; TRUE makes TLC refute `Represents` and
`NoFault`. Of the users in the kernel, only `VmRegion::destroy` and
`cache_free` call `remove`, and nobody calls `pop_back`.

The modules above this one use sequences for lists; `ListRefinement` is what
justifies that.

### VmRegion

Addresses are counted in pages: `allocate_vmr_compact` asserts that sizes are
multiples of the page size and aligns bases. Arithmetic wraps at `VaddrPages`.
(`user_root_` is one byte short of whole pages; the model rounds its size down,
which only a request of size 0 in a full root could tell.) `Fitting` is
`foreach_hole` with the callback of `allocate_vmr_compact`; `Destroy` is the
whole recursion of `destroy()`, whose order is not visible to anybody.
`broken` and `null_read` carry the one defect of the list over: after the only
child of a region was removed, the next use of its list follows null.
`allocate_vmr_sparse`, `map_pages` and `protect` return `NOT_IMPLEMENTED` and
change nothing, so they have no action.

What `base` means is where code and declaration part: `vmregion.h` calls it
absolute, the code stores an offset within the parent. `Confined` takes the
declaration at its word, and `vmr_absolute` refutes it two levels down.
`ConfinedAtZero`, `FirstFit` and `FindsNearest` speak of parents with base 0,
where the two are the same, as they are for the children of `user_root_`.

### Pmm

The loops of `alloc_phys_pages` and `free_phys_pages` take one step per page.
Callers pass an empty list to `alloc_phys_pages` (it overwrites the list, so
pages on it would be lost) and free what they were given, once. The code has
no lock; calls are one after the other.

### Spinlock

A CPU runs its thread or, on top of it, an interrupt handler; `irq` is its
interrupt flag and each `Guard` keeps the flags it saved. `unlock` is two
steps, as in the code: the flags are restored, then the word is cleared, and a
handler may come in between. `ByValue` says which word `spin_lock` works on: the
lock's, as `arch/interface.h` declares, or the one that the assembly of the
x86-64 port is given. The invariants are proved for both.

### RefPtr

Pointers belong to one thread, or to a list used under the lock of its owner;
counts are shared. An operation moves pointers in one step and leaves the
atomic changes of counts it has to make in `todo`, in the order of the code.
`pop_front` takes whatever is at the front; `raced` records the objects that
another thread had when they were popped, about which counts and lifetimes
promise nothing from then on.

### PageTables

A page is its place in the page frame database, and `paddr` the frame whose
number the code computes from it: too high by `Shifted`, because `paddr()`
subtracts the `pfndb_arr` of the loader from an address of the kernel. Tables
are a partial function from (frame, index) to entries. `map_single_page` does
not clear new tables, so a frame shows what it held: something left from before
the boot (`Leftovers`), what a client wrote through an address of its own
(`WriteData`), or the entries of an old table. Each of the four tests and writes
is a step that goes through the recursive address the code computes
(`TableAddress`), translated by the walk of the processor. Pages come from
`PmmSpec`, the atomic specification that `Pmm` is shown to implement.

In `map_pages`, `ec = map_single_page(...)` copies an armed `Result` and
destroys the original, whose destructor panics (`DestroyArmed`): the code as it
is maps one page and stops. `NextPage` and `FreeTables` are what the loop would
go on to do; they are modelled beside the panic, so the rollback and the
mapping of several pages are checked too. The rollback leaves entries that name
freed pages (the FIXME in the code); clients go on after it, and the pages are
handed out again.

So an address may lead anywhere, and little can be said of walks: the property
that holds whatever the tables contain is `PagesAccounted`, about who has each
page. `MappedRight` is what `map_pages` is for; `page_tables_order` refutes it
with clear frames, `Shifted` 0 and no failure, by the order of indices alone.

### Loader and Boot

A machine (`Machines`) is what the boot loader leaves: tags, memory map, place
of the module, kind of image, program headers. The loader runs through its code
in order, `pc` being the place; every loop takes one step per turn. Ranges are
in bytes, because `is_page_reserved` depends on where within a page they end;
memory is a function from frames to what they hold: themselves, zeroes, nodes
of the page frame database (PFNDB), or a copy of another frame. Pointers of
the loader have 32 bits (`AddrFrames`). `lost` is where the model gives up: a
pointer read through null, a tag that was overwritten, code that is not
mapped. `Boot` goes on with `kernel_entry`: the walk over both lists through
the new tables, per-CPU data, gates, interrupt mask, the breakpoint and the
exception handler.

### CString, Stdio, Elf

The string functions work on a memory of six cells of three bits, with words of
two cells for `strlen`; each call is one step and is compared with what the
function does to sequences, as IEEE Std 1003.1 has it (`AsPosix`). `Stdio` takes
formats as sequences of characters and parsed directives, computes the
characters with the arithmetic of the code in 6, 4 and 2 bits for long, int and
short, and sends them through the two buffers, which are one array, as in the
code, with two cells behind it that belong to something else (`Foreign`) and
that no line short enough reaches. `Elf` loads images one after the other into
one context and asks for symbols; without a table the answer is a read through
null (`asked.null`).

## 3. Runs

| run | question | states |
|---|---|---|
| `mutex_one_cpu` | one CPU, three threads, two nested mutexes: do asserts hold, does every waiter get its mutex (liveness)? | 3883 |
| `mutex_two_cpus` | two CPUs, four threads, one mutex: exclusion, ownership across the hand-over, no lost mutex or thread, one list per thread, FIFO refinement | 32900 |
| `sequential` | lists: two, four nodes: rings, no null dereference, iteration, refinement of sequences. Memory: three pages, two callers, requests of 0 to 4: no page lost or in two places, calls atomic and all or nothing. Regions: three below a root of three pages: sorted, disjoint, confined at base 0, tree links, first fit, searches. Library: all memories of six cells, 24,000 directives, three streams with five characters, 40 images: strings, streams, numbers and symbols agree with their definitions | 246580 |
| `atomics` | references: two threads, two variables each, two objects, one list, any pops: exact counts, no leak, no use after free but of what was popped while shared. Spinlocks: two CPUs with handlers, two nested locks: exclusion, interrupts off inside, flags restored | 845729 |
| `paging` | page tables: two clients, five pages, six calls, tables of six entries, frames with leftovers, `Shifted` addresses: each page is in one place, after failed calls too. Boot: 762 machines of about 30 frames: frames partitioned, images intact, tables private, the kernel finds all it needs, and boot ends (liveness) | 97688 |

Seven more runs end in a violation (section 4).

Why the bounds are enough. The mutex needs a holder, a thread that was handed
the mutex, one that queues and one that is about to lock: four threads on two
CPUs; nesting needs two mutexes and is checked on one CPU. A ring of three nodes
is the smallest in which a node has two different neighbours; four nodes and two
lists let one grow while the other shrinks. Three regions make a middle child
whose removal leaves a hole between two others, or a chain of three levels;
sizes of 0, 1 and 2 in three pages fill it exactly or fail. A request for 4 of 3
pages runs into the rollback. Two locks nest, and two CPUs contend; lock words
are 0 or 1. Two slots per thread give self-assignment and assignment between
variables, and a third holder is on the list. Five pages are one more than a
mapping with its tables needs, so the next one runs out at one of its levels and
frees what it took, and a third call is given those pages; the addresses differ
at the first, second and last level. The machines have memory below and beyond
32 bits, holes at unaligned addresses, a first range smaller than the PFNDB,
images that end within and at the end of a page, too little memory for the
tables and none for the PFNDB; tags that lack the kernel or the memory map, or
lie where the loader has cleared them; six entries per table make the identity
map, kernel, stack and PFNDB use all levels. Five characters fill a buffer of
three and the two cells behind it. In `atomics` and `refptr_pop` threads,
variables and objects are interchangeable and declared symmetric, which is sound
for invariants; the other runs have liveness or refinement properties, or
numbered objects, and use no symmetry. `sequential` tells states apart without
the last status that `allocate_vmr_compact` returned (the view `Lasting`), which
no step and no property but the type invariant reads.

Fairness. `NoStarvation` assumes of each CPU that code inside `lock()` and
`unlock()` goes on (weak fairness: nothing disables it but a spinlock, which is
held for a few steps), that threads outside of it yield again and again (strong
fairness: the scheduler is cooperative, `thread_preempt` is a yield, and a
thread that never yields starves everybody by design), and that a thread which
holds a mutex and gets the CPU again and again releases it in the end (strong
fairness, per thread and mutex: critical sections end). Nothing is assumed of
lock(): nobody has to ask for a mutex. `LockProgress` (run `spin_by_value`)
assumes that a CPU executes its instructions (weak fairness), and that critical
sections, outer ones too, and handlers end and interrupts leave the thread time
for its next instruction (strong fairness: an interrupt can come again and
again). `EveryBootEnds` and `BootNotLost` assume that the one CPU goes on: the
code is a straight line with bounded loops.

`CHECK_DEADLOCK FALSE` is used where the model may stop for good: two CPUs run
one thread, an assert failed, a null pointer was followed, or an interrupt
handler spins for a lock of the thread below it.

## 4. Disagreements

Seven runs end in a violation, each of something the repository says:

* `mutex_two_cpus_switch`: *"Atomically put the thread to sleep -- be careful of
  wakeup races"* (`core/mutex.cc`). The spinlock is released before the switch;
  another CPU can wake and run the thread in between, on the same stack.
* `page_tables_order`: the comment on recursive mappings in
  `arch/x86-64/mmu.cc` puts the PML4 index first; `map_single_page` puts it
  last. With equal indices it makes no difference. In the run the access faults.
* `refptr_pop`: *"The list will automatically add and remove references to the
  objects in the list"* (`lib/ebl/linked_list.h`). `pop_front` releases the
  list's reference before it makes the caller's; another thread that drops the
  last one in between frees the object. `OnlyPopDangles` says that this is the
  only way to a use after free.
* `spin_by_value`: `core/spinlock.h` declares `lock()` as `ACQUIRE(lock_)` and
  `unlock()` as `RELEASE(lock_)`. The assembly of `spin_lock` is given the value
  of the lock word for its address, so it sets a bit that `spin_unlock` does not
  clear, and nobody gets a lock again.
* `vmr_absolute`: *"The (absolute) base address of this region"* (`vmregion.h`).
  `allocate_vmr_compact` stores an offset within the parent, and `foreach_hole`
  adds the parent's base to what is absolute already. Below a parent with
  another base than 0 the region lies outside of it.
* `boot_wrap`: *"Search for a cts run of "pages" pages in the range [base,
  limit)"* (`mem.cc`). `limit - pages` wraps around when a range ends below the
  size of the PFNDB; the search then leaves the range, and the PFNDB lies over a
  hole of the memory map. On a PC the low 640 KB are such a range once the PFNDB
  is larger. The images are safe even so (`ImagesSafe` below).
* `boot_lost`: *"Kernel module (cxkernel) not found!"* (`main.cc`). Without the
  tag, and with a last tag of another type, the iterator reads through null
  before the assert; so for the memory map.

Also met while modelling, and visible in the models:

* `string.h` says that the functions are as defined in IEEE Std 1003.1; `strcpy`
  and `strcat` leave out the final 0 and `strstr` finds an empty string at the
  end. `StringsAgree` supplies the 0 (`WithEnd`) and says nothing of an empty
  string; without these two exceptions TLC refutes it.
* `does_overlap_child`: *"Check if the given offset and size overlaps with any
  child region"*. It misses children that reach into the range from below, and
  counts one that begins right behind it. `FindsNearest` claims only that a child
  which begins in the range is reported.
* `%d` reads a `long` where callers pass an `int`; `NumbersReadBack` compares
  with what was passed and leaves out slots in which the two differ.
* A line that fills the buffer of the output stream writes two characters into
  the log's, and a full line of the log writes behind both buffers.
* Symbols are searched without a test that their tables exist.
* `Spinlock::unlock` restores the flags before it releases the lock
  (`spinlock.h`: *"Spinlock WITH disabling interrupts"*): a handler that comes in
  between and wants this lock spins for ever. The model has these states.
* A thread that blocks on a CPU with an empty run queue fails the assert of
  `schedule_next_thread` (there is no idle thread).
* Requests near the end of `vaddr_t` wrap around in `allocate_vmr_compact`;
  `destroy()` leaves `parent_` set.
* `alloc_phys_pages` drops the nodes of a list that is not empty, and the free
  list has no lock: it relies on one CPU.
* `map_pages` panics after its first page, or with none; `Page::paddr()`
  subtracts a pointer that the loader did not shift; new tables are not cleared,
  and tables freed after a failure are still named (see *PageTables*).
* `search_run` never tries the last position of a range. `is_in` compares 32
  bits, and leaves the last byte of a range out, so a page that holds only the
  last byte of an image counts as free (`ImagesIntact` says so). Frames of the
  holes in the memory map are on the free list.
* The multiboot tags are not reserved while the module tag is still needed. The
  rest of the last page of a segment is filled from the file, not cleared.
* The first `cache_alloc` of every slab cache goes on with a null slab.

## 5. Proofs

| theorem | says, for all constants that satisfy the assumptions |
|---|---|
| `MutexProofs!TypeCorrect` | fields stay in range |
| `MutexProofs!Exclusion` | one thread at most is entitled to a mutex |
| `MutexProofs!OwnerNamed` | `owner_` names that thread, which is what the asserts of `lock` and `unlock` test |
| `MutexProofs!HandOver` | a mutex is locked exactly while a thread is entitled to it, and nobody sleeps on a free one |
| `MutexProofs!ListsDisjoint` | a thread is on one list at most, and once |
| `MutexProofs!ThreadsKept` | every thread runs, is ready, or waits |
| `MutexProofs!OneCpuAsserts` | with one CPU, no assert fails |
| `MutexProofs!FifoRefinement` | the mutex implements `FifoMutex` |
| `IntrusiveListProofs!RingsKept` | links are the rings of the sequences (callers do not reach the two bad cases) |
| `IntrusiveListProofs!NoNullDereference` | no operation follows a null pointer (same restriction) |
| `IntrusiveListProofs!ListRefinement` | `IntrusiveList` implements `ListSpec` (same restriction) |
| `SpinlockProofs!LocksExclude` | a spinlock has one holder at most, for both readings of `spin_lock` |
| `SpinlockProofs!NoInterruptInside` | interrupts are off between `lock` and `unlock`, nested or not |
| `SpinlockProofs!FlagsRestored` | outside of locks a thread has the interrupt flag it set itself |
| `PmmProofs!TypeCorrect` | fields stay in range |
| `PmmProofs!PagesConserved` | each page is in one place, in every turn of every loop |
| `PmmProofs!PmmRefinement` | `Pmm` implements `PmmSpec`: calls are atomic, and give all pages or none |
| `VmRegionProofs!TypeCorrect` | fields stay in range (no sum of addresses wraps, here and below) |
| `VmRegionProofs!ChildrenSorted` | children are sorted and disjoint |
| `VmRegionProofs!ChildrenConfined` | children of a region with base 0 lie in its addresses, and no child has a capability its parent lacks |
| `VmRegionProofs!ForestKept` | `parent_` and the lists of children agree |
| `VmRegionProofs!LowestAddress` | in regions with base 0, the allocator finds the lowest aligned address with room if there is one |
| `VmRegionProofs!NearestChild` | in regions with base 0, the search returns the nearest child, and a child that begins in a range is reported |
| `RefPtrProofs!CountsExact` | counts are what the holders added, between any two atomic operations, for objects that were not popped while shared |
| `RefPtrProofs!DanglingFromPop` | what is used after it was freed was popped while another thread had it |
| `RefPtrProofs!ObjectsLiveWhileHeld` | an object at rest, not popped while shared, is allocated exactly while something holds it |
| `PagingProofs!Accounted` | each page is free, on one client's list, or a table of a call that did not fail (any addresses, any contents of frames) |
| `PagingProofs!Partition` | the loader's two lists hold every frame of memory once (any machine) |
| `PagingProofs!ImagesSafe` | loader, module and PFNDB survive all that the loader allocates (any memory map; `Aligned`) |
| `PagingProofs!TablesApart` | the loader's tables are reserved, cleared, apart from images and PFNDB, and no address between the identity map and the recursive entry leads to a table or a free frame (`Aligned`, `Fits`, `SegmentsInModule`) |
| `PagingProofs!Loaded` | the kernel finds its segments, its stack and all nodes of the PFNDB (the same and `KernelFits`) |

*Assumptions.* `Sched!InitAssumption`: each thread starts in one place.
`Mutex!MutexAssumption`: mutexes are numbers, every nonempty set of them has a
largest one (true of finitely many), and null is not a thread. `IntrusiveList!
ListAssumption`: null is not a node. `Spinlock!SpinlockAssumption`: locks are
positive numbers (0 is the address the x86-64 port writes to).
`Pmm!PmmAssumption`: the loader leaves each page once on the free list, and
requests are bounded. `VmRegion!VmRegionAssumption`: the root ends before the
end of `vaddr_t`, and alignments divide it (they are powers of two).
`RefPtr!RefPtrAssumption`: finitely many threads and variables, and null is
neither a thread nor an object. `Paging!PagingAssumption`: a table has two
entries or more. `PageTables!PageTablesAssumption`: the free list has no page
twice, and the PML4 is not on it. `Loader!LoaderAssumption`: sizes are positive,
the identity map fits into one table, and the indices of the kernel lie below
the recursive one. `Loader!MachinesAssumption`: fields have their types, and
loader and module lie where 32 bits reach. TLC evaluates all of them in the
runs.

Some theorems have a hypothesis besides, because the code relies on its callers,
or on the machine, without a test: `~RemoveSole` and `~PopBackEmpty` for the
list (both with a counterexample when they are dropped, see *IntrusiveList*),
and `NoWrap` for regions: the root and any request together, alignment included,
fit below the end of `vaddr_t`. The runs satisfy all of these. For paging:

* `Aligned`: the images begin at a page. The linker script and the boot loader
  see to it; all machines of `paging` satisfy it.
* `Fits`: memory ends within 32 bits, so that a pointer of the loader reaches
  every frame. `SegmentsInModule`: the file contains its segments.
* `KernelFits`: no segment has more in the file than in memory, and segments
  share no page with each other or with the stack. `map_page` keeps an entry
  that is there, so that a shared page would have the contents of the first.

Machines of `paging` satisfy all of these and reach the kernel; others get there
with memory beyond 32 bits, and for those `BootTablesPrivate` and `KernelLoaded`
are checked by TLC only.

*The mutex.* The properties are not inductive alone. `IInv` in `MutexProofs`
adds what the code relies on silently: `SpinlockProtects`, that a thread is at
a label inside the spinlock exactly if it owns it, and that what it tested
there still holds (that is what makes the test and the branch one step);
`GuardOrder`, which points a thread can be at with which guards; `Placement`,
where the current threads and the queued ones can be in the code;
`SleeperListed`, that a thread about to sleep is on a list, unless two CPUs
already run one thread; and `Somewhere`, the part of `NoThreadLost` that is
inductive. Each action is one lemma. `OneCpuAsserts` adds a counting-free
argument: when the run queue is empty and the only running thread blocks, every
other thread waits for a mutex; take the largest mutex that is waited for, its
holder waits for a larger one or is the running thread, which waits for a free
one.

*FIFO.* The abstract queue is the granted thread, if any, followed by
`wait_queue_`; the abstract holder is the thread with a live guard. Each action
is an abstract step or a stutter.

*The list.* `IInv` is `TypeOK`, `Represents`, `NoFault` and `NodeOnce` (a node
is on one list, once), which is what keeps an operation on one list from
touching another. The lemmas `RingInsert` and `RingRemove` say what inserting
into and removing from a ring does to its links; the operations reduce to
them, with one case for the list that becomes or stops being empty.

*The spinlock.* `IInv` adds to `Exclusion` that a lock somebody has is set in the
word `spin_lock` works on (`WordsSet`; under `ByValue` another word than
`spin_unlock` clears, so the converse fails and nothing needs it), that guards
nest in the order of the locks (`Nested`), and two facts about flags:
`SavedFlags`, that only the first guard of a thread can have saved a set flag,
and `FlagsNow`, what the flag is at each place in the code. The handler makes
the difference: it can have come only outside of locks or between the two steps
of the last `unlock()`, where the thread has one guard at most.

*Physical memory.* `Conserved` counts the positions a page has; the proof uses
`Placed`, the same without counting, which is inductive because each turn moves
one page from the end of one list to another. `Underway` relates the lists in
the middle of a call to the snapshot at its beginning: while pages are taken the
free list of the snapshot is the reversed list of the caller followed by what is
left, so the rollback, which pushes to the front, restores its order. It gives
the refinement: the first and last steps of a call are abstract steps, or
stutter, with the snapshot as the abstract state in between.

*Regions.* Here the properties are nearly inductive: `IInv` is `VmrTypeOK`,
`ChildrenOrdered`, `Fitted` (a child ends within the size of its parent, counted
as the code counts) and `ForestLinked` with `Bounded` (every region
ends below `RootSize`, since bases are offsets) and `Unmade`. `Bounded` and
`NoWrap` make the wrapping sums plain ones. Insertion before the first child
beyond the new one keeps the order, which needs that the hole found lies between
two neighbours. `destroy()` takes the least set of regions closed under
`children_` (`Below`) off all lists; that no other list mentions one of them
follows from `ForestLinked`. `LowestAddress` says that the first hole with room,
the next aligned address in it, is the minimum over all addresses: an address
that fits lies in a hole, and an earlier hole would have had room.

*Reference counts.* What a thread owns of an object (`Owns`) is its variables
plus the releases it still has to do, minus the additions; a count is the sum of
this over the threads, and one for the list. The sum is the cardinality of a
union of intervals, so that no induction is needed: `RefsUpdate` says that the
step of one thread changes it by what the thread does to its own part. Begin of
an operation keeps what each side owns, and each atomic operation changes a count
and what its thread owns alike. The invariant `IInv` adds why a thread may add to
a count (`Covered`: it owns a reference, or the list does and is locked, or nobody
else can reach the object, which is the case of `pop_front`), that the thread
about to delete is the only one with the object (`Deleting`), that freed objects
are unreachable (`Freed`) and allocated ones counted or on their way (`Allocated`).
The heart is `LastReference`: the thread that takes a count from 1 to 0 owns the
whole sum, so the others own nothing, and by `Covered` none of them is about to
add. All this is said of the objects outside `raced`: an object enters it in the
step that pops it, if another thread has it then, and the clauses of the other
objects do not depend on what becomes of it.

*The kernel's pages.* `PagesInv` says of each page that it is in one of three
places (`InOnePlace`), that lists have no page twice, and that the pages handed
out alone are the tables of calls that returned and of the one underway. It
mentions no entry: nothing that a table contains, and no address, enters the
argument, so that it holds after a failure and for frames with any contents.

*The loader.* Five invariants, each inductive given the ones before it. The
loader touches memory through `pmm_alloc_page` and `map_page` only, so most
steps reduce to two facts about memory: `Grown` (frames move from the free list
to the reserved one) and `Kept` (images and PFNDB hold what they held).
`ListsInv` counts the frames put on the lists so far; `ImagesInv` knows the four
reserved ranges and that no frame of an image or the PFNDB is on the free list;
`LoopInv` says how far the loops have come at each place in the code, and that
segments passed their asserts. `TablesInv` says that the tables are a tree: some
function gives each table its level and the indices on the way to it, and
entries of the last level are for the pages mapped so far (`Done`), each of a
frame that is neither free nor a table (`Apart`), unless it is in the identity
map. A quantifier over such functions replaces the recursion over the walk:
`MapPageShape` extends the function by at most three new tables. `ContentInv`
says what the mapped pages hold. It rests on `MapPageTranslates`, that a page
not in `Done` leads, after `map_page`, where it was asked to, and on `MapsNew`,
that the loops map each page once.

The runs check the properties that these invariants imply, which shows that
neither is about an empty set of states; `TablesInv` and `ContentInv` themselves
quantify over functions and numbers that TLC cannot enumerate.

*Only model-checked:*

* liveness (`NoStarvation`, `EveryBootEnds`), which needs fairness;
* machines with memory beyond 32 bits, for the tables and the contents the
  loader leaves (see above);
* `IterationVisitsAll`: the walk is a recursive function, and what it returns
  for every list needs induction over its length; `RingsKept` gives the links it
  follows;
* strings, numbers and symbols (`CString`, `Stdio`, `Elf`): what a recursive
  function computes for every input needs induction over data too.

## 6. Not modelled

* Memory orders: atomic operations are sequentially consistent. `lock_` words
  and counts are the only data shared without a lock.
* The contents of a context switch (registers, stacks).
* Port I/O and its waiting loops, descriptor tables, the text of messages: no
  state that a later step depends on.
* TLB entries: nothing unmaps a page.
* The slab allocator: nothing of it can be reached past its first call, see
  above. `grow_heap` of the x86-64 port returns null as well.
* Bit fields, type traits, `new` and the C++ runtime: no state, and `bit.h` has no
  user.
* `irq_install_handler` and its relatives, which have no caller.

## 7. Plan

`Slab`, once the code gets past its first allocation: conservation of objects
and membership in the three lists by `inuse`.
