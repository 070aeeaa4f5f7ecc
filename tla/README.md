# TLA+ specifications of OSHomeWork

The repository is a set of operating-system exercises: patches and modified
files of Linux 5.15.178, two UEFI applications, a FUSE file system and
user-space libraries and tests.  This directory specifies the parts of it that
have state and concurrency, checks them with TLC on small instances, and proves
the core with TLAPS for every instance.

## 1. Inventory

| Component | Source | State | Operations | What is hard about it |
|---|---|---|---|---|
| KV system calls | `linux-5.15.178/kernel/kv_store.c`, `include/linux/sched.h` | 1024 chains of nodes, one spinlock each, per process | `write_kv`, `read_kv` | two writers of an absent key; allocation failure under the lock; negative keys; a NULL store |
| KV lifetime, reference counted | `syscall/kv_syscall/kv_store.patch` | `task->kv`, `ref_cnt` | hook in `copy_process`, `init_kv_store`, `cleanup_kv_store` in `do_exit` | last exits, forks and calls of one process race; forks fail after the hook |
| KV lifetime of the tree | `kernel/kv_store.c`, `kernel/fork.c` | `task->kv` without a count | hook in `copy_process`, `init_task_kv_store`, `cleanup_task_kv_store` (no caller) | nothing frees a store |
| KV library, tests, Lua binding | `syscall/kv_syscall/*` | none | wrappers of `syscall()` | the range of error numbers that `syscall()` folds into -1 |
| Fork | `kernel/fork.c` | tasks, reference counted `files`, `fs`, `sighand`, `signal`, `mm`, `io_context`, pids, RLIMIT_NPROC, `nr_threads` | `copy_process` and its twenty unwinding labels, `kernel_clone`, `unshare` | partial failure at every step; limits checked by concurrent forks; signals that arrive during a fork |
| Address spaces | `kernel/fork.c` | `mm_users`, `mm_count`, `exe_file` | `mmget`/`mmput`/`mmdrop`, `get_task_mm`, `dup_mm`, `replace_mm_exe_file` | the two counts; readers under RCU |
| vfork | `kernel/fork.c` | `vfork_done`, completion | `wait_for_vfork_done`, `mm_release`, `complete_vfork_done` | parent killed while the child completes |
| Kernel stacks and task_struct | `kernel/fork.c` | per-CPU cache of two stacks, `stack_refcount`, `usage` | `alloc_thread_stack_node`, `free_thread_stack`, `put_task_stack`, `free_task` | a stack handed out twice |
| Socket fairness | `network/socket/socket.patch` | per task limit, count | check, increment, decrement, `configure` system call | creator and closer differ; the check and the increment are apart |
| ramfs synchronisation | `memctrl/ramfs/ramfs.patch` | file data in memory, target directory | `ramfs_fsync`, `ramfs_sync_file_to_disk` | crash between the steps, two fsyncs at once |
| mmap write | `memctrl/mmap/impl.c` | a file, its size, its mapping | `mmap_remap`, `file_mmap_write` | `fstat` and `ftruncate` of two writers |
| inode helpers | `filesystem/inode/impl.c` | none | wrappers of xattr calls | nothing |
| GPT file system | `filesystem/fuse/GPT_FUSE.py` | sessions with input, output and error | `mkdir`, `write`, `read`, `truncate`, ... | types of the stored data; writes at an offset |
| vDSO task page | `arch/x86/entry/vdso/vma.c`, `vgetinfo.c`, `syscall/vdso/vDSO.patch` | the vvar, vtask and text mappings of a process | `map_vdso`, `vtask_fault`, `vdso_mremap`, `vdso_join_timens` | layout shared by kernel and user code; the mapping moves |
| Hardware information | `drivers/firmware/efi/efi_custom_hwinfo.c`, `HardwareInfoAppPkg/` | an ACPI table, its checksum, a sysfs file | install, validate, show, timer refresh | producer and consumer agree on the layout |
| UEFI hello | `HelloWorldPkg/HelloWorld.c` | none | menus, file listing | nothing |
| tcpdump, NCCL tests | `network/tcpdump`, `network/nccl` | none of its own | packet printing, bandwidth loops | nothing TLC can add |

## 2. Modules

| Module | Models | Extends |
|---|---|---|
| `KvBuckets` | `write_kv`, `read_kv` and the buckets | |
| `KvStore` | stores of processes: the fork hook, `init_kv_store`, `cleanup_kv_store` | `KvBuckets` |
| `KvCpus` | the same on a number of CPUs, with allocations that sleep under a spinlock | `KvStore` |
| `KvMap` | what a program may expect: one map per process (abstract) | |
| `KvCallProofs`, `KvInsertProofs`, `KvForkProofs`, `KvExitProofs`, `KvStoreProofs` | the inductive invariant action by action, and the theorems | `KvStore` |
| `Fork` | `copy_process`: references taken, labels run through on failure | |
| `ForkLimits` | RLIMIT_NPROC and `max_threads` | |
| `ForkSignals` | delayed group signals and SIGKILL during a fork | |
| `Vfork` | `CLONE_VFORK`: the completion on the parent's stack | |
| `SocketFair` | limits on sockets per thread | |
| `MCKvStore`, `MCFork`, `MCForkLimits`, `MCSocketFair` | constants and symmetry for TLC | the module they name |

The five views of `copy_process` are separate modules because they share only
the program counter: the references it counts (`Fork`), the two limits, the
signal lock, the vfork completion and the kv hook guard different state, and a
product of them would only multiply their states.

### KvBuckets and KvStore

`head`, `lock`, `node` and `heap` are the fields of `struct kv_store` and the
memory of its nodes; `kv`, `tgid` are fields of `task_struct`; `ref` is
`ref_cnt`; `call`, `entry` and `ret` are the locals of a system call.  A call is
five steps of its task: `Syscall`, `SpinLock` (or `NullFault` if `current->kv`
is NULL), `WriteScan` or `ReadScan`, `Update`, `Insert` or `InsertFails`, and
`SpinUnlock`.  The hash `k & 1023` is `k % NBuckets`, which for TLA+'s modulo is
also right for negative keys.  A fork is two steps, the hook and the rest of
`copy_process`, which may fail (`CloneFails`); an exit drops the reference and,
if it was the last, frees bucket after bucket and then the store.

The two variants of the store, in the tree and in the patch, have the same
system calls.  `KvStore` has the patch's lifetime; the tree's, in which nothing
calls `cleanup_task_kv_store`, is not modelled yet.

`AbstractMap` and the definitions around it map a state of `KvStore` to one of
`KvMap`: a call takes effect when its task moves to `unlock`.

`KvCpus` adds what progress depends on.  `spin_lock` turns preemption off, so a
task that spins or is in a bucket is `Pinned` to its CPU, and a machine has
`NCpus` of them.  `kmalloc(GFP_KERNEL)` at `kv_store.c:45` may sleep: the writer
is then in `asleep`, off its CPU and still holding the bucket, and needs a free
CPU to go on.  Tasks that can be preempted need only some free CPU, so where they
run is not recorded.  A kernel built to count preemption reports such a sleep
instead.

### Fork

`Steps` lists the steps of `copy_process` that can fail, in the order of the code
and with the label each one goes to; `held` and `own` are what the child has got.
A step that touches only the child is taken together with the next one that
counts a reference: no other task can tell the difference.  A failure runs
through all labels from its own down.  The kv hook (`fork.c:2263-2268`) is one of
the steps: for a child that is not a thread it allocates a store, or gets none and
goes on all the same, and no label gives the store back.  `held` keeps it with the
memory of the child until that memory is used again.  When the child is published
its store is its own and the pidfd the parent's (`Handed`).  The checks of the pid
and time namespaces take any answer, for `unshare` and `setns` are not modelled.
`exit` is external: it puts what the task has.

### ForkLimits, ForkSignals, Vfork

`ForkLimits` separates `copy_creds` (which raises the count of the user) from the
check of that count, and the check of `max_threads` from the increment of
`nr_threads` under `tasklist_lock`.  The variable `privileged` is chosen once.

`ForkSignals` has a sender that walks the process group one process at a time,
threads that are killed at any point, the `multiprocess` list, the last look at
pending signals under `siglock`, and the restart of a fork that finds one.
`before` is what the process had done about the signal when its memory was
copied.  The signal is one that is not blocked.

`Vfork` keeps the completion by its owner, `task_lock`, and the references to the
child's `task_struct`: `wait_for_vfork_done` clears the child's pointer under
`task_lock` when the parent is killed, `complete_vfork_done` reads it under the
same lock.  `mm_release`'s callers (`exec`, `exit`) are external.

### SocketFair

One step for the check in `__sock_create`, one for the increment, one for each
failure in between, one for the decrement in `__sock_release`, charged to the
thread that runs it.  `highest` and `bound` are history variables: the highest
limit a thread has had, and what the limit it was last configured with promises
(the limit, or what it was charged at that moment if that was more).  `socket.patch` defines
`socket_fairness_init` twice; the inline one of the header, which the code
includes, is modelled.  `accept`, whose sockets are never counted up, is left out.

## 3. Runs

| Run | Shows | States |
|---|---|---|
| `kv_calls` | `Linearizable` (refinement of `KvMap`), `MutualExclusion`, `UniqueKeys`, `NodesAccounted` with keys that collide, differ and are negative | 463,419 |
| `kv_lifetime` | `RefCountCovers`, `NoUseAfterFree`, `FreeingAlone`, `Isolation`, and refinement, with forks, failed forks and exits of three tasks | 336,047 |
| `kv_progress` | `CallsReturn`, `ExitsFinish` under fairness, up to a machine whose CPUs all spin behind a sleeping writer | 97,214 |
| `kv_leak` | finding: a failed fork leaks its store (`StoreReleased`) | |
| `kv_fault` | finding: a process without a store faults (`CallsNeverFault`) | |
| `fork_unwind` | `CountsCover`, `NothingLeft`, `GroupsShare`: every label puts exactly what was taken, and the kv store is all that is left | 979,547 |
| `fork_pairs` | the first two with four tasks, two forks unwinding at once | 392,912 |
| `fork_limits` | `NprocRespected`, `ThreadsBounded`, `CountsExact` | 570 |
| `fork_signals` | `SignalReachesAll`, `KillReachesThreads`, `ListedAreForking`, `SignalHandled` | 211,298 |
| `vfork` | `CompletionAlive`, `ChildNotFreed`, `ParentSuspended`, `ParentResumes` | 12,176 |
| `socket_limits` | `CountBounded`: a configured limit holds from then on | 610,504 |
| `socket_opened` | finding: a thread may open more sockets than its limit (`OpenedBounded`) | |

States are distinct states, modulo symmetry where the configuration has it.

### Bounds

- Tasks: two for the calls (locks are pairwise), three for lifetimes (two that
  leave and one that stays, or a parent, a child and a sibling), four in
  `fork_pairs` and `vfork` (two forks at once; a nested vfork), seven in
  `fork_limits` (the limit of three can be passed by forks that have all made
  their check).
- Two buckets and keys of which two collide reach every relation between two
  calls; two nodes make allocation fail with the store empty or not.  One key and
  one bucket are enough for lifetimes, which do not look at keys.
- `MaxRef` caps `ref_cnt`: leaked references only ever raise it.
- `CountFloor` caps how far a socket count goes below zero by closing other
  threads' sockets: the count has no floor in the code.
- `Limits` contains values below, at and above `MaxLimit`, and
  `SOCKET_FAIR_DEFAULT_MAX` is between them, as 1024 is below 65536: a limit can be
  raised above the default and lowered below it.
- `NCpus` is two for three tasks: a writer can sleep while one waiter spins (and is
  woken) and while two do (and is not).

The specifications have no state bounds beyond these.  Every run checks for
deadlock but `kv_progress`, where a stalled machine really stops.

### Fairness

`kv_progress` assumes of every task that, if it is able to take its next step in a
call or in its exit again and again, it takes it (strong fairness of `Runs`).  For
a waiter this is the kernel's queued spinlock, for a task that was preempted or
woken it is the scheduler, which gives free CPUs to all in turn.  A task in a
bucket that is not asleep has its CPU.  A task for which there is no CPU is not
able to step, so nothing is assumed of a writer that sleeps while all CPUs spin:
that state is `Stalled`, and the two properties say that it is the only way for a
call or an exit not to end.  It can be reached: `t1` sleeps in `kmalloc`, its
threads `t2` and `t3` call on the same bucket, and both CPUs spin for good.
Nothing makes a program call, fork or exit.  `fork_signals` has weak fairness
for each task's own steps, for the exit of a killed task and for the sender.
`vfork` has weak fairness for the steps of parents and children inside the
kernel only: no child need ever `exec` or exit, so `ParentResumes` is about
parents whose child has given the memory back.

### Findings

1. `copy_process` allocates the store (or takes a reference) before steps that
   can still fail, and no `bad_fork` label gives it back.
2. `init_kv_store` ignores a failed allocation; the child then has a NULL store,
   and its first call dereferences it instead of returning -1.
3. A socket's release is charged to the thread that closes it, so that thread can
   have more sockets open than its limit.

Two more were met and have no run of their own:

- A `write_kv` that sleeps in `kmalloc` under the bucket's spinlock can stall the
  machine (`Stalled`, see Fairness); `CallsReturn` excludes every other hang.
- `socket.patch` says that a limit of 0 is "no limit" (line 287) and that the
  feature "only activates when explicitly configured" (line 180).  The code that is
  built refuses every socket at 0 and holds threads that were never configured to
  the default of 1024.  `CountBounded` is about configured limits above 0, where
  they agree.

## 4. Proofs

All theorems are in `KvStoreProofs` and are about `KvStore!Spec` for any finite
set of tasks, any stores, nodes, keys, values, number of buckets and `MaxRef`.  The
assumptions are the `ASSUME`s of `KvBuckets` and `KvStore`: finitely many tasks,
at least one bucket, integer keys and values, `NULL` apart from everything.

| Theorem | Statement |
|---|---|
| `Invariance` | `Spec => []IInv` |
| `TypeCorrect` | `Spec => []TypeOK` |
| `MutualExclusionHolds` | `Spec => []MutualExclusion` |
| `UniqueKeysHolds` | `Spec => []UniqueKeys` |
| `RefCountCoversHolds` | `Spec => []RefCountCovers` |
| `FreeingAloneHolds` | `Spec => []FreeingAlone` |
| `NoUseAfterFreeHolds` | `Spec => []NoUseAfterFree` |

None of the properties is inductive by itself.  `IInv` is the conjunction of

- `CallInv`: a task in a call holds the lock of its bucket.  Without it an
  insertion could meet another one.
- `EntryInv`: what a walk found (or did not find) stays true until the unlock;
  this is what `UniqueKeys` needs when a node is inserted.
- `ChainInv`: chains hold allocated nodes, each at one place, so an insertion or
  a free in one chain leaves the others alone.
- `LifeInv`: counts cover holders, a task that frees is alone in its store, and
  every task's store is allocated.  A count that drops to zero means that the
  leaving task was the only holder, by the cardinality of `Holders`.
- `CloneInv`: the child of a running fork belongs to that fork only.
- `TypeOK` and `UniqueKeys`.

There is one lemma per action (`SpinLockInv`, `InsertInv`, `ExitInv`, ...), with a
step per conjunct the action can disturb; `NextInv` puts them together.

Only model-checked: the refinement of `KvMap` (`Linearizable`), `NodesAccounted`
and `Isolation`, everything about `Fork`, `ForkLimits`, `ForkSignals`, `Vfork` and
`SocketFair`, and all liveness, which with `ENABLED` is out of the prover's reach.

## 5. Not modelled

- The UEFI hello program, the tcpdump and NCCL programs and the inode helpers
  keep no state of their own; headers, tables and build files have no behaviour.
- The KV tests and bindings only wrap the system calls.
- The tree's KV lifetime, address spaces, stacks, `unshare`, `clone3`'s arguments,
  ramfs synchronisation, the mmap writer, the GPT file system, the vDSO page and
  the hardware table are planned below.

## 6. Plan

1. `RamfsSync`: `fsync` as mkdir, open with truncation and copy, against crashes
   and a second `fsync`; the promise of the comment on
   `ramfs_sync_file_to_disk`; `build_relative_dir` and its limit of 32 levels.
2. `MmLife` (`mm_users`, `mm_count`, `exe_file`, `get_task_mm`), `Unshare`,
   `StackCache` (the two cached stacks, `stack_refcount`), `CloneArgs`,
   `WalkTree`.
3. `KvStoreTree`, with the composition of `KvBuckets` and the tree's hook.
4. `MmapWrite`, `GptFs`, `Vdso`, `HwInfo` (the checksum against its definition).
5. Theorems: `CountsExact` and `NprocRespected` of `ForkLimits`, `CompletionAlive`
   and `ChildNotFreed` of `Vfork`, `CountBounded` of `SocketFair`, `CountsCover` of
   `Fork`, then the refinement of `KvMap`.
