-------------------------------- MODULE Fork --------------------------------
(***************************************************************************)
(* copy_process of kernel/fork.c run by several tasks at once: the child   *)
(* starts as a copy of its parent's task_struct and gets its own           *)
(* references one step at a time, each step can fail, and a failure jumps  *)
(* to one of the bad_fork labels and runs through all the labels below it. *)
(* Steps that touch nothing but the child are taken in one go up to the    *)
(* next one that counts references.  The kv hook of copy_process is a step *)
(* that no label undoes.  The limits on the number of tasks are in         *)
(* ForkLimits, signals in ForkSignals, the life of a store in KvStore;     *)
(* exit is external.                                                       *)
(***************************************************************************)
EXTENDS Integers, Sequences, FiniteSets

CONSTANTS
  Tasks,        \* memory for task_structs
  InitTask,     \* pid 1: it never exits
  Kinds,        \* the kinds of shared objects whose references are counted
  Objs,         \* memory for the objects of each kind, numbers
  CloneFlags,   \* the sets of flags that programs pass
  NULL

ASSUME InitTaskAssumption == InitTask \in Tasks /\ IsFiniteSet(Tasks)
ASSUME ObjsAssumption == Objs \subseteq Nat \ {0} /\ 1 \in Objs /\ NULL \notin Objs
ASSUME NULLAssumption == NULL \notin Tasks

VARIABLES
  own,          \* the pointer of each task_struct for each kind of object
  count,        \* the reference count of each object, 0 when it is free
  held,         \* what else was allocated for a task, by the step that did it
  pc,           \* what a task is doing
  at,           \* the step, or the label, of copy_process a task has come to
  child,        \* the task_struct its copy_process is filling
  flags         \* clone_flags of that copy_process

vars == <<own, count, held, pc, at, child, flags>>

\* Objects that tasks share, with the clone flag that shares them.
FlagOf == [files |-> "FILES", fs |-> "FS", sighand |-> "SIGHAND",
           signal |-> "THREAD", mm |-> "VM", io |-> "IO"]

ASSUME KindsAssumption == Kinds \subseteq DOMAIN FlagOf

\* The steps that allocate or can fail, in their order, with the label they then
\* go to.  copy_process does not look at what init_task_kv_store returns.
Steps == <<
  [step |-> "dup_task_struct",      fail |-> "fork_out"],
  [step |-> "copy_creds",           fail |-> "bad_fork_free"],
  [step |-> "nproc",                fail |-> "bad_fork_cleanup_count"],
  [step |-> "max_threads",          fail |-> "bad_fork_cleanup_count"],
  [step |-> "mpol_dup",             fail |-> "bad_fork_cleanup_threadgroup_lock"],
  [step |-> "sched_fork",           fail |-> "bad_fork_cleanup_policy"],
  [step |-> "perf_event_init_task", fail |-> "bad_fork_cleanup_policy"],
  [step |-> "audit_alloc",          fail |-> "bad_fork_cleanup_perf"],
  [step |-> "security_task_alloc",  fail |-> "bad_fork_cleanup_audit"],
  [step |-> "copy_semundo",         fail |-> "bad_fork_cleanup_security"],
  [step |-> "copy_files",           fail |-> "bad_fork_cleanup_semundo"],
  [step |-> "copy_fs",              fail |-> "bad_fork_cleanup_files"],
  [step |-> "copy_sighand",         fail |-> "bad_fork_cleanup_fs"],
  [step |-> "copy_signal",          fail |-> "bad_fork_cleanup_sighand"],
  [step |-> "copy_mm",              fail |-> "bad_fork_cleanup_signal"],
  [step |-> "copy_namespaces",      fail |-> "bad_fork_cleanup_mm"],
  [step |-> "copy_io",              fail |-> "bad_fork_cleanup_namespaces"],
  [step |-> "copy_thread",          fail |-> "bad_fork_cleanup_io"],
  [step |-> "alloc_pid",            fail |-> "bad_fork_cleanup_thread"],
  [step |-> "pidfd",                fail |-> "bad_fork_free_pid"],
  [step |-> "put_user",             fail |-> "bad_fork_put_pidfd"],
  [step |-> "init_task_kv_store",   fail |-> "ignored"],
  [step |-> "cgroup_can_fork",      fail |-> "bad_fork_put_pidfd"],
  [step |-> "tasklist",             fail |-> "bad_fork_cancel_cgroup"] >>

\* The labels, in their order, with the step or the object each one undoes.
Labels == <<
  [label |-> "bad_fork_cancel_cgroup",            undo |-> "cgroup_can_fork"],
  [label |-> "bad_fork_put_pidfd",                undo |-> "pidfd"],
  [label |-> "bad_fork_free_pid",                 undo |-> "alloc_pid"],
  [label |-> "bad_fork_cleanup_thread",           undo |-> "copy_thread"],
  [label |-> "bad_fork_cleanup_io",               undo |-> "io"],
  [label |-> "bad_fork_cleanup_namespaces",       undo |-> "copy_namespaces"],
  [label |-> "bad_fork_cleanup_mm",               undo |-> "mm"],
  [label |-> "bad_fork_cleanup_signal",           undo |-> "signal"],
  [label |-> "bad_fork_cleanup_sighand",          undo |-> "sighand"],
  [label |-> "bad_fork_cleanup_fs",               undo |-> "fs"],
  [label |-> "bad_fork_cleanup_files",            undo |-> "files"],
  [label |-> "bad_fork_cleanup_semundo",          undo |-> "copy_semundo"],
  [label |-> "bad_fork_cleanup_security",         undo |-> "security_task_alloc"],
  [label |-> "bad_fork_cleanup_audit",            undo |-> "audit_alloc"],
  [label |-> "bad_fork_cleanup_perf",             undo |-> "perf_event_init_task"],
  [label |-> "bad_fork_cleanup_policy",           undo |-> "mpol_dup"],
  [label |-> "bad_fork_cleanup_threadgroup_lock", undo |-> "nothing"],
  [label |-> "bad_fork_cleanup_count",            undo |-> "copy_creds"],
  [label |-> "bad_fork_free",                     undo |-> "dup_task_struct"],
  [label |-> "fork_out",                          undo |-> "nothing"] >>

\* Steps that allocate something for every child alone.
Private == {"dup_task_struct", "copy_creds", "mpol_dup", "perf_event_init_task",
            "audit_alloc", "security_task_alloc", "copy_semundo", "copy_namespaces",
            "copy_thread", "alloc_pid", "cgroup_can_fork"}

\* What some children get as well: the pidfd goes to the parent's descriptors and
\* the store to the child when it is published.
Handed == {"pidfd", "init_task_kv_store"}

Copies == [copy_files |-> "files", copy_fs |-> "fs", copy_sighand |-> "sighand",
           copy_signal |-> "signal", copy_mm |-> "mm", copy_io |-> "io"]

\* The copy steps that count references.
CopySteps == {s \in DOMAIN Copies : Copies[s] \in Kinds}

At(t, s) == pc[t] = "copy" /\ Steps[at[t]].step = s

Advance(t) == at' = [at EXCEPT ![t] = @ + 1]

\* Tasks on the task list.
Visible == {t \in Tasks : pc[t] \notin {"none", "embryo"}}

NoObjs == [k \in Kinds |-> NULL]

\* The free object of a kind that the allocator gives; which one is all the same.
Fresh(k, o) ==
  /\ o \in Objs
  /\ count[k][o] = 0
  /\ \A x \in Objs : count[k][x] = 0 => o <= x

Init ==
  \E io \in {NULL, 1} :
    /\ own = [t \in Tasks |-> IF t = InitTask
                              THEN [k \in Kinds |-> IF k = "io" THEN io ELSE 1]
                              ELSE NoObjs]
    /\ count = [k \in Kinds |-> [o \in Objs |->
                  IF o = 1 /\ (k = "io" => io = 1) THEN 1 ELSE 0]]
    /\ held = [t \in Tasks |-> IF t = InitTask THEN Private ELSE {}]
    /\ pc = [t \in Tasks |-> IF t = InitTask THEN "user" ELSE "none"]
    /\ at = [t \in Tasks |-> 1]
    /\ child = [t \in Tasks |-> NULL]
    /\ flags = [t \in Tasks |-> {}]

\* Mutant: threads need not share the signal handlers.
FlagsOKNoSighand(t, F, differ) ==
  /\ ~({"NEWNS", "FS"} \subseteq F)
  /\ ~({"NEWUSER", "FS"} \subseteq F)
  /\ "SIGHAND" \in F => "VM" \in F
  /\ "PARENT" \in F => t # InitTask
  /\ "THREAD" \in F => F \cap {"NEWUSER", "NEWPID"} = {} /\ "pid" \notin differ
  /\ F \cap {"THREAD", "VM"} # {} => "time" \notin differ
  /\ "PIDFD" \in F => F \cap {"DETACHED", "THREAD"} = {}

\* The combinations of flags that copy_process takes from a task whose children
\* would be in other namespaces than itself: those in differ.
FlagsOK(t, F, differ) ==
  /\ ~({"NEWNS", "FS"} \subseteq F)
  /\ ~({"NEWUSER", "FS"} \subseteq F)
  /\ "THREAD" \in F => "SIGHAND" \in F
  /\ "SIGHAND" \in F => "VM" \in F
  /\ "PARENT" \in F => t # InitTask
  /\ "THREAD" \in F => F \cap {"NEWUSER", "NEWPID"} = {} /\ "pid" \notin differ
  /\ F \cap {"THREAD", "VM"} # {} => "time" \notin differ
  /\ "PIDFD" \in F => F \cap {"DETACHED", "THREAD"} = {}

\* clone with flags F.  Which namespaces differ is up to earlier calls of unshare
\* and setns.
Clone(t, F) ==
  /\ pc[t] = "user"
  /\ \E differ \in SUBSET {"pid", "time"} : FlagsOK(t, F, differ)
  /\ pc' = [pc EXCEPT ![t] = "copy"]
  /\ at' = [at EXCEPT ![t] = 1]
  /\ flags' = [flags EXCEPT ![t] = F]
  /\ UNCHANGED <<own, count, held, child>>

\* *tsk = *orig: every pointer of the child is its parent's, without a reference.
\* A store that an earlier fork left in this memory is out of reach now.
DupTaskStruct(t, c) ==
  /\ At(t, "dup_task_struct")
  /\ pc[c] = "none"
  /\ own' = [own EXCEPT ![c] = own[t]]
  /\ held' = [held EXCEPT ![c] = {"dup_task_struct"}]
  /\ child' = [child EXCEPT ![t] = c]
  /\ pc' = [pc EXCEPT ![c] = "embryo"]
  /\ Advance(t)
  /\ UNCHANGED <<count, flags>>

\* The steps that touch nothing but the child, and what they allocate for it.
Local(t, i) == Steps[i].step \notin CopySteps \cup {"dup_task_struct", "tasklist"}

Taken(t, i) ==
  LET s == Steps[i].step IN
  IF \/ s \in Private
     \/ s = "pidfd" /\ "PIDFD" \in flags[t]
     \/ s = "init_task_kv_store" /\ "THREAD" \notin flags[t]
  THEN {s} ELSE {}

\* The local steps before j have been taken; kmalloc may have given no store.
TakenUpTo(t, j) ==
  LET all == UNION {Taken(t, i) : i \in at[t] .. (j - 1)} IN
  \E missing \in SUBSET ({"init_task_kv_store"} \cap all) :
    held' = [held EXCEPT ![child[t]] = @ \cup (all \ missing)]

\* All the local steps up to the next one that is not.  Among them p->io_context
\* and, in copy_mm, p->mm are cleared.
TakeLocal(t) ==
  /\ pc[t] = "copy"
  /\ Local(t, at[t])
  /\ \E j \in DOMAIN Steps :
       /\ j > at[t]
       /\ ~Local(t, j)
       /\ \A i \in at[t] .. (j - 1) : Local(t, i)
       /\ TakenUpTo(t, j)
       /\ at' = [at EXCEPT ![t] = j]
       /\ own' = IF at[t] < 4 /\ "io" \in Kinds
                 THEN [own EXCEPT ![child[t]].io = NULL] ELSE own
  /\ UNCHANGED <<count, pc, child, flags>>

\* Mutant: the child shares the object without a reference.
ShareNoRef(t) ==
  \E s \in CopySteps :
    /\ At(t, s)
    /\ FlagOf[Copies[s]] \in flags[t] \/ own[t][Copies[s]] = NULL
    /\ own' = [own EXCEPT ![child[t]][Copies[s]] = own[t][Copies[s]]]
    /\ Advance(t)
    /\ UNCHANGED <<count, held, pc, child, flags>>

\* copy_files, copy_fs, copy_sighand, copy_mm and copy_io with their flag: the
\* child gets a reference to its parent's object.  copy_signal leaves sigcnt
\* alone until the child is published.
Share(t) ==
  \E s \in CopySteps :
    LET k == Copies[s]
        o == own[t][k] IN
    /\ At(t, s)
    /\ FlagOf[k] \in flags[t] \/ o = NULL
    /\ own' = [own EXCEPT ![child[t]][k] = o]
    /\ count' = IF k = "signal" \/ o = NULL THEN count ELSE [count EXCEPT ![k][o] = @ + 1]
    /\ Advance(t)
    /\ UNCHANGED <<held, pc, child, flags>>

\* The same without the flag: the child gets an object of its own, and no
\* io_context if the parent's has no priority.
Copy(t) ==
  \E s \in CopySteps :
    LET k == Copies[s] IN
    /\ At(t, s)
    /\ FlagOf[k] \notin flags[t]
    /\ own[t][k] # NULL
    /\ \/ \E o \in Objs :
            /\ Fresh(k, o)
            /\ own' = [own EXCEPT ![child[t]][k] = o]
            /\ count' = [count EXCEPT ![k][o] = 1]
       \/ /\ k = "io"
          /\ UNCHANGED <<own, count>>
    /\ Advance(t)
    /\ UNCHANGED <<held, pc, child, flags>>

\* Mutant: a thread takes no reference to the signal_struct.
PublishNoSigcnt(t) ==
  /\ At(t, "tasklist")
  /\ held' = [held EXCEPT ![child[t]] = @ \ Handed]
  /\ pc' = [pc EXCEPT ![t] = "wake", ![child[t]] = "new"]
  /\ UNCHANGED <<own, count, at, child, flags>>

\* The critical section under tasklist_lock and siglock: the child goes on the
\* task list, and a thread takes its reference to the signal_struct.
Publish(t) ==
  /\ At(t, "tasklist")
  /\ count' = IF "THREAD" \in flags[t] /\ "signal" \in Kinds
              THEN [count EXCEPT !["signal"][own[t].signal] = @ + 1] ELSE count
  /\ held' = [held EXCEPT ![child[t]] = @ \ Handed]
  /\ pc' = [pc EXCEPT ![t] = "wake", ![child[t]] = "new"]
  /\ UNCHANGED <<own, at, child, flags>>

\* wake_up_new_task in kernel_clone.
WakeUpNewTask(t) ==
  /\ pc[t] = "wake"
  /\ pc' = [pc EXCEPT ![t] = "user", ![child[t]] = "user"]
  /\ child' = [child EXCEPT ![t] = NULL]
  /\ flags' = [flags EXCEPT ![t] = {}]
  /\ at' = [at EXCEPT ![t] = 1]
  /\ UNCHANGED <<own, count, held>>

\* The steps that can fail with these flags.
CanFail(t, s) ==
  /\ s # "init_task_kv_store"
  /\ s \in {"pidfd", "put_user"} => "PIDFD" \in flags[t]
  /\ s \in DOMAIN Copies \ {"copy_fs"} =>
       /\ FlagOf[Copies[s]] \notin flags[t]
       /\ s \in CopySteps => own[t][Copies[s]] # NULL

\* A failed step leaves what its code has already stored in the task_struct.
FailedPointer(t, s) ==
  CASE s = "copy_fs" /\ "FS" \in flags[t] -> own
    [] s \in {"copy_fs", "copy_sighand", "copy_signal", "copy_mm"} \cap CopySteps ->
         [own EXCEPT ![child[t]][Copies[s]] = NULL]
    [] OTHER -> own

\* Mutant: a failed step goes to the label after its own.
FailStepLate(t) ==
  /\ pc[t] = "copy"
  /\ Steps[at[t]].step \in CopySteps
  /\ CanFail(t, Steps[at[t]].step)
  /\ own' = FailedPointer(t, Steps[at[t]].step)
  /\ at' = [at EXCEPT ![t] =
       1 + CHOOSE i \in DOMAIN Labels : Labels[i].label = Steps[at[t]].fail]
  /\ pc' = [pc EXCEPT ![t] = "undo"]
  /\ UNCHANGED <<count, held, child, flags>>

\* Step j fails, after the local ones before it.
FailStep(t) ==
  /\ pc[t] = "copy"
  /\ \E j \in DOMAIN Steps :
       /\ j >= at[t]
       /\ j > at[t] => \A i \in at[t] .. j : Local(t, i)
       /\ CanFail(t, Steps[j].step)
       /\ own' = FailedPointer(t, Steps[j].step)
       /\ IF j = at[t] THEN UNCHANGED held ELSE TakenUpTo(t, j)
       /\ at' = [at EXCEPT ![t] =
            CHOOSE i \in DOMAIN Labels : Labels[i].label = Steps[j].fail]
  /\ pc' = [pc EXCEPT ![t] = "undo"]
  /\ UNCHANGED <<count, child, flags>>

\* Mutant: bad_fork_cleanup_signal does not look at CLONE_THREAD.
PutThread(t, k) ==
  LET o == own[child[t]][k] IN
  count' = IF o = NULL THEN count
           ELSE [count EXCEPT ![k][o] = IF k = "signal" THEN 0 ELSE @ - 1]

\* Mutant: bad_fork_cleanup_signal frees no signal_struct.
PutNoSignal(t, k) ==
  LET o == own[child[t]][k] IN
  count' = IF o = NULL \/ k = "signal" THEN count ELSE [count EXCEPT ![k][o] = @ - 1]

\* What a label does with an object: the thread's signal_struct is its group's,
\* another one is freed whatever its count.
Put(t, k) ==
  LET o == own[child[t]][k] IN
  count' = IF o = NULL \/ (k = "signal" /\ "THREAD" \in flags[t])
           THEN count
           ELSE [count EXCEPT ![k][o] = IF k = "signal" THEN 0 ELSE @ - 1]

\* A label that puts an object.
UndoObject(t) ==
  /\ pc[t] = "undo"
  /\ Labels[at[t]].undo \in Kinds
  /\ Put(t, Labels[at[t]].undo)
  /\ Advance(t)
  /\ UNCHANGED <<own, held, pc, child, flags>>

\* The labels up to the next one that puts an object, or to fork_out.
UndoLocal(t) ==
  /\ pc[t] = "undo"
  /\ \E j \in DOMAIN Labels :
       LET undone == {Labels[i].undo : i \in at[t] .. (j - 1)} IN
       /\ j > at[t]
       /\ j < Len(Labels) => Labels[j].undo \in Kinds
       /\ undone \cap Kinds = {}
       /\ at' = [at EXCEPT ![t] = j]
       /\ held' = [held EXCEPT ![child[t]] = @ \ undone]
       /\ IF "dup_task_struct" \in undone
          THEN /\ own' = [own EXCEPT ![child[t]] = NoObjs]
               /\ pc' = [pc EXCEPT ![child[t]] = "none"]
               /\ child' = [child EXCEPT ![t] = NULL]
          ELSE UNCHANGED <<own, pc, child>>
  /\ UNCHANGED <<count, flags>>

\* fork_out: the error is returned.
ForkOut(t) ==
  /\ pc[t] = "undo"
  /\ at[t] = Len(Labels)
  /\ pc' = [pc EXCEPT ![t] = "user"]
  /\ flags' = [flags EXCEPT ![t] = {}]
  /\ at' = [at EXCEPT ![t] = 1]
  /\ UNCHANGED <<own, count, held, child>>

\* do_exit and release_task: everything is put.
Exit(t) ==
  /\ pc[t] = "user"
  /\ t # InitTask
  /\ count' = [k \in Kinds |-> [o \in Objs |->
                 IF own[t][k] = o THEN count[k][o] - 1 ELSE count[k][o]]]
  /\ own' = [own EXCEPT ![t] = NoObjs]
  /\ held' = [held EXCEPT ![t] = {}]
  /\ pc' = [pc EXCEPT ![t] = "none"]
  /\ UNCHANGED <<at, child, flags>>

CopyProcess(t) ==
  \/ \E c \in Tasks : DupTaskStruct(t, c)
  \/ TakeLocal(t)
  \/ Share(t)
  \/ Copy(t)
  \/ Publish(t)
  \/ WakeUpNewTask(t)
  \/ FailStep(t)
  \/ UndoObject(t)
  \/ UndoLocal(t)
  \/ ForkOut(t)

Next ==
  \E t \in Tasks :
    \/ \E F \in CloneFlags : Clone(t, F)
    \/ CopyProcess(t)
    \/ Exit(t)

Spec == Init /\ [][Next]_vars

TypeOK ==
  /\ own \in [Tasks -> [Kinds -> Objs \cup {NULL}]]
  /\ count \in [Kinds -> [Objs -> Nat]]
  /\ held \in [Tasks -> SUBSET (Private \cup Handed)]
  /\ pc \in [Tasks -> {"none", "embryo", "new", "user", "copy", "wake", "undo"}]
  /\ at \in [Tasks -> 1 .. Len(Steps)]
  /\ child \in [Tasks -> Tasks \cup {NULL}]
  /\ flags \in [Tasks -> CloneFlags \cup {{}}]

-----------------------------------------------------------------------------

\* Whatever forks are under way, fail or unwind, an object has a reference for
\* every task on the task list that points to it: a bad_fork label never puts
\* an object that only the parent has a reference to.
CountsCover ==
  \A k \in Kinds, o \in Objs :
    Cardinality({t \in Visible : own[t][k] = o}) <= count[k][o]

\* Once no fork is under way, the failed ones have left nothing but the kv stores
\* of children that were to be processes: shared objects have exactly the
\* references of the tasks, and every allocation for a child that a label knows
\* of is gone.  The store, for which there is no label, is the only exception
\* (StoreReleased of KvStore is about it).
NothingLeft ==
  (\A t \in Tasks : pc[t] \in {"none", "user"}) =>
    /\ \A k \in Kinds, o \in Objs :
         Cardinality({t \in Visible : own[t][k] = o}) = count[k][o]
    /\ \A t \in Visible : held[t] = Private
    /\ \A t \in Tasks \ Visible : held[t] \subseteq {"init_task_kv_store"}

\* "thread groups also imply shared VM": tasks with one signal_struct share
\* their signal handlers, and tasks that share these share the address space.
GroupsShare ==
  {"signal", "sighand", "mm"} \subseteq Kinds => \A t, u \in Visible :
    /\ own[t].signal = own[u].signal => own[t].sighand = own[u].sighand
    /\ own[t].sighand = own[u].sighand => own[t].mm = own[u].mm

=============================================================================
