----------------------------- MODULE SocketFair -----------------------------
(***************************************************************************)
(* The per-thread socket limits of network/socket/socket.patch.  The check *)
(* and the increment in __sock_create are two steps of the creating        *)
(* thread, the decrement in __sock_release is charged to whichever thread  *)
(* drops the last reference.  Threads of one program share their           *)
(* descriptors.  sock_map_fd is external; accept, which makes its sockets  *)
(* without __sock_create, is left out.                                     *)
(***************************************************************************)
EXTENDS Integers, FiniteSets

CONSTANTS
  Threads,      \* memory for task_structs
  Main,         \* the first thread; it does not exit
  Sockets,
  Limits,       \* values that programs pass to configure_socket_fairness
  MaxLimit,     \* 65536
  SOCKET_FAIR_DEFAULT_MAX,
  CountFloor    \* a bound: closing sockets of others stops at this count

ASSUME ThreadsAssumption == Main \in Threads /\ IsFiniteSet(Threads) /\ IsFiniteSet(Sockets)
ASSUME LimitsAssumption ==
  /\ Limits \subseteq Int
  /\ MaxLimit \in Nat /\ SOCKET_FAIR_DEFAULT_MAX \in 0 .. MaxLimit
  /\ CountFloor \in Int

VARIABLES
  pc,                   \* none, user, or a step of socket()
  max_socket_allowed,
  current_socket_count,
  opener,               \* the thread that opened a socket, or Free
  highest,              \* history: the highest limit a thread has had
  bound                 \* history: what its last configured limit promises

vars == <<pc, max_socket_allowed, current_socket_count, opener, highest, bound>>

history == <<highest, bound>>

sf == <<max_socket_allowed, current_socket_count>>

Free == "free"

Alive == {t \in Threads : pc[t] # "none"}

\* The sockets a thread has been charged, one it may go on to create included.
Charged(t) == current_socket_count[t] + (IF pc[t] = "create" THEN 1 ELSE 0)

\* A limit n set now keeps the thread from passing n, or what it is charged if
\* that is more; 0 is no promise.
Promise(t, n) ==
  CASE n = 0 -> 0
    [] n >= Charged(t) -> n
    [] OTHER -> Charged(t)

Opened(t) == {s \in Sockets : opener[s] = t}

Init ==
  /\ pc = [t \in Threads |-> IF t = Main THEN "user" ELSE "none"]
  /\ max_socket_allowed = [t \in Threads |-> SOCKET_FAIR_DEFAULT_MAX]
  /\ current_socket_count = [t \in Threads |-> 0]
  /\ opener = [s \in Sockets |-> Free]
  /\ highest = [t \in Threads |-> SOCKET_FAIR_DEFAULT_MAX]
  /\ bound = [t \in Threads |-> 0]

\* pthread_create: socket_fairness_init in copy_process.
Clone(t, c) ==
  /\ pc[t] = "user" /\ pc[c] = "none"
  /\ pc' = [pc EXCEPT ![c] = "user"]
  /\ max_socket_allowed' = [max_socket_allowed EXCEPT ![c] = SOCKET_FAIR_DEFAULT_MAX]
  /\ current_socket_count' = [current_socket_count EXCEPT ![c] = 0]
  /\ highest' = [highest EXCEPT ![c] = SOCKET_FAIR_DEFAULT_MAX]
  /\ bound' = [bound EXCEPT ![c] = 0]
  /\ UNCHANGED opener

\* The thread exits; the sockets stay open in the program's descriptors.
Exit(t) ==
  /\ pc[t] = "user" /\ t # Main
  /\ pc' = [pc EXCEPT ![t] = "none"]
  /\ current_socket_count' = [current_socket_count EXCEPT ![t] = 0]
  /\ opener' = [s \in Sockets |-> IF opener[s] = t THEN "exited" ELSE opener[s]]
  /\ UNCHANGED <<max_socket_allowed, history>>

\* Mutant: one socket too many.
AllowedOffByOne(t) == current_socket_count[t] <= max_socket_allowed[t]

\* socket_fairness_check_allowed
Allowed(t) == current_socket_count[t] < max_socket_allowed[t]

\* socket_fairness_inc_count and socket_fairness_dec_count: atomic, without the lock.
IncCount(t) == current_socket_count' = [current_socket_count EXCEPT ![t] = @ + 1]

DecCount(t) == current_socket_count' = [current_socket_count EXCEPT ![t] = @ - 1]

\* The check in __sock_create; a thread that may not gets -EMFILE and nothing changes.
CheckAllowed(t) ==
  /\ pc[t] = "user"
  /\ Allowed(t)
  /\ pc' = [pc EXCEPT ![t] = "create"]
  /\ UNCHANGED <<sf, opener, history>>

\* The rest of __sock_create, which fails or counts the socket.
SockCreate(t) ==
  /\ pc[t] = "create"
  /\ \/ /\ pc' = [pc EXCEPT ![t] = "user"]
        /\ UNCHANGED current_socket_count
     \/ /\ pc' = [pc EXCEPT ![t] = "map"]
        /\ IncCount(t)
  /\ UNCHANGED <<max_socket_allowed, opener, history>>

\* sock_map_fd gives the socket a file, or releases it while sock->file is NULL:
\* then __sock_release does not count down.
SockMapFd(t) ==
  /\ pc[t] = "map"
  /\ pc' = [pc EXCEPT ![t] = "user"]
  /\ \/ \E s \in Sockets : opener[s] = Free /\ opener' = [opener EXCEPT ![s] = t]
     \/ UNCHANGED opener
  /\ UNCHANGED <<sf, history>>

\* The last reference to a socket with a file goes: __sock_release in thread t.
SockRelease(t, s) ==
  /\ pc[t] = "user"
  /\ opener[s] # Free
  /\ current_socket_count[t] > CountFloor
  /\ opener' = [opener EXCEPT ![s] = Free]
  /\ DecCount(t)
  /\ UNCHANGED <<pc, max_socket_allowed, history>>

\* Mutant: no validation.
ConfigureUnchecked(t, u, n) ==
  /\ pc[t] = "user"
  /\ u \in Alive
  /\ max_socket_allowed' = [max_socket_allowed EXCEPT ![u] = n]
  /\ highest' = [highest EXCEPT ![u] = IF n > @ THEN n ELSE @]
  /\ bound' = [bound EXCEPT ![u] = Promise(u, n)]
  /\ UNCHANGED <<pc, current_socket_count, opener>>

\* configure_socket_fairness of a thread that exists, with a limit it takes.
Configure(t, u, n) ==
  /\ pc[t] = "user"
  /\ u \in Alive
  /\ n \in 0 .. MaxLimit
  /\ max_socket_allowed' = [max_socket_allowed EXCEPT ![u] = n]
  /\ highest' = [highest EXCEPT ![u] = IF n > @ THEN n ELSE @]
  /\ bound' = [bound EXCEPT ![u] = Promise(u, n)]
  /\ UNCHANGED <<pc, current_socket_count, opener>>

Next ==
  \E t \in Threads :
    \/ \E c \in Threads : Clone(t, c)
    \/ Exit(t)
    \/ CheckAllowed(t)
    \/ SockCreate(t)
    \/ SockMapFd(t)
    \/ \E s \in Sockets : SockRelease(t, s)
    \/ \E u \in Threads, n \in Limits : Configure(t, u, n)

Spec == Init /\ [][Next]_vars

TypeOK ==
  /\ pc \in [Threads -> {"none", "user", "create", "map"}]
  /\ max_socket_allowed \in [Threads -> 0 .. MaxLimit]
  /\ current_socket_count \in [Threads -> Int]
  /\ opener \in [Sockets -> Threads \cup {Free, "exited"}]
  /\ highest \in [Threads -> 0 .. MaxLimit]
  /\ bound \in [Threads -> Nat]

-----------------------------------------------------------------------------

\* A limit that configure_socket_fairness sets holds from then on: the count
\* never passes it, though the check and the increment are separate and other
\* threads set it.  A thread that is over a new limit, or has already passed the
\* check under the old one, keeps what it has and gets no more.  Nothing is said
\* of threads that were never configured or are configured with 0, for which the
\* patch says two things (net/Kconfig and socket_fairness_init).
CountBounded == \A t \in Alive : bound[t] # 0 => Charged(t) <= bound[t]

\* "Each thread can have a configurable limit on the maximum number of sockets
\* it can open simultaneously."
OpenedBounded == \A t \in Alive : Cardinality(Opened(t)) <= highest[t]

=============================================================================
