------------------------------- MODULE KvMap -------------------------------
(***************************************************************************)
(* What the key-value system calls promise a program: one map per process, *)
(* shared by its threads and private to it, on which every call acts in    *)
(* one step between its start and its return.  A new process starts with   *)
(* an empty map; the map lasts until the last thread has left.             *)
(***************************************************************************)
EXTENDS Integers

CONSTANTS Tasks, Stores, Keys, Values, NULL

VARIABLES
  map,        \* the map of each process
  proc,       \* the process of a task, NULL if it has none
  phase,      \* "idle", "pending" or "done": where a task is in its call
  req,        \* the call
  res         \* its result, once it is done

mapVars == <<map, proc, phase, req, res>>

Requests == [op: {"write"}, k: Keys, v: Values] \cup [op: {"read"}, k: Keys]

EmptyMap == [k \in Keys |-> NULL]

Members(s) == {t \in Tasks : proc[t] = s}

MapInit ==
  \E t0 \in Tasks, s0 \in Stores :
    /\ map = [s \in Stores |-> EmptyMap]
    /\ proc = [t \in Tasks |-> IF t = t0 THEN s0 ELSE NULL]
    /\ phase = [t \in Tasks |-> "idle"]
    /\ req = [t \in Tasks |-> NULL]
    /\ res = [t \in Tasks |-> NULL]

Begin(t, r) ==
  /\ phase[t] = "idle"
  /\ proc[t] # NULL
  /\ phase' = [phase EXCEPT ![t] = "pending"]
  /\ req' = [req EXCEPT ![t] = r]
  /\ UNCHANGED <<map, proc, res>>

\* A call takes effect.
Finish(t, r) ==
  /\ phase[t] = "pending"
  /\ phase' = [phase EXCEPT ![t] = "done"]
  /\ res' = [res EXCEPT ![t] = r]
  /\ UNCHANGED <<proc, req>>

DoWrite(t) ==
  /\ Finish(t, 4)
  /\ req[t].op = "write"
  /\ map' = [map EXCEPT ![proc[t]][req[t].k] = req[t].v]

\* A write may fail for want of memory; then it changes nothing.
DoWriteFails(t) ==
  /\ Finish(t, -1)
  /\ req[t].op = "write"
  /\ map[proc[t]][req[t].k] = NULL
  /\ UNCHANGED map

DoRead(t) ==
  /\ LET v == map[proc[t]][req[t].k]
     IN  Finish(t, IF v = NULL THEN -1 ELSE v)
  /\ req[t].op = "read"
  /\ UNCHANGED map

End(t) ==
  /\ phase[t] = "done"
  /\ phase' = [phase EXCEPT ![t] = "idle"]
  /\ req' = [req EXCEPT ![t] = NULL]
  /\ res' = [res EXCEPT ![t] = NULL]
  /\ UNCHANGED <<map, proc>>

\* c joins the process of t.
NewThread(t, c) ==
  /\ phase[t] = "idle"
  /\ proc[t] # NULL
  /\ proc[c] = NULL
  /\ proc' = [proc EXCEPT ![c] = proc[t]]
  /\ UNCHANGED <<map, phase, req, res>>

\* c starts a process of its own, with a map nobody else uses.
NewProcess(c, s) ==
  /\ proc[c] = NULL
  /\ Members(s) = {}
  /\ proc' = [proc EXCEPT ![c] = s]
  /\ UNCHANGED <<map, phase, req, res>>

\* t leaves its process; the last one to leave takes the map with it.
Leave(t) ==
  /\ phase[t] = "idle"
  /\ proc[t] # NULL
  /\ proc' = [proc EXCEPT ![t] = NULL]
  /\ map' = IF Members(proc[t]) = {t}
              THEN [map EXCEPT ![proc[t]] = EmptyMap]
              ELSE map
  /\ UNCHANGED <<phase, req, res>>

MapNext ==
  \E t \in Tasks :
    \/ \E r \in Requests : Begin(t, r)
    \/ DoWrite(t)
    \/ DoWriteFails(t)
    \/ DoRead(t)
    \/ End(t)
    \/ \E c \in Tasks : NewThread(t, c)
    \/ \E s \in Stores : NewProcess(t, s)
    \/ Leave(t)

MapSpec == MapInit /\ [][MapNext]_mapVars
=============================================================================
