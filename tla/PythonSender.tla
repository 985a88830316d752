---------------------------- MODULE PythonSender ------------------------------
(***************************************************************************)
(* HeartbeatSender of the Python library: a bounded queue and a thread in  *)
(* every process, which starts its own after a fork.                       *)
(***************************************************************************)
EXTENDS Integers, Sequences, FiniteSets

CONSTANTS
    PyJobs,       \* declared jobs
    PyCapacity,   \* Config.queue_capacity
    MaxReports,   \* bound: reports of runs in a process
    MaxRegisters  \* bound: declarations that change the keys

ASSUME PythonSenderAssumption ==
    PyCapacity \in Nat \ {0} /\ MaxReports \in Nat /\ MaxRegisters \in Nat

VARIABLES
    outbox,     \* each process's queue and threads, its newest heartbeat and the last one sent
    pingKeys,   \* HeartbeatSender._ping_keys of each process
    registers

pySenderVars == <<outbox, pingKeys, registers>>

PyProcesses == {"parent", "child"}
Threads == 1..2
Waiting == [number |-> 0, job |-> "waiting"]
NoThread == [number |-> 0, job |-> "none"]
Beats == [number : 1..MaxReports, job : PyJobs]

PySenderTypeOK ==
    /\ \A p \in PyProcesses :
        /\ outbox[p].queue \in Seq(Beats) /\ Len(outbox[p].queue) <= PyCapacity
        /\ outbox[p].thread \in [Threads -> Beats \cup {Waiting, NoThread}]
        /\ outbox[p].made \in 0..MaxReports /\ outbox[p].last \in 0..MaxReports
        /\ outbox[p].state \in {"absent", "up", "exited"}
    /\ pingKeys \in [PyProcesses -> SUBSET PyJobs]
    /\ registers \in 0..MaxRegisters

Fresh(state) == [state |-> state, queue |-> <<>>, thread |-> [t \in Threads |-> NoThread],
                 made |-> 0, last |-> 0]

PySenderInit ==
    /\ outbox = [p \in PyProcesses |-> Fresh(IF p = "parent" THEN "up" ELSE "absent")]
    /\ pingKeys = [p \in PyProcesses |-> PyJobs]
    /\ registers = 0

Register(p, keys) ==
    /\ outbox[p].state = "up" /\ registers < MaxRegisters /\ registers' = registers + 1
    /\ pingKeys' = [pingKeys EXCEPT ![p] = keys]
    /\ UNCHANGED outbox

\* Mutant: a thread that is busy does not count.
EnsureIdleThread(threads) ==
    LET none == {t \in Threads : threads[t] = NoThread} IN
    IF none = {} \/ \E t \in Threads : threads[t] = Waiting THEN threads
    ELSE [threads EXCEPT ![CHOOSE t \in none : TRUE] = Waiting]

EnsureThread(threads) ==
    IF \A t \in Threads : threads[t] = NoThread THEN [threads EXCEPT ![1] = Waiting] ELSE threads

\* Mutant: the queue takes one more before the oldest is dropped.
SubmitPastCapacity(p, job) ==
    LET full == Len(outbox[p].queue) > PyCapacity IN
    /\ outbox[p].state = "up" /\ job \in pingKeys[p] /\ outbox[p].made < MaxReports
    /\ outbox' = [outbox EXCEPT ![p].made = @ + 1, ![p].thread = EnsureThread(@),
           ![p].queue = Append(IF full THEN Tail(@) ELSE @, [number |-> outbox[p].made + 1, job |-> job])]
    /\ UNCHANGED <<pingKeys, registers>>

\* Past the capacity the oldest is dropped. A job without a key is not reported.
Submit(p, job) ==
    LET full == Len(outbox[p].queue) = PyCapacity IN
    /\ outbox[p].state = "up" /\ job \in pingKeys[p] /\ outbox[p].made < MaxReports
    /\ outbox' = [outbox EXCEPT ![p].made = @ + 1, ![p].thread = EnsureThread(@),
           ![p].queue = Append(IF full THEN Tail(@) ELSE @, [number |-> outbox[p].made + 1, job |-> job])]
    /\ UNCHANGED <<pingKeys, registers>>

TakeBeat(p, t) ==
    /\ outbox[p].state = "up" /\ outbox[p].thread[t] = Waiting /\ outbox[p].queue # <<>>
    /\ outbox' = [outbox EXCEPT ![p].thread[t] = Head(outbox[p].queue), ![p].queue = Tail(@)]
    /\ UNCHANGED <<pingKeys, registers>>

\* A job that has lost its key meanwhile is passed over. Whether the
\* call succeeds is only counted, and the counters are left out.
DeliverBeat(p, t) ==
    LET beat == outbox[p].thread[t] IN
    /\ outbox[p].state = "up" /\ beat \in Beats
    /\ outbox' = [outbox EXCEPT ![p].thread[t] = Waiting,
                                ![p].last = IF beat.job \in pingKeys[p] THEN beat.number ELSE @]
    /\ UNCHANGED <<pingKeys, registers>>

\* The child starts over: what the parent had queued is the parent's to send.
ForkSender ==
    /\ outbox["parent"].state = "up" /\ outbox["child"].state = "absent"
    /\ outbox' = [outbox EXCEPT !["child"] = Fresh("up")]
    /\ pingKeys' = [pingKeys EXCEPT !["child"] = pingKeys["parent"]]
    /\ UNCHANGED registers

\* Two seconds for what is queued, then the process is gone.
FlushAndExit(p) ==
    /\ outbox[p].state = "up"
    /\ outbox' = [outbox EXCEPT ![p].state = "exited"]
    /\ UNCHANGED <<pingKeys, registers>>

PySenderNext ==
    \/ ForkSender
    \/ \E p \in PyProcesses :
        \/ FlushAndExit(p)
        \/ \E keys \in SUBSET PyJobs : Register(p, keys)
        \/ \E job \in PyJobs : Submit(p, job)
        \/ \E t \in Threads : TakeBeat(p, t) \/ DeliverBeat(p, t)

PySenderSpec == PySenderInit /\ [][PySenderNext]_pySenderVars

(***************************************************************************)
(* Properties.                                                             *)
(***************************************************************************)
\* HeartbeatSender: one thread of a process sends what the process's runs reported, in
\* the order they did: an outcome never reaches the server before the start it ends.
BeatsInOrder ==
    [][\A p \in PyProcesses : outbox[p].last' # outbox[p].last =>
          outbox[p].last' > outbox[p].last]_pySenderVars
===============================================================================
