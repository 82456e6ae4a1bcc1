----------------------------- MODULE Transfers -----------------------------
(***************************************************************************)
(* Copies between host and device (src/src/gpu.rs) over the backends       *)
(* (src/src/gpu_backend.rs, src/src/gpu_cuda_backend.rs,                   *)
(* src/src/gpu_opencl.rs, src/src/gpu_rocm.rs): which backend a device     *)
(* gets, what each copy and each wait means on it, and submit.  Every      *)
(* thread has a buffer of its own; streams are shared.                     *)
(*                                                                         *)
(* The driver is external: it executes the operations of a stream in their *)
(* order, and a wait may fail.  A copy carries the number of the thread's  *)
(* call that made it.                                                      *)
(***************************************************************************)
EXTENDS Integers, SequencesExt, FiniteSetsExt

CONSTANTS
  Hosts,       \* records of compiled, the features, and of how many devices there are
  Users,       \* the threads
  NumStreams,
  MaxCopies    \* bound: copies of all threads together

VARIABLES
  kind,     \* of the backend probe_backend has returned, or "none"
  queues,   \* stream -> the operations the device has not executed yet
  made,     \* thread -> its copies so far
  device,   \* thread -> what its device buffer holds
  host,     \* thread -> what its host buffer holds
  written,  \* history: thread -> its last copy to the device
  read,     \* history: thread -> what its last copy to the host should bring
  mixed,    \* history: threads that did not keep to one queue at a time
  waits,    \* thread -> the streams it still waits for, in their order
  due,      \* history: thread -> what was enqueued on the streams it asked to wait
            \* for when it began to wait, and has not been executed yet
  unwaited  \* history: threads whose last wait was one for the device that waited
            \* for none of its streams

vars == <<kind, queues, made, device, host, written, read, mixed, waits, due, unwaited>>

Streams == 1 .. NumStreams
Kinds   == {"Cuda", "Rocm", "OpenCL", "Stub"}
-----------------------------------------------------------------------------
(* The backends.  What they allocate holds zeroes, or whatever was there;   *)
(* their copies move data or not, and asynchronous ones are queued on the   *)
(* stream or made at once; synchronize_device waits for every stream or for *)
(* none.                                                                    *)

Garbage == -1   \* bytes that were in the memory before it was allocated

\* alloc_zeros; the asynchronous copies call the blocking ones.
CudaBackend == [fresh |-> {0}, moves |-> TRUE, queues |-> FALSE, synchronizes |-> TRUE]

\* hipMalloc; hipMemcpyAsync on the stream; hipDeviceSynchronize.
RocmBackend == [fresh |-> {0, Garbage}, moves |-> TRUE, queues |-> TRUE, synchronizes |-> TRUE]

\* clCreateBuffer; synchronize_device finishes the default queue, on which only
\* blocking copies are made.
OpenCLBackend == [fresh |-> {0, Garbage}, moves |-> TRUE, queues |-> TRUE, synchronizes |-> FALSE]

\* The copies of the stub do nothing.
StubBackend == [fresh |-> {0}, moves |-> FALSE, queues |-> FALSE, synchronizes |-> TRUE]

Backend ==
  CASE kind = "Cuda" -> CudaBackend [] kind = "Rocm" -> RocmBackend
    [] kind = "OpenCL" -> OpenCLBackend [] OTHER -> StubBackend

\* new of each backend: whether the device is there.  OpenCL looks for other
\* devices when there is no GPU.
CudaNew(m, deviceId) == deviceId < m.devices["Cuda"]
RocmNew(m, deviceId) == deviceId < m.devices["Rocm"]
OpenCLNew(m, deviceId) ==
  deviceId < (IF m.devices["OpenCL"] > 0 THEN m.devices["OpenCL"] ELSE m.otherOpenCL)

\* try_init_backend: a backend that is not compiled is skipped.
TryInitBackend(m, k, deviceId) ==
  \/ k = "Stub"
  \/ /\ k \in m.compiled
     /\ CASE k = "Cuda" -> CudaNew(m, deviceId) [] k = "Rocm" -> RocmNew(m, deviceId)
          [] OTHER -> OpenCLNew(m, deviceId)

\* The first that initialises; a preferred kind has no fallback.
ProbeBackend(m, preferred, deviceId) ==
  LET order == IF preferred = "None" THEN <<"Cuda", "Rocm", "OpenCL", "Stub">> ELSE <<preferred>>
      fitting == SelectSeq(order, LAMBDA k : TryInitBackend(m, k, deviceId))
  IN  IF fitting = <<>> THEN "none" ELSE Head(fitting)

Init ==
  /\ \E m \in Hosts, preferred \in Kinds \cup {"None"}, deviceId \in 0 .. 1 :
       kind = ProbeBackend(m, preferred, deviceId)
  /\ queues = [s \in Streams |-> <<>>]
  /\ made = [u \in Users |-> 0]
  /\ device \in [Users -> Backend.fresh] /\ host = [u \in Users |-> 0]
  /\ written = device /\ read = host
  /\ mixed = {}
  /\ waits = [u \in Users |-> <<>>] /\ due = [u \in Users |-> {}]
  /\ unwaited = {}
-----------------------------------------------------------------------------
(* Copies.                                                                 *)

OwnIn(u, s) == {i \in DOMAIN queues[s] : queues[s][i].by = u}
Outstanding(u) == {s \in Streams : OwnIn(u, s) # {}}

Calls(u) ==
  /\ kind # "none" /\ waits[u] = <<>>
  /\ MapThenSumSet(LAMBDA v : made[v], Users) < MaxCopies
  /\ made' = [made EXCEPT ![u] = @ + 1]
  /\ UNCHANGED <<kind, waits, due, unwaited>>

\* What a thread may rely on after the copy: the code does not order a copy after
\* those the thread has outstanding on other queues.
Notes(u, direction, elsewhere) ==
  /\ mixed' = mixed \cup (IF elsewhere = {} THEN {} ELSE {u})
  /\ IF direction = "h2d" THEN written' = [written EXCEPT ![u] = made[u] + 1] /\ UNCHANGED read
                          ELSE read' = [read EXCEPT ![u] = written[u]] /\ UNCHANGED written

\* The device or the host buffer of u gets what is copied.
Effect(u, direction, value) ==
  IF ~Backend.moves THEN UNCHANGED <<device, host>>
  ELSE IF direction = "h2d" THEN device' = [device EXCEPT ![u] = value] /\ UNCHANGED host
  ELSE host' = [host EXCEPT ![u] = device[u]] /\ UNCHANGED device

\* copy_from_host, copy_to_host, and the owned variants, which call them on a
\* blocking thread and await it.  The copies an AsyncTransferBuilder submits are
\* such copies too: they ignore the stream of the guard that is acquired for them.
CopySync(u, direction) ==
  /\ Calls(u)
  /\ Effect(u, direction, made[u] + 1)
  /\ Notes(u, direction, Outstanding(u))
  /\ UNCHANGED queues

\* copy_from_host_async and copy_to_host_async.
CopyAsync(u, direction, s) ==
  /\ Calls(u)
  /\ IF ~Backend.queues
     THEN Effect(u, direction, made[u] + 1) /\ UNCHANGED queues
     ELSE /\ queues' = [queues EXCEPT ![s] = Append(@, [by |-> u, direction |-> direction,
                                                        value |-> made[u] + 1])]
          /\ UNCHANGED <<device, host>>
  /\ Notes(u, direction, Outstanding(u) \ {s})

Operations(s) == {<<s, queues[s][i].by, queues[s][i].value>> : i \in DOMAIN queues[s]}

\* The device executes an operation of a stream.
Execute(s) ==
  /\ queues[s] # <<>>
  /\ Effect(Head(queues[s]).by, Head(queues[s]).direction, Head(queues[s]).value)
  /\ queues' = [queues EXCEPT ![s] = Tail(@)]
  /\ due' = [u \in Users |-> due[u] \ {<<s, Head(queues[s]).by, Head(queues[s]).value>>}]
  /\ UNCHANGED <<kind, made, written, read, mixed, waits, unwaited>>
-----------------------------------------------------------------------------
(* Waiting.                                                                *)

BeginWait(u, streams) ==
  /\ kind # "none" /\ waits[u] = <<>>
  /\ waits' = [waits EXCEPT ![u] = streams]
  /\ due' = [due EXCEPT ![u] = UNION {Operations(s) : s \in ToSet(streams)}]
  /\ unwaited' = unwaited \ {u}
  /\ UNCHANGED <<kind, queues, made, device, host, written, read, mixed>>

\* synchronize of one stream, and synchronize_all of a pool or a set.
Synchronize(u, s) == BeginWait(u, <<s>>)
SynchronizeAll(u) == BeginWait(u, [s \in Streams |-> s])

\* A stream is waited for until what was enqueued on it is done; then comes the
\* next.  Operations that others enqueue meanwhile may be waited for or not.
WaitNext(u) ==
  /\ waits[u] # <<>>
  /\ Operations(Head(waits[u])) \cap due[u] = {}
  /\ waits' = [waits EXCEPT ![u] = Tail(@)]
  /\ UNCHANGED <<kind, queues, made, device, host, written, read, mixed, due, unwaited>>

\* A failed wait ends synchronize_all: the streams behind it are not waited for.
WaitFails(u) ==
  /\ waits[u] # <<>> /\ kind # "Stub"
  /\ waits' = [waits EXCEPT ![u] = <<>>]
  /\ due' = [due EXCEPT ![u] = {}]
  /\ UNCHANGED <<kind, queues, made, device, host, written, read, mixed, unwaited>>

\* synchronize of a device, where synchronize_device waits for its streams.
SynchronizeDevice(u) == Backend.synchronizes /\ SynchronizeAll(u)

\* And where it finishes a queue of its own, on which nothing is outstanding: it
\* returns at once, whatever the streams still have to do.
SynchronizeNothing(u) ==
  /\ kind # "none" /\ waits[u] = <<>> /\ ~Backend.synchronizes
  /\ due' = [due EXCEPT ![u] = UNION {Operations(s) : s \in Streams}]
  /\ unwaited' = unwaited \cup {u}
  /\ UNCHANGED <<kind, queues, made, device, host, written, read, mixed, waits>>

Next ==
  \/ \E u \in Users :
       \/ \E direction \in {"h2d", "d2h"} :
            CopySync(u, direction) \/ \E s \in Streams : CopyAsync(u, direction, s)
       \/ \E s \in Streams : Synchronize(u, s)
       \/ SynchronizeAll(u) \/ SynchronizeDevice(u) \/ SynchronizeNothing(u)
       \/ WaitNext(u) \/ WaitFails(u)
  \/ \E s \in Streams : Execute(s)

\* The device gets on with its streams, and a wait that can go on does.
Fairness ==
  /\ \A s \in Streams : WF_vars(Execute(s))
  /\ \A u \in Users : WF_vars(WaitNext(u))

Spec == Init /\ [][Next]_vars /\ Fairness
-----------------------------------------------------------------------------
(* Launch dimensions.                                                      *)

Modulus == 16   \* stands for 2^32

\* GpuTaskConfig::linear, and grid_2d in each of its dimensions, as built without
\* overflow checks.
Blocks(elements, perBlock) == (((elements % Modulus) + perBlock - 1) % Modulus) \div perBlock
-----------------------------------------------------------------------------
(* Properties.                                                             *)

\* When a wait of u has gone past a stream without an error, everything that had
\* been enqueued on it before the wait began has been executed, whatever other
\* threads enqueue meanwhile.
Passed(u) == \A s \in Streams \ ToSet(waits[u]) : due[u] \cap Operations(s) = {}

\* So it is after every wait for a stream, for all streams of a pool or a set, and
\* for the device of every backend but OpenCL, whose device wait is no barrier
\* (MCDocuments shows it).
BarrierHolds == \A u \in Users \ unwaited : Passed(u)

\* A thread that does not leave copies outstanding on one queue while it uses
\* another one finds its last write on the device, and in its host buffer what
\* was last written before it read, as soon as it has waited; on every backend
\* that moves data at all.  Until its first write a buffer keeps what it was
\* allocated with, which need not be the zeroes it should be (MCDocuments).
CopiesArrive ==
  Backend.moves => \A u \in Users \ mixed :
    Outstanding(u) = {} => device[u] = written[u] /\ host[u] = read[u]

\* The blocks of a launch cover every element and none is idle, up to the size at
\* which the sum leaves its 32 bits.
LaunchesCover ==
  \A elements \in 0 .. Modulus - 1, perBlock \in 1 .. 4 :
    elements + perBlock <= Modulus =>
      LET blocks == Blocks(elements, perBlock)
      IN  blocks * perBlock >= elements /\ (blocks * perBlock) - elements < perBlock

\* Every wait ends.
WaitsEnd == \A u \in Users : (waits[u] # <<>>) ~> (waits[u] = <<>>)

=============================================================================
