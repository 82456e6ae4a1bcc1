-------------------------------- MODULE Gpu --------------------------------
(***************************************************************************)
(* The GPU side as a whole: the pool that hands out streams and the copies *)
(* and waits on them.  They share the streams of a device but no state: a  *)
(* guard is a place in a counter, and an asynchronous transfer acquires    *)
(* one without using its stream (src/src/gpu_stream.rs, src/src/gpu.rs).   *)
(***************************************************************************)
EXTENDS StreamPool

CONSTANTS Hosts, Users, MaxCopies

VARIABLES kind, queues, made, device, host, written, read, entangled, waits, due, unwaited

Transfer == INSTANCE Transfers WITH mixed <- entangled

poolVars     == vars
transferVars == <<kind, queues, made, device, host, written, read, entangled, waits, due, unwaited>>
gpuVars      == <<poolVars, transferVars>>

GpuInit == Init /\ Transfer!Init

GpuNext ==
  \/ Next /\ UNCHANGED transferVars
  \/ Transfer!Next /\ UNCHANGED poolVars

GpuSpec == GpuInit /\ [][GpuNext]_gpuVars
-----------------------------------------------------------------------------
(* Properties.                                                             *)

\* Streams are counted and handed out as their strategies promise (acquire,
\* record_op, drop), waits are barriers and copies arrive (synchronize,
\* copy_from_host_async, copy_to_host_async), and launches cover their elements.
StreamsSound ==
  /\ PendingExact /\ LeastChosen /\ RotationEven
  /\ Transfer!BarrierHolds /\ Transfer!CopiesArrive /\ Transfer!LaunchesCover

=============================================================================
