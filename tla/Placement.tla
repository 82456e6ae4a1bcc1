----------------------------- MODULE Placement -----------------------------
(***************************************************************************)
(* The placement of worker threads on processors (src/src/numa.rs,         *)
(* src/src/hwloc_topology.rs): a backend describes the machine, a strategy *)
(* assigns processors to each worker, and each worker is bound to them.    *)
(*                                                                         *)
(* The operating system's description is external: the number of           *)
(* processors, the number of node directories, the processors hwloc finds  *)
(* on each node and in each package, and which processors share a cache.   *)
(* Processors, nodes and workers count from zero, as in the code.          *)
(***************************************************************************)
EXTENDS Integers, SequencesExt, FiniteSetsExt

CONSTANTS
  Machines,   \* records of cpus, nodeDirs, hwlocNodes, packages and caches
  MaxWorkers  \* bound: the largest pool of workers

\* What a system reports of a machine with processors from zero: if hwloc finds
\* nodes, each processor on one of them, in one place; the processors of each
\* package, whatever the nodes, or no package; and for each processor the
\* caches it shares with others, which report the same, one of each level.
MachineIs(m) ==
  LET cpus == 0 .. m.cpus - 1
      found == m.hwlocNodes
  IN  /\ m.cpus \in Nat \ {0} /\ m.nodeDirs \in Nat
      /\ found \in Seq(Seq(cpus))
      /\ found # <<>> => \A cpu \in cpus : \E n \in DOMAIN found : Contains(found[n], cpu)
      /\ \A n, k \in DOMAIN found : \A i \in DOMAIN found[n], j \in DOMAIN found[k] :
            found[n][i] = found[k][j] => n = k /\ i = j
      /\ m.packages \subseteq SUBSET cpus
      /\ DOMAIN m.caches \subseteq cpus
      /\ \A cpu \in DOMAIN m.caches : \A c, d \in m.caches[cpu] :
            /\ cpu \in c.shared
            /\ \A k \in c.shared : k \in DOMAIN m.caches /\ c \in m.caches[k]
            /\ c.level = d.level => c = d

ASSUME PlacementAssumption == MaxWorkers \in Nat /\ \A m \in Machines : MachineIs(m)

VARIABLES
  machine,    \* what the operating system reports
  backend,    \* "hwloc" or "sysfs"
  nodes,      \* node -> the sequence of its processors
  caches,     \* SysfsBackend::caches, HwlocBackend::extract_caches
  strategy,   \* the AffinityStrategy or NumaPinning
  affinity,   \* worker -> the processors it has been bound to, so far
  panicked    \* the loop that asks for the processors of each worker has panicked

placeVars == <<machine, backend, nodes, caches, strategy, affinity, panicked>>

Cpus == 0 .. machine.cpus - 1
\* The processors from first, before end.
Block(first, end) == [i \in 1 .. end - first |-> first + i - 1]

HwlocStrategies == {"None", "NUMARoundRobin", "NUMADense", "PhysicalCores", "L3CacheDomain"}
NumaPinnings    == {"RoundRobin", "Dense", "Sparse"}
-----------------------------------------------------------------------------
(* Discovery.                                                              *)

\* NumaTopology::uniform.
Uniform(m) == [n \in {0} |-> Block(0, m.cpus)]

\* NumaTopology::detect shares the processors out in blocks of equal size; the
\* last nodes may be left with none.
DetectNuma(m) ==
  LET perNode == (m.cpus + m.nodeDirs - 1) \div m.nodeDirs IN
  IF m.nodeDirs <= 1 THEN Uniform(m)
  ELSE [n \in 0 .. m.nodeDirs - 1 |->
          Block(n * perNode, Min({(n + 1) * perNode, m.cpus}))]

\* HwlocBackend::extract_numa takes the nodes as they are, or one of all.
ExtractNuma(m) ==
  IF m.hwlocNodes = <<>> THEN Uniform(m)
  ELSE [n \in 0 .. Len(m.hwlocNodes) - 1 |-> m.hwlocNodes[n + 1]]

\* SysfsBackend::probe_caches walks over the processors and records a cache only
\* under the first of those that share it; without any it invents one L3.
\* A cache is known by the processor under which it was recorded.
ProbeCaches(m) ==
  LET found == UNION {{<<cpu, c.level, c.shared>> :
                         c \in {d \in m.caches[cpu] : Min(d.shared) = cpu}} :
                      cpu \in DOMAIN m.caches}
  IN  IF found = {} THEN {<<0, 3, 0 .. m.cpus - 1>>} ELSE found

\* hwloc lists each cache object once.
ExtractCaches(m) ==
  {<<Min(c.shared), c.level, c.shared>> : c \in UNION {m.caches[cpu] : cpu \in DOMAIN m.caches}}

\* TopologyProvider::detect prefers hwloc; sysfs is the fallback, or forced.
PlaceInit ==
  /\ machine \in Machines
  /\ \/ /\ backend = "hwloc"
        /\ nodes = ExtractNuma(machine) /\ caches = ExtractCaches(machine)
        /\ strategy \in HwlocStrategies
     \/ /\ backend = "sysfs"
        /\ nodes = DetectNuma(machine) /\ caches = ProbeCaches(machine)
        /\ strategy \in HwlocStrategies \cup NumaPinnings
  /\ affinity = <<>> /\ panicked = FALSE

\* The map from processors to nodes is filled node by node: the last one wins.
NodeForCpu(cpu) ==
  LET owners == {n \in DOMAIN nodes : Contains(nodes[n], cpu)} IN
  IF owners = {} THEN -1 ELSE Max(owners)

\* SysfsBackend::build_packages takes each node for a package;
\* HwlocBackend::extract_packages takes the packages hwloc finds and looks for
\* the nodes that share a processor with each.
Packages ==
  IF backend = "sysfs"
  THEN {[cpus |-> ToSet(nodes[n]), numaNodes |-> {n}] : n \in DOMAIN nodes}
  ELSE {[cpus |-> p, numaNodes |-> {n \in DOMAIN nodes : ToSet(nodes[n]) \cap p # {}}] :
          p \in machine.packages}
-----------------------------------------------------------------------------
(* The strategies; the empty set leaves a worker to the operating system.  *)

NumNodes == Cardinality(DOMAIN nodes)

\* The lengths of the nodes before n together.
Offset(n) ==
  Cardinality(UNION {{k} \X DOMAIN nodes[k] : k \in {j \in DOMAIN nodes : j < n}})

\* Mutant: the worker's own number picks the processor within its node.
RoundRobinByWorker(w) ==
  LET node == nodes[w % NumNodes] IN
  IF node = <<>> THEN {} ELSE {node[(w % Len(node)) + 1]}

\* cpus_for_worker guards a node without processors with max(1); get_worker_cpus
\* divides by zero there, see Panics.
RoundRobin(w) ==
  LET node == nodes[w % NumNodes] IN
  IF node = <<>> THEN {} ELSE {node[((w \div NumNodes) % Len(node)) + 1]}

Dense(w) ==
  UNION {{nodes[n][w - Offset(n) + 1]} :
           n \in {k \in DOMAIN nodes : w \in Offset(k) .. Offset(k) + Len(nodes[k]) - 1}}

\* Blocks of workers_per_node workers for one node after the other.
Sparse(w, numWorkers) ==
  LET perNode == (numWorkers + NumNodes - 1) \div NumNodes
      n == w \div perNode
  IN  IF n \notin DOMAIN nodes \/ nodes[n] = <<>> THEN {}
      ELSE {nodes[n][((w % perNode) % Len(nodes[n])) + 1]}

\* Every other processor.
PhysicalCores(w) == {2 * (w % ((machine.cpus + 1) \div 2))}

\* The domains in the order of their first processors.
L3Domains == {c \in caches : c[2] = 3}
Index(c)  == Cardinality({d \in L3Domains : d[1] < c[1]})
L3CacheDomain(w) ==
  UNION {c[3] : c \in {d \in L3Domains : Index(d) = w % Cardinality(L3Domains)}}

CpusForWorker(w, numWorkers) ==
  CASE strategy = "None" -> {}
    [] strategy \in {"NUMARoundRobin", "RoundRobin"} -> RoundRobin(w)
    [] strategy \in {"NUMADense", "Dense"} -> Dense(w)
    [] strategy = "Sparse" -> Sparse(w, numWorkers)
    [] strategy = "PhysicalCores" -> PhysicalCores(w)
    [] strategy = "L3CacheDomain" -> L3CacheDomain(w)

\* get_worker_cpus takes a remainder by the number of the node's processors.
Panics(w) ==
  \/ (strategy = "RoundRobin" /\ nodes[w % NumNodes] = <<>>)
  \/ /\ strategy = "Sparse"
     /\ LET n == w \div ((MaxWorkers + NumNodes - 1) \div NumNodes) IN
        n \in DOMAIN nodes /\ nodes[n] = <<>>

\* pin_current_thread of the next worker, or the next turn of a loop over
\* get_worker_cpus; nothing is bound without processors.
Pin ==
  LET w == Len(affinity) IN
  /\ w < MaxWorkers /\ ~panicked
  /\ IF Panics(w) THEN panicked' = TRUE /\ UNCHANGED affinity
     ELSE affinity' = Append(affinity, CpusForWorker(w, MaxWorkers)) /\ UNCHANGED panicked
  /\ UNCHANGED <<machine, backend, nodes, caches, strategy>>

PlaceNext == Pin

PlaceSpec == PlaceInit /\ [][PlaceNext]_placeVars
-----------------------------------------------------------------------------
(* Properties.                                                             *)

Load(cpus) == Cardinality({i \in DOMAIN affinity : affinity[i] = cpus})
Even(places) == \A p, q \in places : Load(p) <= Load(q) + 1

\* The nodes split the processors among them and agree with the map, a package
\* names the node of each of its processors, and every cache is known once.
\* Workers are bound to processors the machine has, and evenly: round robin never
\* gives a processor of a node a second worker before its neighbours have one,
\* the dense strategy gives none a second one and leaves a worker unbound only
\* when all are taken, and cores and cache domains differ by one worker at most.
\* Two strategies of the fallback divide by zero, and only they, and only where
\* the detection has left a node without processors.
PlacementSound ==
  /\ \A cpu \in Cpus : NodeForCpu(cpu) \in DOMAIN nodes
  /\ \A n \in DOMAIN nodes : \A i, j \in DOMAIN nodes[n] :
        nodes[n][i] \in Cpus /\ NodeForCpu(nodes[n][i]) = n /\ (i # j => nodes[n][i] # nodes[n][j])
  /\ \A p \in Packages : \A cpu \in p.cpus : NodeForCpu(cpu) \in p.numaNodes
  /\ \A c, d \in caches : c[2] = d[2] /\ c[3] \cap d[3] # {} => c = d
  /\ \A i \in DOMAIN affinity : affinity[i] \subseteq Cpus
  /\ strategy \in {"NUMARoundRobin", "RoundRobin"} =>
        \A n \in DOMAIN nodes : Even({{nodes[n][i]} : i \in DOMAIN nodes[n]})
  /\ strategy \in {"NUMADense", "Dense"} =>
        /\ \A cpu \in Cpus : Load({cpu}) <= 1
        /\ Load({}) > 0 => \A cpu \in Cpus : Load({cpu}) = 1
  /\ strategy = "PhysicalCores" => Even({{2 * k} : k \in 0 .. (machine.cpus - 1) \div 2})
  /\ strategy = "L3CacheDomain" => Even({c[3] : c \in L3Domains})
  /\ panicked => /\ backend = "sysfs" /\ strategy \in {"RoundRobin", "Sparse"}
                 /\ \E n \in DOMAIN nodes : nodes[n] = <<>>

=============================================================================
