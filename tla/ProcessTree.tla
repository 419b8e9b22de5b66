---------------------------- MODULE ProcessTree -----------------------------
(***************************************************************************)
(* process/process_tree.hpp: the forest ProcessTreeBuilder::build makes of *)
(* a flat list of processes, and the aggregates of its nodes.              *)
(*                                                                         *)
(* A process is [pid, ppid, mem]; mem stands for each of the three numbers *)
(* that are aggregated in the same way (rss, vm, threads).  A process that *)
(* was moved from keeps its numbers.                                       *)
(***************************************************************************)
EXTENDS Naturals, Sequences, Selection

CONSTANTS
  WordSize,    \* 2^64, the range of uint64_t
  StackFrames  \* calls of build_node the stack has room for

ASSUME TreeAssumption == WordSize \in Nat \ {0} /\ StackFrames \in Nat \ {0}

\* Mutant: only init's children are roots.
RootIfInits(p, flat) == p.ppid <= 1

\* Children of init, and processes whose parent is not in the list.
IsRoot(p, flat) ==
  p.ppid <= 1 \/ p.ppid \notin {q.pid : q \in Members(flat)}

Roots(flat) == Selected(flat, {i \in DOMAIN flat : IsRoot(flat[i], flat)})

\* Mutant: the else of pass 1 is missing.
ChildrenAndRoots(flat, pid) ==
  Selected(flat, {i \in DOMAIN flat : flat[i].ppid = pid})

\* parent_to_children[pid]
Children(flat, pid) ==
  Selected(flat, {i \in DOMAIN flat :
                    flat[i].ppid = pid /\ ~IsRoot(flat[i], flat)})

\* What is left of a node whose call did not fit on the stack.
Overflow == [info |-> [pid |-> 0, ppid |-> 0, mem |-> 0], children |-> <<>>]

\* build_node of every process, with room for the given number of calls.
BuildNodes(flat) ==
  LET build_node[frames \in 0..StackFrames] ==
        [info \in Members(flat) |->
           LET infos == Children(flat, info.pid)
           IN IF frames = 0 THEN Overflow
              ELSE [info |-> info,
                    children |-> [i \in DOMAIN infos |->
                                    build_node[frames - 1][infos[i]]]]]
  IN build_node

Build(flat) ==
  LET roots == Roots(flat)
  IN [i \in DOMAIN roots |-> BuildNodes(flat)[StackFrames][roots[i]]]

-----------------------------------------------------------------------------
\* The nodes of a forest by their depth, which build_node nests no deeper.
Levels(forest) ==
  LET level[depth \in 0..StackFrames] ==
        IF depth = 0 THEN Members(forest)
        ELSE UNION {Members(node.children) : node \in level[depth - 1]}
  IN level

Nodes(forest) ==
  LET level == Levels(forest)
  IN UNION {level[depth] : depth \in 0..StackFrames}

\* std::accumulate over the children of a node, from its own number on.
Accumulate(node, total) ==
  LET sum[i \in 0..Len(node.children)] ==
        IF i = 0 THEN node.info.mem
        ELSE (sum[i - 1] + total[node.children[i]]) % WordSize
  IN sum[Len(node.children)]

\* Mutant: the sum is over the children alone, not their descendants.
AggregateShallow(node) ==
  Accumulate(node, [n \in Nodes(<<node>>) |-> n.info.mem])

\* aggregate_rss, aggregate_vm, aggregate_threads
Aggregate(node) ==
  LET total[n \in Nodes(<<node>>)] == Accumulate(n, total) IN total[node]

-----------------------------------------------------------------------------
WithChildren(flat, found) ==
  found \cup {p \in Members(flat) :
                ~IsRoot(p, flat) /\ \E q \in found : p.ppid = q.pid}

\* The processes of a list that are among those found or have one of them as
\* an ancestor: no line of descent is longer than the list.
Generations(flat, found) ==
  LET within[number \in 0..Len(flat)] ==
        IF number = 0 THEN found ELSE WithChildren(flat, within[number - 1])
  IN within

Descendants(flat, found) == Generations(flat, found)[Len(flat)]

\* The memory of those of a list that are among some.
SumOver(flat, some) ==
  LET sum[i \in 0..Len(flat)] ==
        IF i = 0 THEN 0
        ELSE sum[i - 1] + IF flat[i] \in some THEN flat[i].mem ELSE 0
  IN sum[Len(flat)]
=============================================================================
