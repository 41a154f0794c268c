------------------------------ MODULE PathSearch ------------------------------
(***************************************************************************)
(* all_simple_paths_multi(): an iterator over the simple paths from a node *)
(* to any of several targets, as the depth-first search with an explicit   *)
(* stack that it is, and find_paths(), which asks it for one length.       *)
(*                                                                         *)
(* A frame of the stack is the set of edges still to be tried from a node: *)
(* they are tried in a random order.  Costs only decide where a branch is  *)
(* cut, so an edge has a cost to subtract and a branch a budget.           *)
(***************************************************************************)
EXTENDS Integers, Sequences, FiniteSets, SequencesExt

CONSTANTS Vertices, Source,
          Costs,         \* what taking an edge may cost
          Budget,        \* initial_cost - min_cost: a branch below zero is cut
          MaxCostly,     \* bound on the edges that cost something
          Lengths        \* edges of the wanted paths, what find_paths() is asked for

\* A path never gets cheaper, as the product of edge scores never gets better.
ASSUME PathSearchAssumption == Costs \subseteq Nat /\ Budget \in Int /\ Lengths \subseteq Nat \ {0}

VARIABLES cost,      \* cost[e]: of the edges there are
          targets,
          length,
          visited,   \* the path being explored
          stack,     \* per visited node the successors still to be tried
          left,      \* the accumulated cost at each depth
          yielded,   \* the paths the iterator has returned
          returns    \* (history) how often it has returned one

searchVars == <<cost, targets, length, visited, stack, left, yielded, returns>>

Successors(edges, v) == {e[2] : e \in {d \in edges : d[1] = v}}

\* The paths a caller means: simple, of the wanted length, from the source to a
\* target; a caller that knows which edges are affordable means those.
SimplePaths(edges, source, goals, n) ==
    LET nodes == {source} \cup {e[2] : e \in edges}
    IN  {p \in [1..(n + 1) -> nodes] :
            /\ p[1] = source /\ p[n + 1] \in goals
            /\ \A i \in 1..n : <<p[i], p[i + 1]>> \in edges
            /\ \A i, j \in 1..(n + 1) : i # j => p[i] # p[j]}

SearchInit ==
    /\ \E edges \in SUBSET {e \in Vertices \X Vertices : e[1] # e[2] /\ e[2] # Source} :
            cost \in {f \in [edges -> Costs] : Cardinality({e \in edges : f[e] > 0}) <= MaxCostly}
    /\ targets \in SUBSET (Vertices \ {Source}) /\ length \in Lengths
    /\ visited = <<Source>> /\ stack = <<Successors(DOMAIN cost, Source)>>
    /\ left = <<Budget>> /\ yielded = {} /\ returns = 0

\* Mutant: a target is not searched beyond.
ExpandsButTargets(child) == Len(visited) < length /\ child \notin targets

\* The search goes on below a child while the path may get longer and there is
\* another target that it has not visited.
Expands(child) ==
    /\ Len(visited) < length
    /\ \E t \in targets : t # child /\ t \notin ToSet(visited)

\* Both bounds on the intermediate nodes are length - 1.
Yields(child) == child \in targets /\ Len(visited) + 1 >= length + 1

\* The next edge of the node explored last.
TryEdge ==
    /\ stack # <<>> /\ Last(stack) # {}
    /\ \E child \in Last(stack) :
        LET rest     == [stack EXCEPT ![Len(stack)] = @ \ {child}]
            new_cost == Last(left) - cost[<<Last(visited), child>>]
            skipped  == child \in ToSet(visited) \/ new_cost < 0
        IN  \/ /\ skipped
               /\ stack' = rest /\ UNCHANGED <<visited, left, yielded, returns>>
            \/ /\ ~skipped
               /\ yielded' = IF Yields(child) THEN yielded \cup {Append(visited, child)} ELSE yielded
               /\ returns' = IF Yields(child) THEN returns + 1 ELSE returns
               /\ \/ /\ Expands(child)
                     /\ visited' = Append(visited, child) /\ left' = Append(left, new_cost)
                     /\ stack' = Append(rest, Successors(DOMAIN cost, child))
                  \/ /\ ~Expands(child)
                     /\ stack' = rest /\ UNCHANGED <<visited, left>>
    /\ UNCHANGED <<cost, targets, length>>

Backtrack ==
    /\ stack # <<>> /\ Last(stack) = {}
    /\ stack' = Front(stack) /\ visited' = Front(visited) /\ left' = Front(left)
    /\ UNCHANGED <<cost, targets, length, yielded, returns>>

SearchNext == TryEdge \/ Backtrack
--------------------------------------------------------------------------------
(* Properties *)

\* What the first i edges of a path cost.
Spent(p) == LET spent[i \in 0..length] == IF i = 0 THEN 0 ELSE spent[i - 1] + cost[<<p[i], p[i + 1]>>]
            IN  spent

Wanted == {p \in SimplePaths(DOMAIN cost, Source, targets, length) : Spent(p)[length] <= Budget}

\* The search returns only paths the caller means, none of them twice, and once
\* it has ended has returned all of them, whatever order the edges came in.
SearchIsExact ==
    /\ yielded \subseteq Wanted /\ returns = Cardinality(yielded)
    /\ stack = <<>> => yielded = Wanted
=============================================================================
