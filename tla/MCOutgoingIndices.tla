------------------------- MODULE MCOutgoingIndices -------------------------
(* OutgoingIndices for TLC. *)
EXTENDS OutgoingIndices, TLC

CallersSymmetry == Permutations(Callers)

\* All but stored0, a history that no action and none of the properties of the
\* runs reads.
WithoutStored0 ==
    <<chain, store, entryVars, synced, callerVars, saver, restarts,
      issued, retired, promised, outstanding>>

\* Bound: indices taken in all once a channel was reopened.  In its first epoch
\* they run up to CounterCap: enough for the process to lose some, for the
\* destination to redeem those, and for two callers to lift the counter past them.
ReopenedCap == 2
ReopenedIsSmall ==
    \A ch \in Channels : chain[ch].epoch > 1 =>
        \A a, b \in {a \in Arcs : a[1][1] = ch} :
            (IF a = b THEN index[a] ELSE index[a] + index[b]) <= ReopenedCap
=============================================================================
