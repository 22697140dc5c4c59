---------------------------- MODULE MCEvalPulse ----------------------------
EXTENDS EvalPulse, TLC

\* Workers, requests and dispatcher calls are interchangeable; no property of
\* the runs that use this set is a liveness property.
Symmetry ==
  Permutations(Workers) \union Permutations(Requests)
    \union Permutations(Dispatchers)

=============================================================================
