-------------------------- MODULE MCDecisionCache --------------------------
(* Constants of the TLC runs of DecisionCache.                             *)
EXTENDS DecisionCache, TLC

\* Together: one ban of this node condemns, one of a trusted peer, or two of nodes
\* that are unknown.  The default policy alone would be stricter with the latter.
MCBasePolicy == [ultimate |-> 1, unknown |-> 1]
MCOverride == [s \in Server |-> [trusted |-> 1, unknown |-> 2]]
=============================================================================
