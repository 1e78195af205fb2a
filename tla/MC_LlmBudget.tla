---------------------------- MODULE MC_LlmBudget ----------------------------
(* Instances of LlmBudget for TLC: with a budget of 2 tokens the third     *)
(* exhausts, with one of 3 the fourth.                                     *)
EXTENDS LlmBudget, TLC

CONSTANTS c1, c2

NoEvent == [event \in Event |-> 0]
ThreadsLimit == [NoEvent EXCEPT !["call"] = 3, !["report"] = 1, !["disturbance"] = 1]
FailLimit == [NoEvent EXCEPT !["call"] = 1]
Calls == Permutations({c1, c2})
=============================================================================
