--------------------------- MODULE MC_GovernedTask --------------------------
(* Instances of GovernedTask for TLC.                                      *)
EXTENDS GovernedTask

NoEvent == [e \in Event |-> 0]
PauseLimit == [NoEvent EXCEPT !["tool"] = 1, !["verdict"] = 2, !["stop"] = 1,
                              !["fault"] = 1, !["read"] = 1]
AnswerLimit == [NoEvent EXCEPT !["tool"] = 1, !["read"] = 1]
=============================================================================
