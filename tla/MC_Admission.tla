---------------------------- MODULE MC_Admission ----------------------------
(* Instances of Admission for TLC.                                         *)
EXTENDS Admission

CONSTANTS agent, s1, s2, loop, pool

NoEvent == [event \in Event |-> 0]
All == {Hook}
AnyOrNone == {{}, Hook}
NoMagazine == [a \in Agent |-> {}]
OneMagazine == [a \in Agent |-> {s1}]
None == {}
Telemetry == {"telemetry"}

SerialLimit == [NoEvent EXCEPT !["register"] = 2, !["announce"] = 1, !["card"] = 1,
                               !["remove"] = 1, !["restart"] = 1, !["expire"] = 1]
(* A run with both would be three times as large.                          *)
CardOrExpiry == spent["card"] + spent["expire"] <= 1
RaceLimit == [NoEvent EXCEPT !["register"] = 2, !["remove"] = 1, !["expire"] = 1]
CrashLimit == [NoEvent EXCEPT !["register"] = 2, !["restart"] = 1]
CutLimit == [NoEvent EXCEPT !["register"] = 1, !["restart"] = 1]
LiveLimit == [NoEvent EXCEPT !["register"] = 1, !["remove"] = 1, !["lapse"] = 1]
=============================================================================
