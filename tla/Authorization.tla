---------------------------- MODULE Authorization ----------------------------
(***************************************************************************)
(* What an approval token promises (radar/tokens.py, "Scenario B"): an     *)
(* operator grants it, one request claims it before it lapses, and at most *)
(* one write is performed under it.                                        *)
(***************************************************************************)
EXTENDS Naturals

CONSTANT Token

VARIABLES
  approval,         (* where each token stands                              *)
  writes            (* how many writes were performed under it              *)

Standing == {"none", "asked", "granted", "refused", "lapsed",
             "claimed", "performed", "wasted"}

(* A claim whose write does not go through is wasted, not given back.      *)
Moves ==
  {<<"none", "asked">>, <<"asked", "granted">>, <<"asked", "refused">>,
   <<"asked", "lapsed">>, <<"granted", "lapsed">>, <<"refused", "lapsed">>,
   <<"granted", "claimed">>, <<"claimed", "performed">>, <<"claimed", "wasted">>}

Init ==
  /\ approval = [k \in Token |-> "none"]
  /\ writes = [k \in Token |-> 0]

Stays(k) ==
  /\ approval'[k] = approval[k]
  /\ writes'[k] = writes[k]

Moved(k) ==
  /\ <<approval[k], approval'[k]>> \in Moves
  /\ writes'[k] = IF approval'[k] = "performed" THEN writes[k] + 1 ELSE writes[k]

(* One decision of an operator, or the removal of an agent, moves several. *)
Next ==
  /\ approval' \in [Token -> Standing]
  /\ writes' \in [Token -> Nat]
  /\ \A k \in Token : Stays(k) \/ Moved(k)

Spec == Init /\ [][Next]_<<approval, writes>>
=============================================================================
