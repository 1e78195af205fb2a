----------------------------- MODULE WorkingSet -----------------------------
(***************************************************************************)
(* The context graph manager (context_graph/manager.py): which steps of a  *)
(* workflow are stale, and which of the others a recovering workflow       *)
(* carries forward within a budget of tokens.                              *)
(*                                                                         *)
(* The relevance of a step is a weighted sum of its age, kind, outcome and *)
(* focus, all tunable: here any order of the steps may be theirs.          *)
(***************************************************************************)
EXTENDS EvidenceChain

CONSTANTS
  MaxAge,           (* AWCP_CTX_STALE_MAX_AGE_S, in ticks; 0 for never      *)
  Budget,           (* budgets a caller may ask for                         *)
  Memories          (* what long-term memory may recall: tokens of each     *)

(* What a step counts, in estimate_tokens, is no less than nothing; a      *)
(* caller's budget is one only when it is positive.                        *)
ASSUME TrailAssumption ==
  /\ \A step \in Step : step.tokens \in Nat
  /\ MaxAge \in Nat /\ Budget \subseteq Nat \ {0}
  /\ Memories \in Seq(Nat)

(* The newest of a set of nodes; nodes have distinct times.                *)
NewestOf(nodes) == CHOOSE n \in nodes : IsLatest(n, nodes)

Superseded(n, nodes) ==
  /\ n.step.snapshot
  /\ \E later \in nodes :
       later.step.snapshot /\ later.step.task = n.step.task /\ later.ts > n.ts

Aged(n, nodes) == MaxAge > 0 /\ NewestOf(nodes).ts - n.ts > MaxAge

Stale(n, nodes) == Superseded(n, nodes) \/ Aged(n, nodes) \/ n.step.dead
Fresh(nodes) == {n \in nodes : ~Stale(n, nodes)}

(* The sums of the first numbers of a sequence, of none of them to all.    *)
Totals(numbers) ==
  LET total[k \in 0..Len(numbers)] == IF k = 0 THEN 0 ELSE total[k - 1] + numbers[k]
  IN total

TokensOf(seq) == Totals([i \in DOMAIN seq |-> seq[i].step.tokens])[Len(seq)]

(* Mutant: the most relevant step comes first.                             *)
OrderedByRelevance(fresh, relevance) == relevance

(* The newest fresh step first, the others by relevance.                   *)
Ordered(fresh, relevance) ==
  LET newest == CHOOSE i \in DOMAIN relevance : relevance[i] = NewestOf(fresh)
  IN <<relevance[newest]>> \o RemoveAt(relevance, newest)

(* What is seated of the first steps in order, of none of them to all. The *)
(* first one is seated, fit or not; one that does not fit any more is      *)
(* passed over.                                                            *)
Seats(order, budget) ==
  LET seated[k \in 0..Len(order)] ==
        IF k = 0 THEN <<>>
        ELSE IF \/ seated[k - 1] = <<>>
                \/ TokensOf(seated[k - 1]) + order[k].step.tokens <= budget
          THEN Append(seated[k - 1], order[k])
          ELSE seated[k - 1]
  IN seated

(* The steps in the order of their seating; they are shown by time.        *)
Selected(nodes, relevance, budget) ==
  LET order == Ordered(Fresh(nodes), relevance)
  IN IF Fresh(nodes) = {} THEN <<>> ELSE Seats(order, budget)[Len(order)]

(* Recall stops at the first memory that does not fit.                     *)
Recalled(left) ==
  LET total == Totals(Memories)
      fits  == {k \in 0..Len(Memories) : \A j \in 0..k : total[j] <= left}
  IN IF left <= 0 THEN 0 ELSE total[Max(fits)]

(* Where to resume from: the newest step, stale or not.                    *)
ResumeStep(nodes) == NewestOf(nodes)

-----------------------------------------------------------------------------
(* Whatever has been recorded and however its steps rank, a recovering     *)
(* workflow gets its newest fresh step, nothing stale or twice, every other*)
(* fresh step that would still fit, and no more tokens than its budget     *)
(* unless that one step alone is above it; it resumes at a step it has     *)
(* been given, unless that step did not take effect (working_set).         *)
AnchorSeated ==
  \A limit \in 1..MaxRecords, fails \in BOOLEAN, budget \in Budget :
    LET nodes == ReadNodes(limit, fails)
        fresh == Fresh(nodes)
    IN \A relevance \in SetToSeqs(fresh) :
         LET selected == Selected(nodes, relevance, budget)
             used     == TokensOf(selected)
         IN nodes # {} =>
              /\ ResumeStep(nodes) \in ToSet(selected) \/ ResumeStep(nodes).step.dead
              /\ fresh # {} => NewestOf(fresh) \in ToSet(selected)
              /\ ToSet(selected) \subseteq fresh
              /\ \A i, j \in DOMAIN selected : selected[i] = selected[j] => i = j
              /\ \A n \in fresh \ ToSet(selected) : used + n.step.tokens > budget
              /\ Len(selected) <= 1 \/ used + Recalled(budget - used) <= budget
=============================================================================
