---------------------------- MODULE EvidenceChain ----------------------------
(***************************************************************************)
(* The evidence ledger and the trail of governed steps                     *)
(* (context_graph/store.py, verify.py; radar/db.record).                   *)
(*                                                                         *)
(* A row of evidence.ledger names the hash of the row before it. Its       *)
(* timestamp is the start of its transaction, what it takes for the row    *)
(* before it is the latest committed row when it asks: transactions are    *)
(* read committed. Checkpoints and the radar's own events share the chain. *)
(* A checkpoint is also kept in a ring in memory, and chained off the ring *)
(* when the database did not take it.                                      *)
(*                                                                         *)
(* Every row and node has a hash of its own: the tick at which it was      *)
(* made. 0 is the hash nothing has.                                        *)
(***************************************************************************)
EXTENDS Integers, Sequences, FiniteSets, SequencesExt

CONSTANTS
  Writer,           (* threads that record                                  *)
  Step,             (* what a governed step records: snapshot (TRUE for a   *)
                    (* state-producing kind), task, dead, tokens            *)
  RingMax,          (* AWCP_CONTEXT_GRAPH_RING                              *)
  MaxRecords        (* bound on records and restarts                        *)

Event == [snapshot |-> FALSE]    (* what db.record records: no step         *)

ASSUME RingAssumption == RingMax \in Nat \ {0} /\ Event \notin Step

VARIABLES
  durable,          (* the database is enabled                              *)
  tick,             (* the clock                                            *)
  ledger,           (* committed rows                                       *)
  ring,             (* _ring                                                *)
  record,           (* the record each thread is writing                    *)
  records           (* records and restarts so far                          *)
evidenceVars == <<durable, tick, ledger, ring, record, records>>

NoRecord == [stage |-> "idle"]

EvidenceInit ==
  /\ durable \in BOOLEAN
  /\ tick = 0
  /\ ledger = {} /\ ring = <<>>
  /\ record = [w \in Writer |-> NoRecord]
  /\ records = 0

Counted == records < MaxRecords /\ records' = records + 1

InTransaction(w) == record[w].stage \in {"select", "insert"}

(* The latest of a set of rows or nodes, as ORDER BY ts DESC LIMIT 1.      *)
IsLatest(r, set) == r \in set /\ \A other \in set : other.ts <= r.ts
LatestHash(set) == IF set = {} THEN 0 ELSE (CHOOSE r \in set : IsLatest(r, set)).hash

-----------------------------------------------------------------------------
(* record_checkpoint, _write_db and db.record.                             *)

(* The transaction opens. History: whether another one was open with it.   *)
BeginRecord(w, step) ==
  LET others == {v \in Writer \ {w} : InTransaction(v)}
  IN /\ record[w].stage = "idle" /\ durable
     /\ Counted
     /\ tick' = tick + 1
     /\ record' = [v \in Writer |->
          IF v = w THEN [stage |-> "select", step |-> step, ts |-> tick + 1,
                         overlapped |-> others # {}]
          ELSE IF v \in others THEN [record[v] EXCEPT !.overlapped = TRUE] ELSE record[v]]
     /\ UNCHANGED <<durable, ledger, ring>>

(* Mutant: the first row is what the chain is read from.                   *)
SelectPrevFirst(w) ==
  /\ record[w].stage = "select"
  /\ record' = [record EXCEPT ![w] =
       [stage |-> "insert", step |-> @.step, ts |-> @.ts, overlapped |-> @.overlapped,
        prev |-> IF ledger = {} THEN 0
                 ELSE (CHOOSE r \in ledger : \A other \in ledger : r.ts <= other.ts).hash]]
  /\ UNCHANGED <<durable, tick, ledger, ring, records>>

SelectPrev(w) ==
  /\ record[w].stage = "select"
  /\ record' = [record EXCEPT ![w] =
       [stage |-> "insert", step |-> @.step, ts |-> @.ts, overlapped |-> @.overlapped,
        prev |-> LatestHash(ledger)]]
  /\ UNCHANGED <<durable, tick, ledger, ring, records>>

(* The node is made, at the time its hash is known.                        *)
MakeNode(w, prev, hash) ==
  /\ tick' = tick + 1
  /\ record' = [record EXCEPT ![w] =
       [stage |-> "append", node |-> [hash |-> hash, prev |-> prev, ts |-> tick + 1,
                                      step |-> @.step]]]

Row(made) == [hash |-> made.ts, prev |-> made.prev, ts |-> made.ts, step |-> made.step,
              overlapped |-> made.overlapped]

CommitRecord(w) ==
  /\ record[w].stage = "insert"
  /\ ledger' = ledger \cup {Row(record[w])}
  /\ IF record[w].step = Event
       THEN record' = [record EXCEPT ![w] = NoRecord] /\ UNCHANGED tick
       ELSE MakeNode(w, record[w].prev, record[w].ts)
  /\ UNCHANGED <<durable, ring, records>>

(* The write fails, perhaps after it has landed: an event is dropped, a    *)
(* checkpoint goes on.                                                     *)
FailRecord(w, landed) ==
  /\ InTransaction(w) /\ (landed => record[w].stage = "insert")
  /\ ledger' = IF landed THEN ledger \cup {Row(record[w])} ELSE ledger
  /\ record' = [record EXCEPT ![w] =
       IF @.step = Event THEN NoRecord ELSE [stage |-> "chain", step |-> @.step]]
  /\ UNCHANGED <<durable, tick, ring, records>>

BeginOffLedger(w, step) ==
  /\ record[w].stage = "idle" /\ ~durable /\ step # Event
  /\ Counted
  /\ record' = [record EXCEPT ![w] = [stage |-> "chain", step |-> step]]
  /\ UNCHANGED <<durable, tick, ledger, ring>>

ChainOffRing(w) ==
  /\ record[w].stage = "chain"
  /\ MakeNode(w, IF ring = <<>> THEN 0 ELSE Last(ring).hash, tick + 1)
  /\ UNCHANGED <<durable, ledger, ring, records>>

AppendNode(w) ==
  LET longer == Append(ring, record[w].node)
  IN /\ record[w].stage = "append"
     /\ ring' = IF Len(longer) > RingMax THEN Tail(longer) ELSE longer
     /\ record' = [record EXCEPT ![w] = NoRecord]
     /\ UNCHANGED <<durable, tick, ledger, records>>

-----------------------------------------------------------------------------
(* Reading: the first nodes of the ledger, or the last ones of the ring.   *)

Oldest(set, limit) == {n \in set : Cardinality({m \in set : m.ts <= n.ts}) <= limit}
Newest(set, limit) == {n \in set : Cardinality({m \in set : m.ts >= n.ts}) <= limit}

NodeOfRow(row) == [hash |-> row.hash, prev |-> row.prev, ts |-> row.ts, step |-> row.step]

(* The nodes of one workflow, and of every agent in it.                    *)
ReadNodes(limit, fails) ==
  IF durable /\ ~fails
    THEN Oldest({NodeOfRow(r) : r \in {r \in ledger : r.step # Event}}, limit)
    ELSE Newest(ToSet(ring), limit)

(* A new radar process has an empty ring; open transactions roll back.     *)
RestartRecorder ==
  /\ Counted
  /\ ring' = <<>>
  /\ record' = [w \in Writer |-> NoRecord]
  /\ UNCHANGED <<durable, tick, ledger>>

(* verify_chain: the rows that do not name the row before them. The first  *)
(* row of the window has none.                                             *)
Before(row) == {r \in ledger : r.ts < row.ts}
Breaks(row) == Before(row) # {} /\ row.prev # LatestHash(Before(row))
VerifyChain(limit) == {row \in Oldest(ledger, limit) : Breaks(row)}

-----------------------------------------------------------------------------
EvidenceNext ==
  \/ \E w \in Writer :
       \/ \E step \in Step \cup {Event} : BeginRecord(w, step) \/ BeginOffLedger(w, step)
       \/ SelectPrev(w) \/ CommitRecord(w)
       \/ \E landed \in BOOLEAN : FailRecord(w, landed)
       \/ ChainOffRing(w) \/ AppendNode(w)
  \/ RestartRecorder

EvidenceSpec == EvidenceInit /\ [][EvidenceNext]_evidenceVars

-----------------------------------------------------------------------------
(* A chain nobody tampered with breaks only where two transactions were    *)
(* open at once: a break verify_chain reports at a row whose transaction   *)
(* was alone is evidence of tampering, whatever failed, was dropped or     *)
(* restarted (_write_db, db.record, verify_chain).                         *)
ForksOnlyByOverlap == \A row \in VerifyChain(MaxRecords) : row.overlapped
=============================================================================
