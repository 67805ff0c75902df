---------------------------- MODULE IdGenerator -----------------------------
(***************************************************************************)
(* The generator of runner ids (task/instance/id.rs): a bit per id, a hint *)
(* where to look first, and a count.                                       *)
(***************************************************************************)
EXTENDS Naturals

CONSTANT Capacity

ASSUME CapacityAssumption == Capacity \in Nat \ {0}

VARIABLES
  bits,             \* Generator::bitvec
  next_free_hint,
  allocated_count

generatorVars == <<bits, next_free_hint, allocated_count>>

Ids == 0 .. Capacity - 1

GeneratorInit ==
  /\ bits = [i \in Ids |-> FALSE]
  /\ next_free_hint = 0
  /\ allocated_count = 0

\* The id that next looks at in round i of its search.
Probe(i) == (next_free_hint + i) % Capacity

\* The rounds that find a free id.
Hits == {i \in 0 .. Capacity - 1 : ~bits[Probe(i)]}

\* next returns nothing.
Exhausted == allocated_count >= Capacity \/ Hits = {}

\* next returns id, what the first hit has found.
Next(id) ==
  /\ ~Exhausted
  /\ \E i \in Hits : id = Probe(i) /\ \A j \in Hits : i <= j
  /\ bits' = [bits EXCEPT ![id] = TRUE]
  /\ allocated_count' = allocated_count + 1
  /\ next_free_hint' = (id + 1) % Capacity

\* Defect: the hint stays where it is.
DefectReleaseId(id) ==
  IF id \in Ids /\ bits[id]
  THEN /\ bits' = [bits EXCEPT ![id] = FALSE]
       /\ allocated_count' = allocated_count - 1
       /\ UNCHANGED next_free_hint
  ELSE UNCHANGED generatorVars

\* release; an id that is free already is left alone.
ReleaseId(id) ==
  IF id \in Ids /\ bits[id]
  THEN /\ bits' = [bits EXCEPT ![id] = FALSE]
       /\ allocated_count' = allocated_count - 1
       /\ next_free_hint' = IF id < next_free_hint THEN id ELSE next_free_hint
  ELSE UNCHANGED generatorVars
=============================================================================
