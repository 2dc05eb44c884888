---------------------------- MODULE QualityGate ----------------------------
(***************************************************************************)
(* The correlator's event gate: a bounded memory of accepted event ids,    *)
(* kept as a set for lookup and a queue for eviction.                      *)
(***************************************************************************)
EXTENDS Naturals, Sequences

CONSTANTS
  Events,     \* event ids
  CacheSize   \* _dedup_cache_size, at least 10000 in the code

ASSUME CacheAssumption == CacheSize \in Nat \ {0}

VARIABLES
  seen,       \* _seen
  order       \* _order, oldest id first

gateVars == <<seen, order>>

\* Mutant of Remember: the newest id is evicted (pop, not popleft).
RememberDropsNewest(e) ==
  IF Len(order) < CacheSize
  THEN seen' = seen \cup {e} /\ order' = Append(order, e)
  ELSE UNCHANGED <<seen, order>>

\* _is_duplicate for an id not seen: remember it, evict from the left.
\* The queue held at most CacheSize ids, so one eviction is enough.
Remember(e) ==
  IF Len(order) < CacheSize
  THEN /\ seen' = seen \cup {e}
       /\ order' = Append(order, e)
  ELSE /\ order' = Append(Tail(order), e)
       /\ seen' = (seen \cup {e}) \ {Head(order)}

GateInit == seen = {} /\ order = <<>>

\* The memory dies with the process.
GateLost == seen' = {} /\ order' = <<>>

GateTypeOK == seen \subseteq Events /\ order \in Seq(Events)

\* The set and the queue agree, ids are queued once, and the bound holds.
GateConsistent ==
  /\ seen = {order[i] : i \in 1..Len(order)}
  /\ \A i, j \in 1..Len(order) : order[i] = order[j] => i = j
  /\ Len(order) <= CacheSize

=============================================================================
