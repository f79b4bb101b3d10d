--------------------------- MODULE AppendOnlyLog ---------------------------
(***************************************************************************)
(* What a durable log promises its readers: entries are numbered by their  *)
(* position, one is added at a time at the end, and none ever changes or   *)
(* disappears, until the storage itself is damaged.                        *)
(***************************************************************************)
EXTENDS Naturals, Sequences

CONSTANT Value     \* what an entry carries besides its number
VARIABLES
    log,           \* the entries a reader gets back
    damaged        \* a write was torn in a way readers cannot see

vars == <<log, damaged>>

Init == log = <<>> /\ damaged = FALSE

AppendEntry ==
    /\ ~damaged /\ ~damaged'
    /\ \E v \in Value : log' = Append(log, [id |-> Len(log) + 1, uid |-> v])

\* The promise ends here.
Damage == damaged'

Next == AppendEntry \/ Damage

\* A damaged log is never taken for a sound one again.
Spec == Init /\ [][Next]_vars
=============================================================================
