----------------------------- MODULE DurableLog -----------------------------
(***************************************************************************)
(* What a Region promises across crashes: a log of transactions, each      *)
(* applied whole, of which a first part is durable.  A stop may take the   *)
(* rest of the log away, but only from its end, and what is served after   *)
(* the next opening is exactly what the log that is left says.             *)
(***************************************************************************)
EXTENDS Naturals, Sequences

CONSTANTS
    Keys,   \* the keys
    Ids     \* names of transactions, 0 for none

VARIABLES
    log,        \* the transactions, each a name and the keys it wrote
    synced,     \* the first of them no stop takes away
    up,         \* the Region is open
    kv          \* kv[k]: the transaction whose value of k is served

vars == <<log, synced, up, kv>>

Empty == [k \in Keys |-> 0]

\* The last transaction of l that wrote k.
LastWriter(l, k) ==
    LET W == {i \in DOMAIN l : k \in l[i].keys}
    IN  IF W = {} THEN 0 ELSE l[CHOOSE i \in W : \A j \in W : j <= i].id
Apply(l) == [k \in Keys |-> LastWriter(l, k)]

Init ==
    /\ log = <<>>
    /\ synced = 0
    /\ up = FALSE
    /\ kv = Empty

Write ==
    /\ up
    /\ \E K \in SUBSET Keys, t \in Ids : log' = Append(log, [id |-> t, keys |-> K])
    /\ synced' \in synced .. Len(log')
    /\ kv' = Apply(log')
    /\ UNCHANGED up

Sync ==
    /\ up
    /\ synced' \in synced .. Len(log)
    /\ UNCHANGED <<log, up, kv>>

Stop ==
    /\ up
    /\ up' = FALSE
    /\ kv' = Empty
    /\ synced' \in synced .. Len(log)
    /\ UNCHANGED log

Recover ==
    /\ ~up
    /\ \E n \in synced .. Len(log) :
        /\ log' = SubSeq(log, 1, n)
        /\ synced' \in synced .. n
    /\ up' = TRUE
    /\ kv' = Apply(log')

Next == Write \/ Sync \/ Stop \/ Recover

Spec == Init /\ [][Next]_vars
=============================================================================
