-------------------------- MODULE GroupCache_proofs --------------------------
(***************************************************************************)
(* The queue and the map of a row group cache stay in step.                *)
(***************************************************************************)
EXTENDS GroupCache, TLAPS

IInv == CacheTypeOK /\ CacheInStep

\* What the queue of a cache in step looks like without its oldest group.
LEMMA RemainingInStep ==
    ASSUME CacheTypeOK, CacheInStep, NEW g \in Groups, ~Cached(g)
    PROVE  /\ Remaining(g) \in Seq(Groups)
           /\ Len(Remaining(g)) < Cap
           /\ \A h \in Groups : h \in map \ Evicted(g) <=> \E i \in DOMAIN Remaining(g) : Remaining(g)[i] = h
           /\ \A i, j \in DOMAIN Remaining(g) : Remaining(g)[i] = Remaining(g)[j] => i = j
<1> USE CapAssumption
<1>1. Len(order) \in Nat /\ DOMAIN order = 1 .. Len(order) /\ order \in Seq(Groups)
    BY DEF CacheTypeOK
<1>2. CASE Len(order) < Cap
    <2>1. Remaining(g) = order /\ Evicted(g) = {}
        <3>1. ~ (Len(order) >= Cap)
            BY <1>1, <1>2
        <3> QED
            BY <3>1, Zenon DEF Remaining, Evicted
    <2> QED
        BY <1>1, <1>2, <2>1 DEF CacheInStep
<1>3. CASE Len(order) >= Cap
    <2>1. Remaining(g) = Tail(order) /\ Evicted(g) = {Head(order)} /\ order # <<>>
        BY <1>1, <1>3 DEF Remaining, Evicted
    <2>2. /\ Tail(order) \in Seq(Groups) /\ Len(Tail(order)) = Len(order) - 1
          /\ DOMAIN Tail(order) = 1 .. Len(order) - 1
          /\ \A i \in 1 .. Len(order) - 1 : Tail(order)[i] = order[i + 1]
          /\ Head(order) = order[1]
        BY <1>1, <2>1
    <2>3. Len(Remaining(g)) < Cap
        BY <1>1, <2>1, <2>2 DEF CacheInStep
    <2>4. \A i, j \in DOMAIN Remaining(g) : Remaining(g)[i] = Remaining(g)[j] => i = j
        <3> SUFFICES ASSUME NEW i \in DOMAIN Remaining(g), NEW j \in DOMAIN Remaining(g),
                            Remaining(g)[i] = Remaining(g)[j]
                     PROVE  i = j
            OBVIOUS
        <3>1. i \in 1 .. Len(order) - 1 /\ j \in 1 .. Len(order) - 1
            BY <2>1, <2>2
        <3>2. order[i + 1] = order[j + 1]
            BY <2>1, <2>2, <3>1
        <3>3. i + 1 \in DOMAIN order /\ j + 1 \in DOMAIN order
            BY <1>1, <3>1
        <3>4. i + 1 = j + 1
            BY <3>2, <3>3 DEF CacheInStep
        <3> QED
            BY <3>1, <3>4
    <2>5. ASSUME NEW h \in Groups
          PROVE  h \in map \ {order[1]} <=> \E i \in 1 .. Len(order) - 1 : order[i + 1] = h
        <3>1. ASSUME h \in map \ {order[1]}
              PROVE  \E i \in 1 .. Len(order) - 1 : order[i + 1] = h
            <4>1. PICK k \in 1 .. Len(order) : order[k] = h
                BY <1>1, <3>1 DEF CacheInStep
            <4>2. k - 1 \in 1 .. Len(order) - 1 /\ order[(k - 1) + 1] = h
                BY <1>1, <3>1, <4>1
            <4> QED
                BY <4>2
        <3>2. ASSUME NEW i \in 1 .. Len(order) - 1, order[i + 1] = h
              PROVE  h \in map \ {order[1]}
            <4>1. i + 1 \in DOMAIN order /\ 1 \in DOMAIN order /\ i + 1 # 1
                BY <1>1
            <4>2. order[i + 1] # order[1]
                BY <4>1 DEF CacheInStep
            <4>3. h \in map
                BY <3>2, <4>1 DEF CacheInStep
            <4> QED
                BY <3>2, <4>2, <4>3
        <3> QED
            BY <3>1, <3>2
    <2>6. \A h \in Groups : h \in map \ Evicted(g) <=> \E i \in DOMAIN Remaining(g) : Remaining(g)[i] = h
        <3> SUFFICES ASSUME NEW h \in Groups
                     PROVE  h \in map \ {order[1]} <=> \E i \in DOMAIN Tail(order) : Tail(order)[i] = h
            BY <2>1, <2>2, Zenon
        <3>1. (\E i \in DOMAIN Tail(order) : Tail(order)[i] = h)
                <=> \E i \in 1 .. Len(order) - 1 : order[i + 1] = h
            BY <2>2, Zenon
        <3> QED
            BY <2>5, <3>1, Zenon
    <2> QED
        BY <2>1, <2>2, <2>3, <2>4, <2>6, Zenon
<1> QED
    BY <1>1, <1>2, <1>3 DEF CacheInStep

LEMMA InitIInv == CacheInit => IInv
BY CapAssumption DEF CacheInit, IInv, CacheTypeOK, CacheInStep

LEMMA NextIInv == IInv /\ [CacheNext]_cache_vars => IInv'
<1> SUFFICES ASSUME IInv, [CacheNext]_cache_vars PROVE IInv'
    OBVIOUS
<1> USE DEF IInv
<1>1. CASE UNCHANGED cache_vars
    BY <1>1 DEF cache_vars, CacheTypeOK, CacheInStep
<1>2. ASSUME NEW r \in Readers, Miss(r) \/ DecodeGroup(r) PROVE IInv'
    <2>1. map' = map /\ order' = order
        BY <1>2 DEF Miss, DecodeGroup
    <2>2. /\ pc' \in [Readers -> {"idle", "decode", "insert"}]
          /\ rg' \in [Readers -> Groups \cup {NoGroup}]
        BY <1>2 DEF Miss, DecodeGroup, CacheTypeOK
    <2>3. \A q \in Readers : pc'[q] # "idle" => rg'[q] \in Groups
        BY <1>2 DEF Miss, DecodeGroup, CacheTypeOK
    <2> QED
        BY <2>1, <2>2, <2>3 DEF CacheTypeOK, CacheInStep
<1>3. ASSUME NEW r \in Readers, Insert(r) PROVE IInv'
    <2> DEFINE g == rg[r]
    <2>1. g \in Groups
        BY <1>3 DEF Insert, CacheTypeOK
    <2>2. /\ pc' \in [Readers -> {"idle", "decode", "insert"}]
          /\ rg' \in [Readers -> Groups \cup {NoGroup}]
          /\ \A q \in Readers : pc'[q] # "idle" => rg'[q] \in Groups
        BY <1>3 DEF Insert, CacheTypeOK
    <2>3. CASE Cached(g)
        <3>1. map' = map /\ order' = order
            BY <1>3, <2>3 DEF Insert, Evicted, Cached
        <3> QED
            BY <2>2, <3>1 DEF CacheTypeOK, CacheInStep
    <2>4. CASE ~Cached(g)
        <3> DEFINE kept == Remaining(g)
                   left == map \ Evicted(g)
        <3>1. /\ kept \in Seq(Groups)
              /\ Len(kept) < Cap
              /\ \A h \in Groups : h \in left <=> \E i \in DOMAIN kept : kept[i] = h
              /\ \A i, j \in DOMAIN kept : kept[i] = kept[j] => i = j
            BY <2>1, <2>4, RemainingInStep
        <3>2. order' = Append(kept, g) /\ map' = left \cup {g}
            BY <1>3, <2>4 DEF Insert
        <3>3. g \notin left /\ left \subseteq Groups
            BY <2>4 DEF Cached, CacheTypeOK
        <3> HIDE DEF kept, left, g
        <3>4. /\ order' \in Seq(Groups) /\ Len(order') = Len(kept) + 1 /\ Len(kept) \in Nat
              /\ DOMAIN kept = 1 .. Len(kept) /\ DOMAIN order' = 1 .. Len(kept) + 1
              /\ \A i \in 1 .. Len(kept) : order'[i] = kept[i]
              /\ order'[Len(kept) + 1] = g
            BY <2>1, <3>1, <3>2
        <3>5. Len(order') <= Cap
            BY <3>1, <3>4, CapAssumption
        <3>6. \A i \in 1 .. Len(kept) : kept[i] # g
            BY <2>1, <3>1, <3>3, <3>4
        <3>7. \A i, j \in DOMAIN order' : order'[i] = order'[j] => i = j
            BY <3>1, <3>4, <3>6
        <3>8. ASSUME NEW h \in Groups
              PROVE  h \in map' <=> \E i \in DOMAIN order' : order'[i] = h
            <4>1. CASE h = g
                BY <3>2, <3>4, <4>1
            <4>2. CASE h # g
                <5>1. h \in map' <=> \E i \in 1 .. Len(kept) : kept[i] = h
                    BY <3>1, <3>2, <3>4, <4>2
                <5> QED
                    BY <3>4, <4>2, <5>1
            <4> QED
                BY <4>1, <4>2
        <3>9. map' \subseteq Groups
            BY <2>1, <3>2, <3>3
        <3> QED
            BY <2>2, <3>4, <3>5, <3>7, <3>8, <3>9 DEF CacheTypeOK, CacheInStep
    <2> QED
        BY <2>3, <2>4
<1> QED
    BY <1>1, <1>2, <1>3 DEF CacheNext

\* Whatever the number of readers, row groups and slots, and however readers
\* interleave between looking up and putting in, the queue and the map of the
\* cache agree and neither outgrows the cap (sstable.rs 592-611).
THEOREM CacheStaysInStep == CacheSpec => []CacheInStep
<1>1. IInv => CacheInStep
    BY DEF IInv
<1> QED
    BY <1>1, InitIInv, NextIInv, PTL DEF CacheSpec
=============================================================================
