------------------------------ MODULE KeyTable ------------------------------
(***************************************************************************)
(* What the linear hash of cnif_lhash.c promises to its caller: a finite   *)
(* partial function from keys to the objects that stand for them.  Interning *)
(* a key that is present answers its object and changes nothing; an object *)
(* never changes its key and never stands for two of them.  Buckets, split *)
(* position and segments do not appear here.                               *)
(***************************************************************************)
CONSTANTS Key, Item

VARIABLE table        \* key -> the object lhash_get answers for it

KTInit == table = [k \in {} |-> k]

KTObjects == {table[k] : k \in DOMAIN table}

KTAdd(k, b) ==
    /\ k \notin DOMAIN table
    /\ b \notin KTObjects
    /\ table' = [x \in DOMAIN table \cup {k} |-> IF x = k THEN b ELSE table[x]]

KTRemove(k) ==
    /\ k \in DOMAIN table
    /\ table' = [x \in DOMAIN table \ {k} |-> table[x]]

KTClear == table' = [k \in {} |-> k]

KTNext ==
    \/ \E k \in Key, b \in Item : KTAdd(k, b)
    \/ \E k \in Key : KTRemove(k)
    \/ KTClear

KTSpec == KTInit /\ [][KTNext]_table
=============================================================================
