------------------------------ MODULE MCLHash -------------------------------
(***************************************************************************)
(* LHash on a small table: segments of two buckets, so that every second   *)
(* split needs a segment, and eight keys whose hash values agree in the low *)
(* bits and differ higher up; one pair collides whatever the size.         *)
(***************************************************************************)
EXTENDS LHash

CONSTANT MinSlots

MCKey == 1 .. 8

MCHash == [k \in MCKey |-> <<0, 2, 4, 8, 16, 3, 7, 7>>[k]]

\* The address malloc answers for the object of a key: one of two per key, the
\* second only when the first is in use.  No code compares two addresses.
MCItem == MCKey \X {1, 2}

MCPut(k) ==
    \E n \in {1, 2} : (n = 2 => <<k, 1>> \in DOMAIN key) /\ Put(k, <<k, n>>)

\* shrink at a segment boundary that was never passed takes SEGSZ off nslots
\* again and again; the instance stops erasing when it is below MinSlots.
MCErase(k) == nslots >= MinSlots /\ Erase(k)

MCNext ==
    \/ New
    \/ \E k \in Key : MCPut(k)
    \/ \E k \in Key : MCErase(k)
    \/ Free

MCSpec == Init /\ [][MCNext]_vars
=============================================================================
