--------------------------- MODULE MCReadingStream --------------------------
(* Small instances of ReadingStream for TLC: two tenants, two readings of one *)
(* key with different values, and a malformed one.                            *)
EXTENDS ReadingStream

MCReadings ==
    {[tenant |-> "t1", sensor |-> "s1", at |-> 0, val |-> 1, kind |-> "ok"],
     [tenant |-> "t1", sensor |-> "s1", at |-> 0, val |-> 2, kind |-> "ok"],
     [tenant |-> "t2", sensor |-> "s2", at |-> 3, val |-> 1, kind |-> "ok"],
     [tenant |-> "t2", sensor |-> "s2", at |-> 9, val |-> 1, kind |-> "bad"]}
=============================================================================
