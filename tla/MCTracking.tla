----------------------------- MODULE MCTracking -----------------------------
(***************************************************************************)
(* Tracking for TLC.  The upload and the experiments share only the         *)
(* tenant's phase and the gateway's process: each initial state has one of  *)
(* them active, with the emptying and the crashes of both; the first exper- *)
(* iment is the tenant's; the second the other's, and restorable, or not    *)
(* yet created.                                                            *)
(***************************************************************************)
EXTENDS Tracking

Asked == {<<"other">>, Deleted}

MCInit ==
    /\ Init
    /\ (puts = 0) <=> (kernel["tenant"] = Silent)
    /\ (puts = 0) <=> \A h \in Handles : handle[h] = "unminted"
    /\ puts # 0 => exp["e1"].loc = "tenant" /\ exp["e2"].loc = "other" /\ exp["e2"].life # "active"
    /\ puts = 0 => \A e \in Experiments : exp[e].life = "absent"
    /\ \A e \in Experiments : (exp[e].life = "absent") => exp[e].loc = "other"

MCSpec == MCInit /\ [][Next]_vars /\ Fairness
=============================================================================
