----------------------------- MODULE MCWebDesk -----------------------------
(* The web client, and the limits on logins and on Telegram messages, of   *)
(* which one runs: they share no state.                                    *)
EXTENDS WebDesk, LoginThrottle, RequestQuota

CONSTANTS e1, e2, r1, r2

VARIABLE focus      \* the part that runs

MCInit ==
    /\ focus \in {"desk", "logins", "quota"}
    /\ DeskInit /\ Init /\ QuotaInit

MCNext ==
    /\ UNCHANGED focus
    /\ \/ focus = "desk" /\ DeskNext /\ UNCHANGED <<vars, quotaVars>>
       \/ focus = "logins" /\ Next /\ UNCHANGED <<deskVars, quotaVars>>
       \/ focus = "quota" /\ QuotaNext /\ UNCHANGED <<deskVars, vars>>

MCSpec == MCInit /\ [][MCNext]_<<focus, deskVars, vars, quotaVars>>

Alike == Permutations({e1, e2}) \cup Permutations({r1, r2})
=============================================================================
