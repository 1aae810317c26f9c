----------------------------- MODULE MCGateways -----------------------------
(* The gateways of Payme and of Click, of which one runs: no receipt and   *)
(* no row is of both.                                                      *)
EXTENDS PaymeGateway, ClickGateway, TLC

CONSTANTS h1, h2, h3, c1, c2

VARIABLE provider   \* the gateway that runs

MCInit == provider \in {"payme", "click"} /\ Init /\ ClickInit

MCNext ==
    /\ UNCHANGED provider
    /\ \/ provider = "payme" /\ Next /\ UNCHANGED clickVars
       \/ provider = "click" /\ ClickNext /\ UNCHANGED vars

MCSpec == MCInit /\ [][MCNext]_<<provider, vars, clickVars>>

\* Handlers are interchangeable, and so are Click's transactions.
Alike == Permutations({h1, h2, h3}) \cup Permutations({c1, c2})
=============================================================================
