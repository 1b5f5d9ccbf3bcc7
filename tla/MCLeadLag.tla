----------------------------- MODULE MCLeadLag ------------------------------
(* Model of LeadLag for TLC: an exchange whose clock is two units ahead    *)
(* and one whose clock is one behind; two books 39 basis points apart, and *)
(* a wide one that spans both.  The configuration names Gate twice, so that*)
(* the default routing applies.                                            *)
EXTENDS LeadLag

CONSTANTS binance, gate, s1

MCDefault == [primary |-> binance, hedge |-> gate]
MCConfigured == [primary |-> gate, hedge |-> gate]
MCSkew == [e \in Exchanges |-> IF e = Primary THEN 2 ELSE -1]
MCBooks == {[bid |-> 1000, ask |-> 1002], [bid |-> 1006, ask |-> 1010],
            [bid |-> 990, ask |-> 1015]}
=============================================================================
