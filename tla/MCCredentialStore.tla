------------------------- MODULE MCCredentialStore -------------------------
(* Two request threads of one process, one of another, and two banks.        *)
EXTENDS CredentialStore
CONSTANTS p1, p2, t1, t2, t3, b1, b2
MCProcess == {p1, p2}
MCThread == {t1, t2, t3}
MCHome == [t \in MCThread |-> IF t = t3 THEN p2 ELSE p1]
MCBank == {b1, b2}
MCEnvBank == {b1}
=============================================================================
