------------------------- MODULE MCConnectionSetup -------------------------
(* Instances of ConnectionSetup for TLC.                                   *)
EXTENDS ConnectionSetup

CONSTANTS e1, w1, i1, i2

\* e1 is an Evolution setup, w1 a WhatsApp one, the others Instagram ones.
MCKindOf ==
  [s \in Setups |-> IF s = e1 THEN "evolution"
                    ELSE IF s = w1 THEN "whatsapp" ELSE "instagram"]
=============================================================================
