--------------------------- MODULE MCVerification ---------------------------
(* Verification with a Telegram session and sessions of another channel.    *)
EXTENDS Verification

CONSTANTS t, u, v

MCChannelOf == [s \in Sessions |-> IF s = t THEN "telegram" ELSE "whatsapp"]
=============================================================================
