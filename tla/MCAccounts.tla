----------------------------- MODULE MCAccounts -----------------------------
(* Accounts with a Telegram session and one of another channel.             *)
EXTENDS Accounts

CONSTANTS t, u

MCChannelOf == [s \in Sessions |-> IF s = t THEN "telegram" ELSE "whatsapp"]
=============================================================================
