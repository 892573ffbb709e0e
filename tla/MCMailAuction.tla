--------------------------- MODULE MCMailAuction ---------------------------
(* MailAuction for TLC: two players who come and go, a poor one and a rich  *)
(* one, and a third who is away.                                            *)
EXTENDS MailAuction

CONSTANTS poor, rich, away

MCPlayers == {poor, rich, away}
MCAway == {away}
MCMoney == [p \in MCPlayers |-> CASE p = poor -> 1 [] p = rich -> 2 [] p = away -> 0]

=============================================================================
