------------------------------ MODULE MCClients ------------------------------
(* Two orders and a third one that comes meanwhile, one on a page; two orders   *)
(* between which the address may change; three currencies and three totals for  *)
(* the pages that convert.                                                      *)
EXTENDS Clients

CONSTANTS GTQ, USD, EUR

MCCurrencies == {GTQ, USD, EUR}
MCAmounts == {0, 1, 2}
=============================================================================
