---------------------------- MODULE MCCatalogCrawl ----------------------------
(* Instances of CatalogCrawl for TLC.                                      *)
EXTENDS CatalogCrawl, TLC

MCMembership == {<<1, 1>>, <<2, 1>>}
MCListed     == {<<"event", 1>>, <<"market", 1>>, <<"market", 2>>}
=============================================================================
