--------------------------- MODULE MCMinerLookup ---------------------------
(* Two pools; the API lists none, both with btc first, or only ltc. The   *)
(* URL names ltc and a wallet, so the URL effect starts a lookup for a    *)
(* pool that is not the first one.                                        *)
EXTENDS MinerLookup

MCPoolIds == {"btc", "ltc"}

MCPoolLists == {<<>>, <<"btc", "ltc">>, <<"ltc">>}

MCWallets == {"w1"}

=============================================================================
