------------------------- MODULE MCPoolPageWidgets -------------------------
(* Small instance of the pool page's switcher, price ticker and copy      *)
(* badge for TLC.                                                         *)
EXTENDS PoolPageWidgets, TLC

\* btc and bch have coingecko ids (COIN_META, lines 24-36); ltc has none.
MCPoolIds == {"btc", "bch", "ltc"}
MCGeckoIds == {"bitcoin", "bitcoin-cash"}
MCGeckoOf == [p \in MCPoolIds |->
                 CASE p = "btc" -> "bitcoin"
                   [] p = "bch" -> "bitcoin-cash"
                   [] OTHER     -> None]

\* "bit" matches the two bitcoin pools.
MCTerms == {"bit"}
MCMatches == [t \in MCTerms |-> {"btc", "bch"}]

MCFields == {"selected-endpoint"}
MCWallets == {"w1"}

=============================================================================
