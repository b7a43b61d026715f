--------------------------- MODULE MCConnectPage ---------------------------
(* Small instance of the connect page for TLC.                             *)
EXTENDS ConnectPage, TLC

\* Three pools, ordered btc, doge, ltc by symbol.
MCPoolIds == {"btc", "doge", "ltc"}

MCRank == [p \in MCPoolIds |-> CASE p = "btc" -> 0 [] p = "doge" -> 1 [] p = "ltc" -> 2]

\* The port maps a poll may give a pool: spec 8's three ports with no
\* minima (odd length), two ports whose minima reverse their number order
\* (even length), four ports with a tie and a missing minimum, three ports
\* with a tie on the smallest minimum, and no ports. They share port 3333,
\* so a port can survive a change of pool or of map.
MCPortMaps ==
    { [k \in {3333, 3355, 3377} |-> NoMin],
      [k \in {3333, 4444} |-> IF k = 4444 THEN 512 ELSE 4096],
      [k \in {3333, 3355, 3377, 4444} |->
          CASE k = 3377 -> 4096 [] k = 4444 -> NoMin [] OTHER -> 512],
      [k \in {3333, 3377, 4444} |-> IF k = 3333 THEN 4096 ELSE 512],
      <<>> }

\* The ?pool= parameter of the violation run.
MCRequested == "btc"

=============================================================================
