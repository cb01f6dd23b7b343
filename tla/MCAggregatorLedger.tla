------------------------- MODULE MCAggregatorLedger -------------------------
(* Three processes for two clients: one with an -id beyond the clients the *)
(* aggregator was told to wait for.                                        *)
EXTENDS AggregatorLedger

MCProcess == {"conntest1", "conntest2", "conntest3"}
MCIds == [p \in MCProcess |->
            CASE p = "conntest1" -> 0 [] p = "conntest2" -> 257 [] OTHER -> 2]
MCTps == {0, 1}

=============================================================================
