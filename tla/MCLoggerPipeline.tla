-------------------------- MODULE MCLoggerPipeline --------------------------
EXTENDS LoggerPipeline, TLC

CONSTANTS e1, e2, p0, p1, w1, w2

MCClicks == <<"ingest", "clicks">>
MCBare == <<"clicks">>
MCTables == {MCClicks, MCBare}
MCEvents == {e1, e2}
MCHash == [e \in MCEvents |-> IF e = e1 THEN p0 ELSE p1]

WriterFaults == {"crash", "commit", "rebalance", "surge"}

\* The two halves meet in no topic, so one is explored at a time: the requests
\* of the clients, or the records of other producers and the writer.
OneHalf ==
  LET ingest == /\ \A p \in Partitions : WriterTopic[p] = <<>>
                /\ pod = [w \in Pods |-> DownPod]
      writer == /\ \A r \in Requests : req[r].st = "unsent"
                /\ \A e \in Events : tableOf[e] = MCClicks
  IN  IF faults \subseteq WriterFaults THEN ingest \/ writer ELSE ingest

MCPods == Permutations({w1, w2})

MCFaults == {{}, {"overlap"}, {"ack", "restart"}, {"restart", "ttl", "cap"},
             {"crash", "commit"}, {"crash", "rebalance"}, {"surge"}}

\* A rolling update runs the new pod next to the old one.
MCSurge == {{"surge"}}

=============================================================================
