------------------------------- MODULE MCCluster -------------------------------
EXTENDS Cluster, TLC

CONSTANTS j1, j2, w1, w2, wc, indexer

MCPluginOf == (j1 :> wc @@ j2 :> indexer)
MCBefore == (j1 :> "none" @@ j2 :> j1)
MCWorkers == <<w1, w2>>
MCStartPlugin == (w1 :> wc @@ w2 :> indexer)
MCMaxRuns == (j1 :> 1 @@ j2 :> 2)
================================================================================
