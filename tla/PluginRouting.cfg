SPECIFICATION Spec
CONSTANTS
  j1 = j1
  j2 = j2
  w1 = w1
  w2 = w2
  wc = wc
  indexer = indexer
  Jobs = {j1, j2}
  Plugins = {wc, indexer}
  PluginOf <- MCPluginOf
  Before <- MCBefore
  Workers <- MCWorkers
  StartPlugin <- MCStartPlugin
  Chunks = 2
  MaxRuns <- MCMaxRuns
  MaxFaults = 0
INVARIANTS PluginRouting
