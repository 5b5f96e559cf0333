---- MODULE MCChainNode ----
EXTENDS ChainNode
====
