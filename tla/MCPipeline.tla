------------------------------ MODULE MCPipeline ------------------------------
\* Instances of the pipeline for TLC: the constants are given in the cfg files.
EXTENDS PipelineProperties, TLC

\* Workers, and transcripts that are all labelled, are interchangeable.
Symmetric == Permutations(Workers) \cup Permutations(Texts)
==============================================================================
