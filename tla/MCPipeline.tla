----------------------------- MODULE MCPipeline -----------------------------
EXTENDS Pipeline, TLC

NoCalls == [t \in Threads |-> {}]
NoControls == {}
OnePriority == [x \in Items |-> 0]
=============================================================================
