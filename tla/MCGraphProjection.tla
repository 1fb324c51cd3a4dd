-------------------------- MODULE MCGraphProjection --------------------------
EXTENDS GraphProjectionCalm
CONSTANTS Slots
MCRows == ({"upsert_edge"} \X Edges \X Slots) \cup ({"remove_edge"} \X Edges \X {1})
MCOpOf == [r \in MCRows |-> r[1]]
MCEdgeOf == [r \in MCRows |-> r[2]]
MCEnds == [e \in Edges |-> Nodes]
=============================================================================
