-------------------------- MODULE MCArtifactStore --------------------------
(* ArtifactStore.tla on two keys of one shard.                             *)
EXTENDS ArtifactStore

CONSTANTS p1, p2, k1, k2, b1, b2

MCPutters == {p1, p2}
MCGetters == {p1}
MCDeleters == {p1}
MCSweepers == {p2}
MCKeys == {k1, k2}
MCContents == {b1, b2}
MCOffers == {<<p1, k1, b1>>, <<p2, k1, b2>>, <<p2, k2, b1>>}
MCDescribed == {k2}
MCShardOf == [k \in MCKeys |-> "00"]
MCKindOf == k1 :> "route" @@ k2 :> "file"
MCRankOf == k1 :> 1 @@ k2 :> 2
MCSizeOf == b1 :> 1 @@ b2 :> 1
MCPolicies ==
  LET size(n, honour) == [max |-> n, older |-> -1, low |-> <<1, 1>>, honour |-> honour,
                          dry |-> FALSE, budget |-> FALSE]
  IN  {size(0, TRUE), size(1, FALSE), [size(-1, TRUE) EXCEPT !.older = 0],
       [size(2, TRUE) EXCEPT !.low = <<4, 5>>, !.budget = TRUE]}
=============================================================================
