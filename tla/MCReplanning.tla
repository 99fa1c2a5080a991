----------------------------- MODULE MCReplanning -----------------------------
(***************************************************************************)
(* All graphs on four artifacts, one of each kind that matters: evidence   *)
(* of the market, a capability and an assessment of supply, economics.     *)
(* The edges go from earlier to later ones, and one closes a cycle.        *)
(***************************************************************************)
EXTENDS Replanning

MCArtifact == {"evidence", "capability", "assessment", "economics"}

MCTypeOf == [a \in MCArtifact |-> a]

\* business.moq_max, as far as these types go.
MCImpact == {"assessment"}

MCRoleOf ==
  [t \in MCArtifact |->
     CASE t = "evidence" -> Market
       [] t \in {"capability", "assessment"} -> "gap2sku-supply"
       [] t = "economics" -> "gap2sku-economics"]

MCEdges ==
  {<<"evidence", "capability">>, <<"evidence", "assessment">>, <<"capability", "assessment">>,
   <<"evidence", "economics">>, <<"assessment", "economics">>, <<"economics", "capability">>}

===============================================================================
