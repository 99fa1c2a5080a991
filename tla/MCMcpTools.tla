------------------------------ MODULE MCMcpTools ------------------------------
(***************************************************************************)
(* Two servers, one concept with one online image and the one of the asset *)
(* directory, two prompts of which the pipeline stores one too, an RFQ and *)
(* two documents that claim to be the same quote set.                      *)
(***************************************************************************)
EXTENDS McpTools, TLC

CONSTANTS s1, s2, a, i1, replay, doc1, doc2, h0, h1

MCServer == {s1, s2}
MCConcept == {a}
MCOnline == {i1}
MCHash == {h0, h1}
MCDocument == {doc1, doc2}
MCName == {"p1", "p2", "nap-p1", "rfq", "quotes"}

MCPrompt(p, refs) == [prompt_id |-> p, concept |-> a, spec |-> h0, refs |-> refs]

MCRecord == {MCPrompt("p1", {}), MCPrompt("p2", {Given("rfq")})}

MCQuotes(document, actor) ==
  [quotes |-> [quote_set_id |-> "quotes", rfq_ref |-> Given("rfq"), spec |-> h1,
               document |-> document],
   owner |-> "gap2sku-supply", actor |-> actor, evidence |-> "REAL SUPPLIER_RESPONSE"]

MCQuoteSet == {MCQuotes(doc1, "human-manager"), MCQuotes(doc2, "gap2sku-supply"),
               MCQuotes(doc2, "gap2sku-market")}

MCPipelineRow ==
  {[id |-> Given("nap-p1"), version |-> 1, key |-> <<"pipeline", "nap-p1">>, refs |-> {},
    type |-> "RenderPromptRecord", payload |-> MCPrompt("p1", {})],
   [id |-> Given("rfq"), version |-> 1, key |-> <<"pipeline", "rfq">>, refs |-> {},
    type |-> "RFQPack", payload |-> [spec |-> h1]]}

MCSymmetry == Permutations(MCServer)

===============================================================================
