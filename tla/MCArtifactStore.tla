--------------------------- MODULE MCArtifactStore ---------------------------
(***************************************************************************)
(* A small instance of ArtifactStore: a prompt, a render manifest that is  *)
(* regenerated with a second asset, and a supplier quote imported into a   *)
(* second project.                                                         *)
(***************************************************************************)
EXTENDS ArtifactStore, TLC

CONSTANTS c1, c2, prompt, render, quote, p1, p2

MCClient == {c1, c2}
MCArtifactId == {prompt, render, quote}
MCProject == {p1, p2}

PromptCall == [id |-> prompt, project |-> p1, key |-> "prompt", refs |-> {}, bump |-> FALSE]
RenderCall(asset) ==
  [id |-> render, project |-> p1, key |-> asset, refs |-> {prompt}, bump |-> TRUE]
QuoteCall(document, project) ==
  [id |-> quote, project |-> project, key |-> document, refs |-> {prompt}, bump |-> FALSE]

MCCall == {PromptCall, RenderCall("asset1"), RenderCall("asset2"),
           QuoteCall("doc", p2)}

MCKey == {k.key : k \in MCCall}

MCSymmetry == Permutations(MCClient)

=============================================================================
