CONSTANTS
  s1 = s1
  s2 = s2
  a = a
  i1 = i1
  replay = replay
  doc1 = doc1
  doc2 = doc2
  h0 = h0
  h1 = h1
  None = None
  Server <- MCServer
  Concept <- MCConcept
  Online <- MCOnline
  Replay = replay
  Record <- MCRecord
  QuoteSet <- MCQuoteSet
  PipelineRow <- MCPipelineRow
  Name <- MCName
  Hash <- MCHash
  Document <- MCDocument
  MaxVersion = 2

SPECIFICATION Spec

INVARIANTS
  AnswerNamesStored
  AnsweredIsLinked
  ManifestsRestOnPrompts


SYMMETRY MCSymmetry
