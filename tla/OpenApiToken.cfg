\* Margin 3, answers of up to 3 ticks: a token's answer and a request together
\* may take less than the margin, or more.
CONSTANTS
  Lifetimes <- MCLifetimes
  Margin = 3
  Default = 6
  Patience = 3
SPECIFICATION FairSpec
INVARIANTS TypeOK MarginCoversTravel OneLapseIsAbsorbed
PROPERTIES RequestEnds KeepsContract
