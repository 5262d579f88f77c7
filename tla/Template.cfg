\* Templates of up to 3 atoms, with placeholders, text and "$" sequences,
\* rendered with token values of plain text.
CONSTANTS
  Keys <- CommitTokens
  Plain <- PlainText
  MaxTemplate = 3
  MaxValue = 2
  FreeText = {"message"}
  ValueAtoms <- PlainValues

SPECIFICATION Spec

INVARIANT RenderMatchesContract
