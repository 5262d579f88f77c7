\* Commit messages containing "[hash]", "[version]", "$&", "$$", "$`" or
\* "$'": is each put into the changelog line verbatim?
CONSTANTS
  Keys <- CommitTokens
  Plain <- PlainText
  MaxTemplate = 2
  MaxValue = 1
  FreeText = {"message"}
  ValueAtoms <- UserValues

SPECIFICATION Spec

INVARIANT RenderMatchesContract
