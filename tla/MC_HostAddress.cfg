\* Every host list of up to three symbols and one of each longer form,
\* parsed in each HaMode, printed with toString and parsed again; and the
\* SQLString operations against their reference definitions.
CONSTANTS
  Urls <- MCUrls
  HaModes <- MCModes
  Texts <- MCTexts
SPECIFICATION Spec
INVARIANT TypeOK
INVARIANT RoundTripPlain
INVARIANT CompareIsLexicographic
INVARIANT SearchAgrees
INVARIANT CaseCompareIgnoresCase
INVARIANT TrimStripsBlankEnds
