\* A host list in the address=(key=value) form sends
\* parseParameterHostAddress round the same pair for ever.
CONSTANTS
  Urls <- KeyValueUrls
  HaModes <- MCModes
  Texts <- MCTexts
SPECIFICATION Spec
INVARIANT ParseReturnsOrRejects
