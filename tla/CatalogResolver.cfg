SPECIFICATION Spec
CONSTANTS
  Missing = Missing
  Uri <- MCUri
  Entries <- MCEntries
  Lists <- MCLists
  PublicIds <- MCPublicIds
  SystemIds <- MCSystemIds
  Urn = "urn"
  MaxTime = 3
  Ticks = {1}
INVARIANTS
  TypeOK
  AnswersAsDefined
  OnlyCirclesAreStruck
