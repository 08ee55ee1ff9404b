SPECIFICATION Spec
CONSTANTS
  Header <- MCHeader
  ClassesIn <- MCClassesIn
  Template <- MCTemplate
  Skipped <- MCSkipped
  AliasesIn <- MCAliasesIn
  EnumInCtor <- MCEnumInCtor
  ListInCtor <- MCListInCtor
  Includes <- MCIncludes
  FilterHeader <- MCFilterHeader
  RunUnits <- MCRunUnits
  ItemFilter = "ItemFilter"
  NoFile = NoFile
  Invalid = Invalid
  h1 = h1
  h2 = h2
  h3 = h3
INVARIANTS OwnText SourceMatchesHeader CleanWhenDisjoint
PROPERTY EveryClassWritten
