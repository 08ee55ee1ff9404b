SPECIFICATION Spec
CONSTANTS
  Name <- MCName
  Programs <- MCPrograms
  FixedFields <- MCFixedFields
INVARIANTS ClassTypeOK CallMatchesSignature OnlyExtractsMembers DeclarationsDefined
