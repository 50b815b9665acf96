SPECIFICATION LoaderSpec
CONSTANTS
  Names <- MCNames
  Outcomes <- MCOutcomes
  MaxBundle = 3
INVARIANTS
  ModuleFoundByName
