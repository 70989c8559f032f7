SPECIFICATION Spec
CONSTANTS
  Characters <- Letters
  KeyLength = 2
  Keys <- SomeKeys
  Words <- SomeWords
  UserIds <- TwoUsers
  MaxGiven = 3
INVARIANTS OneName
