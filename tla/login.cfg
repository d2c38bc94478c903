CONSTANTS
  r1 = r1  r2 = r2  h1 = h1  h2 = h2  a1 = a1
  None = None
  Logins = {r1, r2}
  Savers = {h1, h2}
  MaxTokens = 2
  Addresses = {a1}
  loginMaxFails = 2
  loginWindow = 1
  sessionTTL = 1
  MaxChanges = 2
  MaxErrors = 1
  MaxRestarts = 1
SPECIFICATION Spec
INVARIANTS SessionsCurrent TriesBounded DefaultGuarded
PROPERTIES LetInAgain
