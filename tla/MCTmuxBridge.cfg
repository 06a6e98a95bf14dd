SPECIFICATION FairSpec
CONSTANTS
  c1 = c1
  c2 = c2
  NULL = NULL
  ask = ask
  yes = yes
  limit = limit
  Callers = {c1, c2}
  Lines = {ask, yes, limit}
  Furniture = {yes}
  Limits = {limit}
  Asking = {ask}
  Options = {yes}
  Keys = {1}
  Key <- Digits
  Says <- Labels
  MaxPane = 3
INVARIANTS TypeOK NothingIsSkipped
PROPERTIES ReadsInOrder PromptIsFinished
