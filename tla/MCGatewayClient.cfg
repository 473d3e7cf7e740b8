SPECIFICATION ClientSpec
CONSTANTS
  c1 = c1 
  c2 = c2 
  c3 = c3
  l1 = l1
  l2 = l2
  w1 = w1 
  w2 = w2 
  w3 = w3
  w4 = w4
  NoCaller = NoCaller
  Callers = {c1, c2, c3}
  MintAttempts = 2
  MaxTokens = 2
  Loops = {l1, l2}
  SettleDelays = 2
  Pages = 3
  PageLimit = 2
  Writes = {w1, w2, w3, w4}
  Then <- TwoThenTwo
  g1 = g1
  g2 = g2
  Generators = {g1, g2}
  GeneratedIds = {1, 2, 3}
  GenerationPolls = 2
  LockRetries = 1
  MaxGenFaults = 1
CHECK_DEADLOCK FALSE
PROPERTIES TokensAreSafe LoopsSettle LanesFlow GenerationSettles
