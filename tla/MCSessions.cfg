SPECIFICATION Spec
CONSTANTS
  s1 = s1  s2 = s2  s3 = s3
  t1 = t1  t2 = t2  t3 = t3  b1 = b1  b2 = b2
  Ids <- ThreeIds
  Tabs <- ThreeTabs
  Browsers = {b1, b2}
  BrowserOf <- TwoAndOne
  Tokens = {1}
  NoSession = NoSession  NoToken = NoToken
SYMMETRY Symmetry
INVARIANT OneHeir
INVARIANT StaysSignedIn
CHECK_DEADLOCK FALSE
