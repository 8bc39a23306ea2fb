CONSTANTS
  Kinds = {"request", "response"}
  Statuses = {200, 204}
  Bodies <- SmallBodies
  Pairs <- SmallPairs
  Deletable = {"X", "Connection", "Cookie", "Host", "Transfer-Encoding"}
  Cookies <- TwoCookies
  Lengths <- SmallLengths
  MaxBodySize = 2
  MinCompressLen = 2
  MaxCalls = 3
SPECIFICATION Spec
INVARIANTS Framed HeadersKept NeverStarved

