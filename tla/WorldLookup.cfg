SPECIFICATION ServerSpec
CONSTANTS
  Blocks = 10
  BlockBits = 3
  WordBits = 5
  Kinds <- SomeKinds
  k1 = k1
  k2 = k2
  k3 = k3
  k4 = k4
  Keys = {k1, k2, k3, k4}
  Values = {1, 2}
  NoValue = NoValue
  HashOf <- Hashes
  Primes <- SmallPrimes
  t1 = t1
  t2 = t2
  c1 = c1
  c2 = c2
  Threads = {t1, t2}
  Columns = {c1, c2}
  BucketOf <- ColumnBuckets
  Chunks = {1, 2, 3}
  NoChunk = NoChunk
  SectionCount = 2
  FirstId <- FarBelow
  IdCount = 4
  MaxJoins = 6
  Junk = Junk
  Nobody = Nobody
  Servants = {t1, t2}
  Main = Main
  TickLength = 2
  Base = 3
  Seconds = {0, 1}
  MaxTicks = 4
PROPERTY
  FoundAgain
CHECK_DEADLOCK FALSE
