SPECIFICATION FairSpec
CONSTANTS
  n1 = n1
  n2 = n2
  n3 = n3
  Name = {n1, n2, n3}
  Bucket = {0, 1}
  Hash <- MCHash
  NumLocs = 3
INVARIANT TablesAgree
PROPERTY SquashEnds
