SPECIFICATION FairSpec
CONSTANTS
  alter = alter
  create = create
  rewritten = rewritten
  index = index
  r1 = r1
  r2 = r2
  r3 = r3
  Runners = {r1, r2, r3}
  Directories <- Images
  MaxVersion = 3
  Names = {"first", "second", "third"}
  Sqls = {alter, create, rewritten, index}
  Blank = Blank
  NoFile = NoFile
  NoRunner = NoRunner
INVARIANT
  RecordTrue
PROPERTIES
  CurrentIsTrue
  ImplementsHistory
  UpCompletes
