CONSTANTS
  Tables <- UsersOnly
  Named <- AllTables
  Literals = {0, 1, 2}
  Scripts <- SomeScripts
  Actors = {"dba", "intern"}
  Environment = "default"
  Rulebooks <- SomeRulebooks
  MaxCache = 1
SPECIFICATION Spec
INVARIANTS CacheIsFresh
