SPECIFICATION Spec
CONSTANTS
  Depth = 3
  GitRoots = {2}
  Profiles <- MCProfiles
  Places = {"cache", "root", "slash"}
  NoPlace = "nowhere"
  CacheGraph <- MCCacheGraph
  RootGraph <- MCRootGraph
  SlashGraph = "slash"
  BinaryBeside = {"cache"}
  Outs = {"root"}
  Trees <- MCTrees
  Sizes = {2, 3}
  Builders = {"b1", "b2"}
  Reader = "reader"
  MaxEdits = 1
  MaxBuilds = 2
INVARIANTS
  TypeOK
  UndisturbedBuildStays
  AnswersAreAccountable
PROPERTY
  ProfileIsNearest
