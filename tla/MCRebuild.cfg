SPECIFICATION RFairSpec
CONSTANTS
  Absent = Absent
  Dir = Dir
  Torn = Torn
  Keep = Keep
  Forget = Forget
  None = None
  lib = lib
  client = client
  tool = tool
  x = x
  y = y
  v1 = v1
  conf = conf
  new = new
  c1 = c1
  c2 = c2
  Path = {conf, new}
  Content = {c1, c2}
  Name = {lib, client, tool}
  Abi = {x, y}
  Cpu = {v1}
  Config = {conf, new}
  Catalog <- MCCatalog
  NewOf <- MCNewOf
  MaxEdits = 2
  Recipes <- MCRecipes
  Rank <- ClientFirst
  Stock <- MCStock
  MaxHand = 5
  MaxKills = 1
PROPERTIES
  SteadyRebuildCompletes
  QueueDrains
CHECK_DEADLOCK FALSE
