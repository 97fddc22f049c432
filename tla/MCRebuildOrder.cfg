SPECIFICATION RFairSpec
CONSTANTS
  Absent = Absent
  Dir = Dir
  Torn = Torn
  Keep = Keep
  Forget = Forget
  None = None
  lib = lib
  client = client
  tool = tool
  x = x
  y = y
  v1 = v1
  conf = conf
  new = new
  c1 = c1
  c2 = c2
  Path = {}
  Content = {}
  Name = {lib, client, tool}
  Abi = {x, y}
  Cpu = {v1}
  Config = {}
  Catalog <- MCCatalog
  NewOf <- MCNewOf
  MaxEdits = 0
  Recipes <- MCRecipes
  Rank <- ToolFirst
  Stock <- MCStock
  MaxHand = 4
  MaxKills = 0
PROPERTIES
  QueueDrains
CHECK_DEADLOCK FALSE
