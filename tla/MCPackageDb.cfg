SPECIFICATION Spec
CONSTANTS
  Absent = Absent
  Dir = Dir
  Torn = Torn
  Keep = Keep
  Forget = Forget
  None = None
  lib = lib
  app = app
  top = top
  bin = bin
  conf = conf
  new = new
  b = b
  c = c
  x = x
  y = y
  v1 = v1
  v3 = v3
  Path = {bin, conf, new}
  Content = {b, c}
  Name = {lib, app, top}
  Abi = {x, y}
  Cpu = {v1, v3}
  Config = {conf, new}
  Catalog <- MCCatalog
  NewOf <- MCNewOf
  MaxEdits = 2
INVARIANTS
  TypeOK
  OneOwner
  VerifyBlamesEdits
  MismatchIsQueued
  OneCpu
PROPERTIES
  EditsSurvive
  OperationsAreTransactions
CHECK_DEADLOCK FALSE
