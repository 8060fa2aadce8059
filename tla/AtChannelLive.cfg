CONSTANTS
  query = query
  list = list
  digits = digits
  plain = plain
  set2 = set2
  set3 = set3
  raw = raw
  carrier = carrier
  same = same
  sms = sms
  None = None
  Commands = {query, list, digits, plain, set2, set3, raw}
  Type <- AtTypes
  Prefix <- AtPrefixes
  PowerCommands = {list, plain}
  Urcs = {carrier, same, sms}
  UrcText <- AtUrcTexts
  Instances <- LiveInstances
  MaxLines = 2
  MaxPty = 2
SPECIFICATION FairSpec
PROPERTIES FinalWakesSender ReaderDrains
CHECK_DEADLOCK FALSE
