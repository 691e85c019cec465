\* A group is deleted although someone is in it.
SPECIFICATION Spec
CONSTANTS
  Gid = {g, h}
  Asked = {g}
  Old = {g, h}
  Member = {m}
  Payer = {}
  Request = {r1, r2}
  Call = {"create", "join", "leave"}
  None = None
  Broken = Broken
  MaxFaults = 0
PROPERTY DeletedAfterGrace
CHECK_DEADLOCK FALSE
