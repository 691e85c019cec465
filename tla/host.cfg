\* A group that is left, swept and made again, and one that is linked to it.
SPECIFICATION Spec
CONSTANTS
  Gid = {g, h}
  Asked = {g}
  Old = {g, h}
  Member = {m}
  Payer = {h}
  Request = {r1, r2}
  Call = {"create", "join", "leave", "rename", "other"}
  None = None
  Broken = Broken
  MaxFaults = 1
INVARIANT TypeOK
INVARIANT MarkSaysEmpty
PROPERTY MembersStay
PROPERTY DeletedAfterGraceIfCalm
 
SYMMETRY Interchangeable
CHECK_DEADLOCK FALSE
