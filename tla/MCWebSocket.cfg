SPECIFICATION Spec
CONSTANTS
  Datas <- MCDatas
  Masks <- MCMasks
  Len16 = 3
  Len64 = 4
  Width16 = 3
  Width64 = 6
  MaxSize = 5
  MaxSends = 2
 
PROPERTY ConnectedThenClosed
CHECK_DEADLOCK FALSE
