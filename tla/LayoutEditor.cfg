SPECIFICATION Spec
CONSTANTS
  d1 = d1
  d2 = d2
  a = a
  Controls <- MCControls
  Stick = a
  First = a
  Group <- MCGroup
  DefaultAt <- MCDefaultAt
  Width = 4
  DefaultSize = 1
  MinSize = 1
  MaxSize = 2
  Reach = 5
INVARIANTS
  LayoutSurvives
  UndoKeepsControls
PROPERTIES
  LinkedGroupKeepsShape
  LinkedGroupStaysOnScreen
