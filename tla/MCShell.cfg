SPECIFICATION MCSpec
CONSTANTS
  Sizes = {4, 8}
  HEAP_BLOCKS = 4
  KEY_CAP = 4
  Keys = {"a", "Enter", "Backspace", "Delete", "PageUp", "Left", "Right", "Up", "Down",
          "Home", "End", "CtrlC", "CtrlK", "CtrlW", "CtrlZ", "Tab", "Escape", "F1"}
  Editing = {"a", "Enter", "Backspace", "Delete", "Left", "Right", "Up", "Down", "Home", "End",
             "CtrlC", "CtrlK", "Tab"}
  Requests = {3, 9}
  Spaces = " "
  TAB <- MCTab
  MAX_AHEAD = 2
  MAX_LINE = 2
  MAX_HISTORY = 2
CONSTRAINT NotUpset
INVARIANTS
  
  KeysAsPressed
PROPERTIES
  EditorSpec
  KeysHandled
