SPECIFICATION Spec
CONSTANTS
  AllEntries = {1, 2, 3, 4, 5, 6, 7}
PROPERTIES
  YieldsEarliest
