SPECIFICATION Spec
CONSTANTS
  Tasks = {t1}
  Aliases = {a1}
  Kinds = {"keychain"}
  MaxAdds = 1
  MaxLists = 1
  MaxAborts = 1
INVARIANT KeyZeroed
