SPECIFICATION Spec
CONSTANTS
  Tasks = {t1, t2}
  Aliases = {a1}
  Kinds = {"keychain"}
  MaxAdds = 2
  MaxLists = 1
  MaxAborts = 1
INVARIANT AdapterOfRecord
