SPECIFICATION Spec
CONSTANTS
  Tasks = {t1, t2}
  Aliases = {a1, a2}
  Kinds = {"file", "keychain", "env", "ledger"}
  MaxAdds = 2
  MaxLists = 1
  MaxAborts = 1
SYMMETRY Permuted
INVARIANTS TypeOK CachedAlive AuditOnlySigned ListExact CacheMatches OncePerAlias
