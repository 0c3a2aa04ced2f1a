SPECIFICATION Spec
CONSTANTS
  a = a
  b = b
  c = c
  ka = ka
  kn = kn
  kb = kb
  kc = kc
  Node = {a, b, c}
  Asker = {b, c}
  Key = {ka, kn, kb, kc}
  FirstKey <- MCFirstKey
  KeysOf <- MCKeysOf
  Reason = {r1, r2}
  Peers <- MCPeers
  Typed <- MCTyped
  Listen <- MCListen
  MaxForms = 4
INVARIANTS
  TypeOK
  VotesAreSigned
  BansArrive
PROPERTY QueryReturns
CHECK_DEADLOCK FALSE
