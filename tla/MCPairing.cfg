SPECIFICATION PairSpec
CONSTANTS
  a = a  b = b  c = c  p = p  host = host  desk = desk  s1 = s1
  o1 = o1  o2 = o2  o3 = o3  o4 = o4
  NoPerson = NoPerson  NoRow = NoRow  NoOffer = NoOffer  NoName = NoName
  Node = {a, b, c}  Name = {host, desk}  Service = {s1}  Offer = {o1, o2, o3, o4}
  Person <- MCPerson  Nick <- MCNick  By <- MCBy  Kind <- MCKind
  Alias <- MCAlias  Minted <- MCMinted  Grants <- MCGrants
  Operated = {a}  Verbs = {"peer_remove", "peer_rename", "peer_introduce", "peer_add", "peer_revoke"}
  MaxDials = 2  MaxOps = 1  MaxStops = 1
INVARIANTS PairTypeOK PairedBothWays NoOrphanGrant NamesUnique RevokedNeverPairs
PROPERTY NeverWeakened
CHECK_DEADLOCK FALSE
