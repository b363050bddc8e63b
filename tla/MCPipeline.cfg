SPECIFICATION Spec
CONSTANTS
  Name = {"a", "b", "c"}
  Subnet = {"net"}
  OurSubnet = "net"
  Rule <- MCRule
  Host = {"b"}
  Cache = {"A", "B"}
  Clients <- MCClients
  Programs <- MCPrograms
  MaxRuns = 3
INVARIANTS TypeOK CachedAnswersKey ReplyAnswersClient EcsPrivacy RefreshFindsKey
PROPERTY NeverRestored
