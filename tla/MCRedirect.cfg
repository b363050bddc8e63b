SPECIFICATION Spec
CONSTANTS
  Name = {"a", "b", "c"}
  Subnet = {"net"}
  OurSubnet = "net"
  Rule <- MCRule
  Host = {"a"}
  Cache = {"A", "B"}
  Clients <- MCClients
  Programs <- MCAnswerFirst
  MaxRuns = 1
INVARIANT ReplyAnswersClient
