SPECIFICATION MCSpec
CONSTANTS
  Opens = {o1, o2}
  Subs = {s1, s2}
  Users = {s2}
  Deletes = {d1}
  Queries = {}
  ShardCounts = {1, 2}
  None = None
  Uses = {{"subscribe", "fail", "remove", "close"}, {"delete", "reconnect"},
          {"subscribe", "delete", "throw"}}
  MaxConns = 4
  MaxStarts = 2
INVARIANTS
  CallsKept
  ShardsInOrder
  ShardsAssigned
PROPERTIES
  CallsEndThere
CHECK_DEADLOCK FALSE
