SPECIFICATION Spec
CONSTANTS
  oa = oa
  ob = ob
  oc = oc
  main = main
  registry = registry
  Nil = Nil
  Objs = {main, registry, oa, ob, oc}
  Programs <- MCPrograms
INVARIANTS TypeOK ReachableIsKept TriColour
PROPERTIES FreesOnlyGarbage ClearsOnlyWeak
