\* Every request, reset and poll, in any order, between the steps of a write.
SPECIFICATION Spec
INVARIANTS
  TypeOK
  NoEndpointLeak
  NeverStuck
PROPERTY PipeSpec
