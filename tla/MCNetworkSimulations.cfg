SPECIFICATION Spec
CONSTANTS
  Programs = {"packet_loss", "packet_loss2", "producers", "bounded"}
  PackageCount = 3
  ProducerCount = 2
  ConsumerCount = 2
  Capacity = 2
INVARIANTS TypeOK MessagesConserved MessagesInOrder
PROPERTIES SimulationEnds
CHECK_DEADLOCK FALSE
