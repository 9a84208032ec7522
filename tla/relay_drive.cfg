CONSTANTS
  Loop = loop
  Others = {tcp, event}
SPECIFICATION Spec
INVARIANTS TypeOK CommandTopicReported StateTopicReported
PROPERTIES LockIsReleased TopicsCatchUp OutputSpec
