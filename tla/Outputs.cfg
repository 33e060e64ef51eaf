SPECIFICATION OutputsSpec
CONSTANTS
  Outputs = {"elasticsearch", "logstash sync", "logstash async", "kafka", "redis", "file", "console", "discard", "otelconsumer"}
  Events = {1, 2, 3}
  Layouts <- OneOrTwoBatches
  Hosts = 2
  MaxBatches = 4
  MaxFaults = 2
  StartWindow = 2
  MaxWindow = 4
INVARIANTS OutputsAccount
PROPERTIES EveryBatchFinishes
CHECK_DEADLOCK FALSE
