SPECIFICATION Spec
CONSTANTS
  World <- MCWorld
  I64 = 536870912
  MAX_FRAME = 16777216
  FRAME_HEADROOM_BYTES = 65536
  Tags <- MCTags
  ByteLimits = {0, 1, 2, 3, 4, 5, 6, 7, 8, 9, 10, 11, 12, 13, 14, 15, 20}
  CharLimits = {1, 2, 3, 4}
  Setups <- MCSetups
  Headers <- MCHeaders
  Files <- MCFiles
  Dotted = {"index.html", "app.js", "store.json", ".", ".."}
  MAX_GAUGES_PER_PLUGIN = 2
  GAUGE_STALE_AFTER = 600
  CONFIG_HISTORY = 2
  BASE = 4
  MAX_NOISE_PAYLOAD = 3
  CHANNEL_FRAME = 5
  SMALL_FRAME_MAX_BYTES = 1024
  ADVERT_MAX_BYTES = 16384
  ADVERT_FRAME_WRAP_BYTES = 32
  ENVELOPE_FRAME_MAX_BYTES = 1048576
  SEALED_OVERHEAD_MARGIN = 512
  ADVERT_MAX_FUTURE_SECS = 86400
  STEP_TIMEOUT = 2
  ttl_secs = 2
INVARIANTS LoadedIsServable SentIsAccounted GuardsAgree OperatorIsTold WireIsFaithful EchoSwallowedOnce
CHECK_DEADLOCK FALSE
