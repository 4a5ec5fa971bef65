SPECIFICATION Spec
CONSTANTS
  s1 = s1
  s2 = s2
  Session = {s1, s2}
  KEY_A = KEY_A
  KEY_B = KEY_B
  KEY_NONE = KEY_NONE
  Modifier = {}
  Key = {KEY_A, KEY_B}
  Vk = {"VK_TAB"}
  VkToScancode <- MCVkToScancode
  KEYBD_MAX_KEY_COUNT = 1
  Disabled = {}
  Reads = 2
  MaxReplays = 2
SYMMETRY Symmetry
INVARIANTS TypeOK SuccessMeansDelivered NothingFailsAlone NoStuckKey
CHECK_DEADLOCK FALSE
