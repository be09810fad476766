\* Every controller, with and without RAM; the bytes include each value a
\* controller singles out and one on either side of every mask.
CONSTANTS
  Bytes = {0, 1, 2, 3, 5, 8, 10, 12, 13, 33, 66, 255}
  None = None
  \* Both sides of every border of the memory map, and some within.
  Addresses = {0, 16383, 16384, 32766, 32767, 32768, 40959, 40960, 49151, 49152, 53247, 53248, 57343, 57344, 57441, 61439, 61440, 65023, 65024, 65279, 65280, 65407, 65408, 65534, 65535}
  \* Two keys in a group.
  Bits = {0, 1}
SPECIFICATION MemorySpec
CHECK_DEADLOCK FALSE
INVARIANTS WindowsCurrent RamWindowCurrent DisabledUnmapped BytesReachOwner WordsReachOwners CopiesReachOwner ReadsTheKeys
PROPERTIES DiesForAReason PressIsReported NoStrayRequest
