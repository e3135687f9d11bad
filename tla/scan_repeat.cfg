\* Three scans in turn, frames queued across them.
CONSTANTS
  Codes = {"room", "other"}
  MaxScans = 3
  MaxFrames = 3
SPECIFICATION FairSpec
INVARIANTS TypeOK LateFrameIsDropped
PROPERTIES ScanEnds
CHECK_DEADLOCK FALSE
