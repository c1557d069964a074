\* A Teams recording and two other videos
SPECIFICATION MediaSpec
CONSTANTS
  j1 = j1
  j2 = j2
  j3 = j3
  Jobs = {j1, j2, j3}
  RecordedAt <- MCRecordedAt
  Speech <- MCSpeech
  Listings <- MCListings
  CaptionFiles <- MCCaptions
  PageSize = 3
  Near = 3
  MinText = 2
  MaxText = 3
  Permits = 2
  TranscriptionEnabled = TRUE
  WhisperEnabled = TRUE
  FrameExtraction = TRUE
  MaxFaults = 1
  Nobody = Nobody
  Orphan = Orphan
\* every job ends
CHECK_DEADLOCK FALSE
INVARIANTS AllSaid RightMeeting
PROPERTY EveryJobEnds
