SPECIFICATION FairTrafficSpec
CONSTANTS
  PageRefresh = {"timer"}
  OtherRefresh = {"logs"}
  MaxBytes = 3
  MaxSaves = 1
  MaxActs = 3
INVARIANTS TrafficTypeOK NoByteTwice SessionResumes
PROPERTIES TotalsCatchUp
