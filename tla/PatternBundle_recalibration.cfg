CONSTANTS CustomFiles = {"a"}
 SuricataFiles = {"c"}
 Params = {"p"}
 Appliers = {1}
 MaxExports = 1
 MaxUploads = 1
 MaxEdits = 1
 MaxCrashes = 0
SPECIFICATION PatternSpec
PROPERTY BundleRespected
CHECK_DEADLOCK FALSE
