\* The alert threshold and another rule, a score between the code's and the saved threshold.
SPECIFICATION Spec
CONSTANTS
    Rule = {"threat_threshold", "other"}
    Threshold = "threat_threshold"
    Value = {50, 75}
    Score = {60}
    MaxSaves = 2
PROPERTIES
    AlertsFollowThreshold
CHECK_DEADLOCK FALSE
