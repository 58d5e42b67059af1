SPECIFICATION Spec
CONSTANT Confidences = {30, 59, 60, 90}
INVARIANT FollowsPolicyUnlessOverruled
PROPERTY DegradationNeverRelaxes
CHECK_DEADLOCK FALSE
