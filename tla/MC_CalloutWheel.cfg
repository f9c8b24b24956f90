SPECIFICATION WheelSpec
CONSTANTS
    WheelSize = 4
INVARIANT
    NeverOvertaken
PROPERTY
    LeavesBucketInTime
