CONSTANTS
    Statuses = {"log"}
    NoAnimation = NoAnimation
    MaxVersion = 1
SPECIFICATION LogSpec
PROPERTY LoggerFollowsConfiguration
