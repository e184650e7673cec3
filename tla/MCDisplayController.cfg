CONSTANTS
    Statuses = {"log", "wifi"}
    NoAnimation = NoAnimation
SPECIFICATION DisplaySpec
INVARIANT AnimationConsistent
