CONSTANTS
    Statuses = {"log"}
    NoAnimation = NoAnimation
    MaxVersion = 1
SPECIFICATION LogSpec
INVARIANTS AnimationAlive StatusMatchesWriter StatusVisible AnswersTrue
PROPERTY CommandsAnswered
