CONSTANTS
    Publishes = {1, 2, 3}
    PayloadOf <- MCPayloadOf
    SendRetries = 1
SPECIFICATION MCSpec
PROPERTIES
    PublishIsAnswered
CHECK_DEADLOCK FALSE
