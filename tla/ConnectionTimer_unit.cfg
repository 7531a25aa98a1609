SPECIFICATION TimerSpec
CONSTANTS
    Modulus = 16
    Period = 2
    Timeout = 5
    PerMs = 10
    MaxIdle = 60
PROPERTY TimeoutInMilliseconds
