CONSTANT RetryCount = 10
SPECIFICATION BootSpec
INVARIANTS NothingUsedBeforeMade AccessPointServed
PROPERTY BootEnds
