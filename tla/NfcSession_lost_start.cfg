SPECIFICATION CardSpec
PROPERTY EveryStartHonoured
