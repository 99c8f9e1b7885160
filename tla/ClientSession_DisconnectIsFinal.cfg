SPECIFICATION FairSpec
PROPERTY DisconnectIsFinal
