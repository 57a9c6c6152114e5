SPECIFICATION LifeFairSpec
CONSTANTS
    MaxSigints = 1
    MaxSigterms = 0

PROPERTIES CtrlCEnds
